---------------------------- MODULE NamesProofs -----------------------------
(***************************************************************************)
(* Every action of Names preserves NamesInv's invariant, for programs and   *)
(* tables of any size; with it, the references of inodes are counted right in*)
(* every state, and no inode without links is left behind.                  *)
(***************************************************************************)
EXTENDS NamesInv, FiniteSetTheorems, FunctionTheorems, WellFoundedInduction, SequenceTheorems, TLAPS

----------------------------------------------------------------------------
(* How references are counted, what the operators of Names do with the     *)
(* inode cache, and what a step that is no iput may do for the invariant to *)
(* be kept (OneKeeps).                                                     *)

\* The least of a set of numbers.
LEMMA Least ==
  ASSUME NEW S \in SUBSET Nat, S # {}
  PROVE  Min(S) \in S /\ \A n \in S : Min(S) <= n
<1> DEFINE R == {ss \in Nat \X Nat : ss[1] < ss[2]}
<1>1. OpToRel(<, Nat) = R
  BY Zenon DEF OpToRel
<1>2. IsWellFoundedOn(R, Nat)
  BY <1>1, NatLessThanWellFounded
<1>3. PICK x \in S : \A n \in S : ~ (<<n, x>> \in R)
  BY <1>2, WFMin
<1>4. ASSUME NEW n \in S PROVE x <= n
  <2>1. <<n, x>> \notin R
    BY <1>3
  <2> QED
    BY <2>1
<1> QED
  BY <1>4 DEF Min

\* The index sets of the tables are finite.
LEMMA Tables ==
  /\ IsFiniteSet(Procs) /\ Procs \subseteq Nat /\ 0 \notin Procs
  /\ IsFiniteSet(Inums) /\ Inums \subseteq Nat /\ 0 \notin Inums /\ ROOTINO \in Inums
  /\ IsFiniteSet(1 .. NFILE) /\ Inums \subseteq 0 .. ninodes
<1>1. /\ NPROC \in Nat /\ ninodes \in Nat /\ ninodes # 0 /\ NFILE \in Nat
  BY NamesAssumption
<1>2. \A n \in Nat : IsFiniteSet(1 .. n)
  <2>1. ASSUME NEW n \in Nat PROVE IsFiniteSet(1 .. n)
    <3>1. 1 \in Int /\ n \in Int
      OBVIOUS
    <3> QED
      BY <3>1, FS_Interval
  <2> QED
    BY <2>1
<1> QED
  BY <1>1, <1>2 DEF Procs, Inums, ROOTINO

----------------------------------------------------------------------------
(* How often something is in a sequence.                                   *)

Is01(a, i) == IF a = i THEN 1 ELSE 0
Occurs(w, i) == {j \in 1 .. Len(w) : w[j] = i}
Count(w, i) == Cardinality(Occurs(w, i))

\* A sequence is finite, and so are the places where something is.
LEMMA OccursFinite ==
  ASSUME NEW w \in Seq(Nat), NEW i
  PROVE  IsFiniteSet(Occurs(w, i)) /\ Count(w, i) \in Nat
<1>1. Len(w) \in Int /\ 1 \in Int
  OBVIOUS
<1>2. IsFiniteSet(1 .. Len(w)) /\ Occurs(w, i) \subseteq 1 .. Len(w)
  BY <1>1, FS_Interval DEF Occurs
<1> QED
  BY <1>2, FS_Subset, FS_CardinalityType DEF Count

\* Sequence u is v and then w.
Joined(u, v, w) ==
  /\ u \in Seq(Nat) /\ v \in Seq(Nat) /\ w \in Seq(Nat) /\ Len(u) = Len(v) + Len(w)
  /\ \A j \in 1 .. Len(v) + Len(w) : u[j] = IF j <= Len(v) THEN v[j] ELSE w[j - Len(v)]

\* What is in a joined sequence is in one part or in the other.
LEMMA CountJoined ==
  ASSUME NEW u, NEW v, NEW w, NEW i, Joined(u, v, w)
  PROVE  Count(u, i) = Count(v, i) + Count(w, i)
<1> DEFINE A == Occurs(v, i)  B == Occurs(w, i)
           C == {j \in (Len(v) + 1) .. (Len(v) + Len(w)) : w[j - Len(v)] = i}
           F == [j \in B |-> j + Len(v)]
<1>0. /\ u \in Seq(Nat) /\ v \in Seq(Nat) /\ w \in Seq(Nat) /\ Len(u) = Len(v) + Len(w)
      /\ \A j \in 1 .. Len(v) + Len(w) : u[j] = IF j <= Len(v) THEN v[j] ELSE w[j - Len(v)]
  BY DEF Joined
<1>1. Len(v) \in Nat /\ Len(w) \in Nat
  BY <1>0
<1>3. Occurs(u, i) = A \cup C
  BY SMTT(30), <1>0, <1>1 DEF Occurs
<1>4. A \cap C = {}
  BY <1>1 DEF Occurs
<1>5. F \in Bijection(B, C)
  <2>1. \A j \in B : j \in 1 .. Len(w) /\ w[j] = i
    BY DEF Occurs
  <2>2. F \in [B -> C]
    BY <1>1, <2>1
  <2>3. \A j, k \in B : F[j] = F[k] => j = k
    BY <1>1, <2>1
  <2>4. \A c \in C : c - Len(v) \in B /\ F[c - Len(v)] = c
    BY <1>1 DEF Occurs
  <2> HIDE DEF F, B, C
  <2>5. \A c \in C : \E j \in B : F[j] = c
    BY <2>4
  <2> QED
    BY <2>2, <2>3, <2>5, Fun_IsBij
<1>6. IsFiniteSet(A) /\ IsFiniteSet(B) /\ Cardinality(A) \in Nat /\ Cardinality(B) \in Nat
  BY <1>0, OccursFinite DEF Count
<1> HIDE DEF A, B, C, F
<1>7. IsFiniteSet(C) /\ Cardinality(C) = Cardinality(B)
  BY <1>5, <1>6, FS_Bijection, Fun_ExistsBij
<1>8. Cardinality(A \cup C) = Cardinality(A) + Cardinality(C) - Cardinality(A \cap C)
  BY <1>6, <1>7, FS_Union
<1>9. Cardinality(A \cap C) = 0
  BY <1>4, FS_EmptySet
<1>10. Cardinality(A \cup C) = Cardinality(A) + Cardinality(B)
  BY <1>6, <1>7, <1>8, <1>9
<1> QED
  BY <1>3, <1>10 DEF Count, A, B

\* The empty sequence and one with one element.
LEMMA CountOne ==
  ASSUME NEW a, NEW i
  PROVE  Count(<<>>, i) = 0 /\ Count(<<a>>, i) = Is01(a, i)
<1>1. Occurs(<<>>, i) = {}
  BY DEF Occurs
<1>2. Occurs(<<a>>, i) = IF a = i THEN {1} ELSE {}
  BY DEF Occurs
<1> QED
  BY <1>1, <1>2, FS_EmptySet, FS_Singleton DEF Count, Is01

\* A short sequence; a sequence with one more element, at its end or at its head.
LEMMA Counts ==
  ASSUME NEW i
  PROVE  /\ \A a, b \in Nat : Count(<<a, b>>, i) = Is01(a, i) + Is01(b, i)
         /\ \A w \in Seq(Nat), a \in Nat : Count(Append(w, a), i) = Count(w, i) + Is01(a, i)
         /\ \A w \in Seq(Nat) : w # <<>> => Count(w, i) = Is01(Head(w), i) + Count(Tail(w), i)
<1>1. ASSUME NEW a \in Nat, NEW b \in Nat
      PROVE  Count(<<a, b>>, i) = Is01(a, i) + Is01(b, i)
  <2>1. Joined(<<a, b>>, <<a>>, <<b>>)
    BY DEF Joined
  <2>2. Count(<<a, b>>, i) = Count(<<a>>, i) + Count(<<b>>, i)
    BY <2>1, CountJoined
  <2> QED
    BY <2>2, CountOne
<1>2. ASSUME NEW w \in Seq(Nat), NEW a \in Nat
      PROVE  Count(Append(w, a), i) = Count(w, i) + Is01(a, i)
  <2>1. Joined(Append(w, a), w, <<a>>)
    BY DEF Joined
  <2>2. Count(Append(w, a), i) = Count(w, i) + Count(<<a>>, i)
    BY <2>1, CountJoined
  <2> QED
    BY <2>2, CountOne
<1>3. ASSUME NEW w \in Seq(Nat), w # <<>>
      PROVE  Count(w, i) = Is01(Head(w), i) + Count(Tail(w), i)
  <2>1. Joined(w, <<Head(w)>>, Tail(w))
    BY <1>3 DEF Joined
  <2>2. Count(w, i) = Count(<<Head(w)>>, i) + Count(Tail(w), i)
    BY <2>1, CountJoined
  <2> QED
    BY <2>2, CountOne
<1> QED
  BY <1>1, <1>2, <1>3

\* Four elements in front of a sequence.
LEMMA CountFour ==
  ASSUME NEW w \in Seq(Nat), NEW a \in Nat, NEW b \in Nat, NEW c \in Nat, NEW d \in Nat, NEW i
  PROVE  Count(<<a, b, c, d>> \o w, i) =
           Is01(a, i) + Is01(b, i) + Is01(c, i) + Is01(d, i) + Count(w, i)
<1>1. Joined(<<a, b, c, d>>, <<a, b>>, <<c, d>>)
  BY DEF Joined
<1>2. Joined(<<a, b, c, d>> \o w, <<a, b, c, d>>, w)
  BY DEF Joined
<1>3. Count(<<a, b, c, d>>, i) = Count(<<a, b>>, i) + Count(<<c, d>>, i)
  BY <1>1, CountJoined
<1>4. Count(<<a, b, c, d>> \o w, i) = Count(<<a, b, c, d>>, i) + Count(w, i)
  BY <1>2, CountJoined
<1>5. Count(<<a, b>>, i) = Is01(a, i) + Is01(b, i) /\ Count(<<c, d>>, i) = Is01(c, i) + Is01(d, i)
  BY Counts
<1>6. Count(w, i) \in Nat /\ \A z : Is01(z, i) \in Nat
  BY OccursFinite DEF Is01
<1> QED
  BY <1>3, <1>4, <1>5, <1>6

----------------------------------------------------------------------------
(* References that processes hold.                                         *)

\* What one process holds of inode i.
Has(k, i) == Is01(k.cwd, i) + Is01(k.ip, i) + Is01(k.dp, i) + Is01(k.old, i) + Count(k.puts, i)

Pairs(pr, i) == UNION {{p} \X Holds(pr[p], i) : p \in Procs}

\* Numbers of inodes are numbers.
LEMMA PutsAreNumbers ==
  ASSUME NEW w \in Seq(Inums)
  PROVE  w \in Seq(Nat)
BY Tables, SeqMonotonic

\* What one process holds is counted.
LEMMA HoldsCounted ==
  ASSUME NEW k, ProcType(k), NEW i
  PROVE  /\ IsFiniteSet(Holds(k, i)) /\ Cardinality(Holds(k, i)) = Has(k, i)
         /\ Has(k, i) \in Nat /\ Count(k.puts, i) \in Nat
<1>1. k.puts \in Seq(Nat)
  BY PutsAreNumbers DEF ProcType
<1>2. k.cwd \in Nat /\ k.ip \in Nat /\ k.dp \in Nat /\ k.old \in Nat
  BY NamesAssumption DEF ProcType
<1>3. Held(k) \in Seq(Nat)
  BY <1>1, <1>2 DEF Held
<1>4. Holds(k, i) = Occurs(Held(k), i)
  BY <1>3 DEF Holds, Occurs
<1>5. Count(Held(k), i) = Has(k, i)
  <2>1. PICK a \in Nat, b \in Nat, c \in Nat, d \in Nat, w \in Seq(Nat) :
          a = k.cwd /\ b = k.ip /\ c = k.dp /\ d = k.old /\ w = k.puts
    BY <1>1, <1>2
  <2>2. Count(<<a, b, c, d>> \o w, i) =
          Is01(a, i) + Is01(b, i) + Is01(c, i) + Is01(d, i) + Count(w, i)
    BY CountFour
  <2> QED
    BY <2>1, <2>2, Zenon DEF Has, Held
<1>6. Count(k.puts, i) \in Nat
  BY <1>1, OccursFinite
<1> QED
  BY <1>3, <1>4, <1>5, <1>6, OccursFinite DEF Count

Others(pr, p, i) == UNION {{q} \X Holds(pr[q], i) : q \in Procs \ {p}}

\* All that processes hold is what one holds, and what the others do.
LEMMA PairsSplit ==
  ASSUME NEW pr, \A q \in Procs : ProcType(pr[q]), NEW p \in Procs, NEW i
  PROVE  /\ IsFiniteSet(Others(pr, p, i)) /\ Cardinality(Others(pr, p, i)) \in Nat
         /\ IsFiniteSet(Pairs(pr, i))
         /\ Cardinality(Pairs(pr, i)) = Cardinality(Others(pr, p, i)) + Has(pr[p], i)
<1> DEFINE G(q) == {q} \X Holds(pr[q], i)
           T == {G(q) : q \in Procs \ {p}}
           R == Others(pr, p, i)
           O == {p} \X Holds(pr[p], i)
<1>1. \A q \in Procs : IsFiniteSet(Holds(pr[q], i)) /\ Cardinality(Holds(pr[q], i)) = Has(pr[q], i)
  BY HoldsCounted
<1>2. ASSUME NEW q \in Procs PROVE IsFiniteSet(G(q))
  <2>1. IsFiniteSet({q}) /\ IsFiniteSet(Holds(pr[q], i))
    BY <1>1, FS_Singleton
  <2> QED
    BY <2>1, FS_Product
<1>3. IsFiniteSet(Procs \ {p})
  BY Tables, FS_Difference
<1>4. IsFiniteSet(T)
  <2> DEFINE F == [q \in Procs \ {p} |-> G(q)]
  <2>1. F \in [Procs \ {p} -> T] /\ \A X \in T : \E q \in Procs \ {p} : F[q] = X
    OBVIOUS
  <2> HIDE DEF F, T
  <2>2. F \in Surjection(Procs \ {p}, T)
    BY <2>1, Fun_IsSurj
  <2> QED
    BY <1>3, <2>2, FS_Surjection
<1>5. IsFiniteSet(R)
  <2>1. R = UNION T
    BY DEF Others
  <2>2. \A X \in T : IsFiniteSet(X)
    BY <1>2
  <2> HIDE DEF T, R
  <2> QED
    BY <1>4, <2>1, <2>2, FS_UNION
<1>6. IsFiniteSet(O) /\ Cardinality(O) = Has(pr[p], i)
  <2>1. IsFiniteSet({p}) /\ Cardinality({p}) = 1
    BY FS_Singleton
  <2>2. IsFiniteSet(O) /\ Cardinality(O) = 1 * Cardinality(Holds(pr[p], i))
    BY <1>1, <2>1, FS_Product
  <2>3. Has(pr[p], i) \in Nat
    BY HoldsCounted
  <2> QED
    BY <1>1, <2>2, <2>3
<1>7. Pairs(pr, i) = R \cup O
  BY DEF Pairs, Others
<1>8. R \cap O = {}
  BY DEF Others
<1> HIDE DEF R, O
<1>9. /\ IsFiniteSet(R \cup O)
      /\ Cardinality(R \cup O) = Cardinality(R) + Cardinality(O) - Cardinality(R \cap O)
  BY <1>5, <1>6, FS_Union
<1>10. Cardinality(R \cap O) = 0 /\ Cardinality(R) \in Nat /\ Cardinality(O) \in Nat
  BY <1>5, <1>6, <1>8, FS_EmptySet, FS_CardinalityType
<1>11. Cardinality(R \cup O) = Cardinality(R) + Has(pr[p], i)
  BY <1>6, <1>9, <1>10
<1> QED
  BY <1>5, <1>7, <1>9, <1>10, <1>11 DEF R

\* A process that changes changes the count by what it holds.
LEMMA PairsChange ==
  ASSUME NEW pr, NEW ps, \A q \in Procs : ProcType(pr[q]) /\ ProcType(ps[q]),
         NEW p \in Procs, NEW i, \A q \in Procs \ {p} : Held(ps[q]) = Held(pr[q])
  PROVE  /\ Cardinality(Pairs(pr, i)) \in Nat /\ Cardinality(Pairs(ps, i)) \in Nat
         /\ Cardinality(Pairs(ps, i)) = Cardinality(Pairs(pr, i)) + Has(ps[p], i) - Has(pr[p], i)
<1> DEFINE R(f) == Others(f, p, i)
<1>1. R(pr) = R(ps)
  BY DEF Holds, Others
<1>2. /\ Cardinality(R(pr)) \in Nat
      /\ Cardinality(Pairs(pr, i)) = Cardinality(R(pr)) + Has(pr[p], i)
  BY PairsSplit
<1>3. Cardinality(Pairs(ps, i)) = Cardinality(R(ps)) + Has(ps[p], i)
  BY PairsSplit
<1>4. Has(pr[p], i) \in Nat /\ Has(ps[p], i) \in Nat
  BY HoldsCounted
<1> HIDE DEF R
<1> QED
  BY <1>1, <1>2, <1>3, <1>4

\* If nobody changes what he holds the count stays.
LEMMA PairsSame ==
  ASSUME NEW pr, NEW ps, NEW i, \A q \in Procs : Held(ps[q]) = Held(pr[q])
  PROVE  Pairs(ps, i) = Pairs(pr, i)
BY DEF Pairs, Holds

\* Two processes are counted one by one.
LEMMA TwoHold ==
  ASSUME NEW pr, \A q \in Procs : ProcType(pr[q]), NEW p \in Procs, NEW i
  PROVE  /\ Cardinality(Pairs(pr, i)) \in Nat /\ Cardinality(Pairs(pr, i)) >= Has(pr[p], i)
         /\ \A q \in Procs \ {p} : Cardinality(Pairs(pr, i)) >= Has(pr[p], i) + Has(pr[q], i)
<1> DEFINE R == Others(pr, p, i)
<1>1. /\ IsFiniteSet(R) /\ Cardinality(R) \in Nat
      /\ Cardinality(Pairs(pr, i)) = Cardinality(R) + Has(pr[p], i)
  BY PairsSplit
<1>2. \A q \in Procs : /\ Has(pr[q], i) \in Nat
                       /\ IsFiniteSet(Holds(pr[q], i)) /\ Cardinality(Holds(pr[q], i)) = Has(pr[q], i)
  BY HoldsCounted
<1>3. ASSUME NEW q \in Procs \ {p} PROVE Cardinality(R) >= Has(pr[q], i)
  <2> DEFINE O == {q} \X Holds(pr[q], i)
  <2>1. O \subseteq R
    BY DEF Others
  <2>2. IsFiniteSet({q}) /\ Cardinality({q}) = 1
    BY FS_Singleton
  <2>3. Cardinality(O) = 1 * Cardinality(Holds(pr[q], i))
    BY <1>2, <2>2, FS_Product
  <2> HIDE DEF O, R
  <2>4. Cardinality(O) <= Cardinality(R)
    BY <1>1, <2>1, FS_Subset
  <2> QED
    BY <1>1, <1>2, <2>3, <2>4
<1> HIDE DEF R
<1> QED
  BY <1>1, <1>2, <1>3

Leavers(pr, i) == {q \in Procs : pr[q].put = "deref" /\ Head(pr[q].puts) = i}

\* If one who holds an inode is not about to give it up, there are more references than
\* those who are.
LEMMA Outnumbered ==
  ASSUME NEW pr, \A q \in Procs : ProcType(pr[q]) /\ (pr[q].put = "deref" => pr[q].puts # <<>>),
         NEW i, NEW p \in Procs, Has(pr[p], i) > 0, p \notin Leavers(pr, i)
  PROVE  Cardinality(Pairs(pr, i)) > Cardinality(Leavers(pr, i))
<1> DEFINE L == Leavers(pr, i)
           X == L \cup {p}
           F == [q \in X |-> <<q, CHOOSE j \in Holds(pr[q], i) : TRUE>>]
<1>1. L \subseteq Procs /\ p \notin L /\ X \subseteq Procs
  BY DEF Leavers
<1>2. IsFiniteSet(L) /\ Cardinality(L) \in Nat
  BY <1>1, Tables, FS_Subset, FS_CardinalityType
<1>3. Cardinality(X) = Cardinality(L) + 1
  BY <1>1, <1>2, FS_AddElement
<1>4. ASSUME NEW q \in X PROVE Holds(pr[q], i) # {}
  <2>1. CASE q = p
    <3>1. IsFiniteSet(Holds(pr[p], i)) /\ Cardinality(Holds(pr[p], i)) = Has(pr[p], i)
      BY HoldsCounted
    <3>2. Has(pr[p], i) # 0
      BY HoldsCounted
    <3> QED
      BY <2>1, <3>1, <3>2, FS_EmptySet
  <2>2. CASE q # p
    <3>1. /\ q \in Procs /\ pr[q].put = "deref" /\ Head(pr[q].puts) = i
      BY <2>2 DEF Leavers
    <3>2. pr[q].puts \in Seq(Nat) /\ pr[q].puts # <<>>
      BY <3>1, PutsAreNumbers DEF ProcType
    <3>3. pr[q].cwd \in Nat /\ pr[q].ip \in Nat /\ pr[q].dp \in Nat /\ pr[q].old \in Nat
      BY SMTT(30), <3>1, NamesAssumption DEF ProcType
    <3>4. 5 \in DOMAIN Held(pr[q]) /\ Held(pr[q])[5] = i
      BY <3>1, <3>2, <3>3 DEF Held
    <3> QED
      BY <3>4 DEF Holds
  <2> QED
    BY <2>1, <2>2
<1>5. F \in [X -> Pairs(pr, i)]
  BY <1>1, <1>4 DEF Pairs
<1>6. \A q, r \in X : F[q] = F[r] => q = r
  OBVIOUS
<1>7. IsFiniteSet(Pairs(pr, i)) /\ Cardinality(Pairs(pr, i)) \in Nat
  BY PairsSplit, FS_CardinalityType
<1> HIDE DEF F, X, L
<1>8. F \in Injection(X, Pairs(pr, i))
  BY <1>5, <1>6, Fun_IsInj
<1>9. Cardinality(X) <= Cardinality(Pairs(pr, i))
  BY <1>7, <1>8, FS_Injection
<1> QED
  BY <1>2, <1>3, <1>7, <1>9 DEF L

----------------------------------------------------------------------------
(* Open files, and what a process has in its variables.                     *)

\* SetToSeq lists every element of a finite set once.
LEMMA Enumerated ==
  ASSUME NEW S, IsFiniteSet(S)
  PROVE  Cardinality(S) \in Nat /\ SetToSeq(S) \in Bijection(1 .. Cardinality(S), S)
<1> DEFINE D == 1 .. Cardinality(S)  g == SetToSeq(S)
<1>1. Cardinality(S) \in Nat /\ ExistsBijection(D, S)
  BY FS_CardinalityType
<1>2. PICK b \in Bijection(D, S) : TRUE
  BY <1>1, Fun_ExistsBij
<1>3. b \in [D -> S] /\ \A x, y \in D : b[x] = b[y] => x = y
  BY Fun_BijectionProperties
<1>4. IsInjective(b)
  <2>1. DOMAIN b = D
    BY <1>3
  <2> HIDE DEF D
  <2> QED
    BY <1>3, <2>1 DEF IsInjective
<1>5. g \in [D -> S] /\ IsInjective(g)
  BY <1>3, <1>4, Zenon DEF SetToSeq
<1>6. \A x, y \in D : g[x] = g[y] => x = y
  <2>1. DOMAIN g = D
    BY <1>5
  <2> HIDE DEF D, g
  <2> QED
    BY <1>5, <2>1 DEF IsInjective
<1>7. g \in Injection(D, S)
  <2> HIDE DEF D, g
  <2> QED
    BY <1>5, <1>6, Fun_IsInj
<1>8. Cardinality(D) = Cardinality(S)
  <2>1. 1 \in Int /\ Cardinality(S) \in Int
    BY <1>1
  <2> QED
    BY <1>1, <2>1, FS_Interval
<1>9. g \in Surjection(D, S)
  <2> HIDE DEF D, g
  <2> QED
    BY <1>7, <1>8, FS_Injection
<1>10. \A t \in S : \E x \in D : g[x] = t
  <2> HIDE DEF D, g
  <2> QED
    BY <1>9, Fun_SurjectionProperties
<1> HIDE DEF D, g
<1>11. g \in Bijection(D, S)
  BY <1>5, <1>6, <1>10, Fun_IsBij
<1> QED
  BY <1>1, <1>11 DEF D, g

\* The files of table fl that are for inode i.
For(fl, i) == {f \in 1 .. NFILE : fl[f].ref > 0 /\ fl[f].ip = i}

\* The open files of an inode can be counted.
LEMMA ForFinite ==
  ASSUME NEW fl, NEW i
  PROVE  IsFiniteSet(For(fl, i)) /\ Cardinality(For(fl, i)) \in Nat
<1>1. For(fl, i) \subseteq 1 .. NFILE
  BY DEF For
<1> QED
  BY <1>1, Tables, FS_Subset, FS_CardinalityType

\* A file for inode j is taken.
LEMMA FileTaken ==
  ASSUME NEW fl, NEW fs, NEW f \in 1 .. NFILE, NEW i, NEW j,
         fl[f].ref = 0, fs[f].ref = 1, fs[f].ip = j, \A g \in (1 .. NFILE) \ {f} : fs[g] = fl[g]
  PROVE  Cardinality(For(fs, i)) = Cardinality(For(fl, i)) + Is01(j, i)
<1>1. IsFiniteSet(For(fl, i)) /\ Cardinality(For(fl, i)) \in Nat
  BY ForFinite
<1>2. CASE i = j
  <2>1. For(fs, i) = For(fl, i) \cup {f} /\ f \notin For(fl, i)
    BY <1>2 DEF For
  <2> QED
    BY <1>1, <1>2, <2>1, FS_AddElement DEF Is01
<1>3. CASE i # j
  <2>1. For(fs, i) = For(fl, i)
    BY <1>3 DEF For
  <2> QED
    BY <1>1, <1>3, <2>1 DEF Is01
<1> QED
  BY <1>2, <1>3

\* No file is taken or given up.
LEMMA FilesKept ==
  ASSUME NEW fl, NEW fs, NEW i,
         \A f \in 1 .. NFILE : /\ fl[f].ref > 0 <=> fs[f].ref > 0
                               /\ fl[f].ref > 0 => fs[f].ip = fl[f].ip
  PROVE  For(fs, i) = For(fl, i)
BY DEF For

\* What processes give up when they close the files of F is what the files held.
LEMMA FilesClosed ==
  ASSUME Types, NEW F \in SUBSET (1 .. NFILE), \A f \in F : files[f].ref > 0,
         NEW fs, \A f \in 1 .. NFILE : fs[f] = IF f \in F THEN Closed(f) ELSE files[f]
  PROVE  /\ Puts(F) \in Seq(Inums)
         /\ \A i : Cardinality(For(files, i)) = Cardinality(For(fs, i)) + Count(Puts(F), i)
<1> DEFINE L == {f \in F : files[f].ref = 1}  n == Cardinality(L)  g == Put(F)
<1>1. \A f \in 1 .. NFILE : FileType(files[f])
  BY DEF Types
<1>2. IsFiniteSet(L)
  BY Tables, FS_Subset
<1>3. n \in Nat /\ g \in Bijection(1 .. n, L)
  BY <1>2, Enumerated DEF Put
<1>4. /\ g \in [1 .. n -> L]
      /\ \A a, b \in 1 .. n : g[a] = g[b] => a = b
      /\ \A t \in L : \E s \in 1 .. n : g[s] = t
  <2> HIDE DEF L, n, g
  <2> QED
    BY <1>3, Fun_BijectionProperties
<1>5. \A f \in L : files[f].ip \in Inums
  BY <1>1 DEF FileType
<1>6. Puts(F) = [j \in 1 .. n |-> files[g[j]].ip]
  BY <1>4 DEF Puts
<1>7. Puts(F) \in Seq(Inums) /\ Len(Puts(F)) = n
  <2>1. Puts(F) \in [1 .. n -> Inums]
    <3> HIDE DEF n, g, L
    <3> QED
      BY <1>4, <1>5, <1>6
  <2> HIDE DEF n, g, L
  <2> QED
    BY <1>3, <2>1
<1>8. ASSUME NEW i
      PROVE  Cardinality(For(files, i)) = Cardinality(For(fs, i)) + Count(Puts(F), i)
  <2> DEFINE O == {j \in 1 .. n : files[g[j]].ip = i}
             X == {f \in L : files[f].ip = i}
             h == [j \in O |-> g[j]]
  <2>1. Occurs(Puts(F), i) = O
    <3> HIDE DEF n, g, L
    <3> QED
      BY <1>6, <1>7 DEF Occurs
  <2>2. h \in Bijection(O, X)
    <3> HIDE DEF n, g, L
    <3>1. h \in [O -> X]
      BY <1>4
    <3>2. \A a, b \in O : h[a] = h[b] => a = b
      BY <1>4
    <3>3. \A t \in X : \E s \in O : h[s] = t
      BY <1>4
    <3> HIDE DEF h, O, X
    <3> QED
      BY <3>1, <3>2, <3>3, Fun_IsBij
  <2>3. IsFiniteSet(X) /\ IsFiniteSet(O)
    <3>1. X \subseteq L /\ O \subseteq 1 .. n
      OBVIOUS
    <3>2. IsFiniteSet(1 .. n)
      <4>1. 1 \in Int /\ n \in Int
        BY <1>3
      <4> QED
        BY <4>1, FS_Interval
    <3> QED
      BY <1>2, <3>1, <3>2, FS_Subset
  <2>4. Cardinality(X) = Cardinality(O)
    <3> HIDE DEF X, O, h
    <3> QED
      BY <2>2, <2>3, FS_Bijection, Fun_ExistsBij
  <2>5. For(files, i) = For(fs, i) \cup X /\ For(fs, i) \cap X = {}
    <3>1. \A f \in F : fs[f].ref > 0 <=> files[f].ref # 1
      <4>1. ASSUME NEW f \in F PROVE fs[f].ref > 0 <=> files[f].ref # 1
        <5>1. CASE files[f].ref = 1
          <6>1. fs[f] = NoFile /\ NoFile.ref = 0
            BY <5>1 DEF Closed, NoFile
          <6> QED
            BY <5>1, <6>1
        <5>2. CASE files[f].ref # 1
          <6>1. fs[f] = [files[f] EXCEPT !.ref = @ - 1]
            BY <5>2 DEF Closed
          <6>2. fs[f].ref = files[f].ref - 1 /\ files[f].ref \in Nat /\ files[f].ref > 0
            BY <1>1, <6>1 DEF FileType
          <6> QED
            BY <5>2, <6>2
        <5> QED
          BY <5>1, <5>2
      <4> QED
        BY <4>1
    <3>2. \A f \in F : files[f].ref # 1 => fs[f].ip = files[f].ip
      BY <1>1 DEF Closed, FileType
    <3> QED
      BY <3>1, <3>2 DEF For
  <2>6. IsFiniteSet(For(fs, i)) /\ Cardinality(For(fs, i)) \in Nat
    BY ForFinite
  <2>7. Cardinality({}) = 0 /\ Cardinality(X) \in Nat
    BY <2>3, FS_EmptySet, FS_CardinalityType
  <2> HIDE DEF X, O, h
  <2>8. Cardinality(For(fs, i) \cup X) =
          Cardinality(For(fs, i)) + Cardinality(X) - Cardinality(For(fs, i) \cap X)
    BY <2>3, <2>6, FS_Union
  <2>9. Cardinality(For(fs, i) \cap X) = 0
    BY <2>5, <2>7
  <2> QED
    BY <2>1, <2>4, <2>5, <2>6, <2>7, <2>8, <2>9 DEF Count
<1> QED
  BY <1>7, <1>8

----------------------------------------------------------------------------
(* From counts per process to the conjuncts of the invariant.               *)

\* The references as the counting lemmas have them.
LEMMA RefsCounted ==
  ASSUME Types
  PROVE  \A i \in Inums : Holders(i) = Pairs(proc, i) /\ FilesOf(i) = For(files, i)
BY DEF Types, Holders, Pairs, FilesOf, For

\* The same, of the next state.
LEMMA RefsCountedNext ==
  ASSUME Types'
  PROVE  \A i \in Inums : Holders(i)' = Pairs(proc', i) /\ FilesOf(i)' = For(files', i)
BY DEF Types, Holders, Pairs, FilesOf, For, Holds, Held

\* Where processes hold references is finite, and typed.
LEMMA Inodes ==
  ASSUME NEW k, ProcType(k), Place(k)
  PROVE  /\ Locks(k) \subseteq Inums /\ Settled(k) \subseteq Inums
         /\ \A i \in Locks(k) \cup Settled(k) : Has(k, i) > 0
<1>1. {k.cwd, k.ip, k.dp, k.old} \subseteq 0 .. ninodes /\ ninodes \in Nat
  BY NamesAssumption DEF ProcType
<1>2. k.at \in HasIp => k.ip # 0
  BY DEF Place
<1>3. k.at \in HasDp => k.dp # 0
  BY DEF Place
<1>4. \A i \in Locks(k) : i # 0 /\ i \in {k.ip, k.dp}
  BY <1>2, <1>3 DEF Locks, HasIp, HasDp
<1>5. \A i \in Settled(k) : i # 0 /\ i \in {k.ip, k.dp, k.old}
  BY DEF Settled
<1>6. \A i \in {k.ip, k.dp, k.old} : i # 0 => i \in Inums /\ Has(k, i) > 0
  <2>1. ASSUME NEW i \in {k.ip, k.dp, k.old}, i # 0
        PROVE  i \in Inums /\ Has(k, i) > 0
    <3>1. i \in Inums
      BY <1>1, <2>1 DEF Inums
    <3>2. Count(k.puts, i) \in Nat
      BY HoldsCounted
    <3> QED
      BY <2>1, <3>1, <3>2 DEF Has, Is01
  <2> QED
    BY <2>1
<1> QED
  BY <1>4, <1>5, <1>6

\* Files that stay as they are, and processes that get no descriptor of one.
LEMMA FdsKept ==
  ASSUME Types, Types', FdsInv, \A f \in 1 .. NFILE : files'[f].ref = files[f].ref,
         \A q \in Procs : \A v \in Variables : proc'[q].fds[v] \in {0, proc[q].fds[v]}
  PROVE  FdsInv'
<1>1. \A q \in Procs : /\ DOMAIN proc[q].fds = Variables /\ DOMAIN proc'[q].fds = Variables
                       /\ "fd" \in Variables /\ "fd1" \in Variables
  BY DEF Types, ProcType, Variables
<1>2. \A q \in Procs : LET d == proc'[q].fds IN d["fd"] # 0 => d["fd"] # d["fd1"]
  BY <1>1 DEF FdsInv
<1>3. ASSUME NEW f \in 1 .. NFILE PROVE Cardinality(HaveFile(f)') <= files'[f].ref
  <2>1. HaveFile(f)' \subseteq HaveFile(f)
    BY <1>1, <1>3 DEF HaveFile, Ofile
  <2>2. HaveFile(f) \subseteq Procs
    BY DEF HaveFile
  <2>3. IsFiniteSet(HaveFile(f)) /\ Cardinality(HaveFile(f)) \in Nat
    BY <2>2, Tables, FS_Subset, FS_CardinalityType
  <2>4. Cardinality(HaveFile(f)') <= Cardinality(HaveFile(f))
    BY <2>1, <2>3, FS_Subset
  <2>5. Cardinality(HaveFile(f)') \in Nat
    BY <2>1, <2>3, FS_Subset, FS_CardinalityType
  <2>6. Cardinality(HaveFile(f)) <= files[f].ref
    BY DEF FdsInv
  <2>7. files[f].ref \in Nat
    BY DEF Types, FileType
  <2> QED
    BY <2>3, <2>4, <2>5, <2>6, <2>7
<1> QED
  BY <1>2, <1>3 DEF FdsInv

\* An inode that somebody frees is locked.
LEMMA FreeingLocked ==
  ASSUME LockInv, Types, NEW q \in Procs, NEW i \in Inums, Freeing(q, i)
  PROVE  icache[i].lock = q /\ icache[i].lock # 0
BY Tables DEF LockInv

\* The processes of P take a step that no iput makes.
LEMMA Keeps ==
  ASSUME IInv, Types', PlaceInv', FdsInv', RefsRight', NEW P \in SUBSET Procs,
         \A q \in Procs \ P : /\ proc'[q].puts = proc[q].puts /\ proc'[q].put = proc[q].put
                              /\ Locks(proc'[q]) = Locks(proc[q])
                              /\ Settled(proc'[q]) = Settled(proc[q]),
         \A q \in P : /\ proc[q].put = "lock" /\ proc'[q].put = "lock"
                      /\ \A i \in Locks(proc'[q]) : icache'[i].lock = q
                      /\ \A i \in Settled(proc'[q]) :
                           i \in Settled(proc[q]) \/ (icache'[i].valid /\ icache[i].lock = 0),
         \A i \in Inums :
           /\ icache[i].lock \notin {0} \cup P => icache'[i].lock = icache[i].lock
           /\ icache[i].valid => icache'[i].valid
           /\ icache[i].lost => icache'[i].lost
           /\ icache'[i].ref >= icache[i].ref
           /\ inode'[i].type # "none" /\ inode'[i].nlink = 0 =>
                \/ inode[i].type # "none" /\ inode[i].nlink = 0
                \/ icache'[i].valid /\ \E q \in P : Has(proc'[q], i) > 0
  PROVE  IInv'
<1> USE DEF IInv
<1>1. \A q \in Procs, i \in Inums : Freeing(q, i)' <=> Freeing(q, i)
  BY DEF Freeing
<1>2. \A i : Leaving(i)' = Leaving(i)
  BY DEF Leaving
<1>3. \A q \in Procs : /\ ProcType(proc[q]) /\ Place(proc[q])
                       /\ ProcType(proc'[q]) /\ Place(proc'[q])
  BY DEF Types, PlaceInv
<1>4. \A q \in Procs : /\ Locks(proc[q]) \subseteq Inums /\ Settled(proc[q]) \subseteq Inums
                       /\ Locks(proc'[q]) \subseteq Inums /\ Settled(proc'[q]) \subseteq Inums
  BY <1>3, Inodes
<1>5. LockInv'
  <2>1. ASSUME NEW q \in Procs, NEW i \in Locks(proc'[q])
        PROVE  icache'[i].lock = q /\ ~ Freeing(q, i)'
    <3>1. CASE q \in P
      BY <2>1, <3>1 DEF Freeing
    <3>2. CASE q \notin P
      <4>1. i \in Inums /\ icache[i].lock = q /\ ~ Freeing(q, i)
        BY <1>4, <3>2 DEF LockInv
      <4>2. icache[i].lock \notin {0} \cup P
        BY <3>2, <4>1, Tables
      <4> QED
        BY <1>1, <4>1, <4>2
    <3> QED
      BY <3>1, <3>2
  <2>2. ASSUME NEW q \in Procs, NEW i \in Inums, Freeing(q, i)'
        PROVE  icache'[i].lock = q
    <3>1. Freeing(q, i) /\ q \notin P
      BY <1>1, <2>2 DEF Freeing
    <3>2. icache[i].lock = q /\ q # 0
      BY <3>1, FreeingLocked
    <3> QED
      BY <3>1, <3>2
  <2> QED
    BY <2>1, <2>2 DEF LockInv
<1>6. SettledInv'
  <2>1. ASSUME NEW q \in Procs, NEW i \in Settled(proc'[q])
        PROVE  icache'[i].valid /\ \A r \in Procs : ~ Freeing(r, i)'
    <3>1. i \in Inums
      BY <1>4
    <3>2. CASE i \in Settled(proc[q])
      <4>1. icache[i].valid /\ \A r \in Procs : ~ Freeing(r, i)
        BY <3>2 DEF SettledInv
      <4> QED
        BY <1>1, <3>1, <4>1
    <3>3. CASE icache'[i].valid /\ icache[i].lock = 0
      BY <1>1, <3>1, <3>3, FreeingLocked
    <3> QED
      BY <3>2, <3>3
  <2> QED
    BY <2>1 DEF SettledInv
<1>7. OrphanInv'
  <2>1. ASSUME NEW i \in Inums, inode'[i].type # "none", inode'[i].nlink = 0
        PROVE  icache'[i].lost \/ (icache'[i].valid /\ icache'[i].ref > Cardinality(Leaving(i)'))
    <3>1. SlotType(icache[i]) /\ SlotType(icache'[i])
      BY DEF Types
    <3>2. icache[i].ref \in Nat /\ icache'[i].ref \in Nat
      BY <3>1 DEF SlotType
    <3>3. Leaving(i) \subseteq Procs
      BY DEF Leaving
    <3>4. Cardinality(Leaving(i)) \in Nat
      BY <3>3, Tables, FS_Subset, FS_CardinalityType
    <3>5. CASE inode[i].type # "none" /\ inode[i].nlink = 0
      <4>1. icache[i].lost \/ (icache[i].valid /\ icache[i].ref > Cardinality(Leaving(i)))
        BY <3>5 DEF OrphanInv
      <4> QED
        BY <1>2, <3>2, <3>4, <4>1
    <3>6. CASE icache'[i].valid /\ \E q \in P : Has(proc'[q], i) > 0
      <4>1. PICK q \in P : Has(proc'[q], i) > 0
        BY <3>6
      <4>2. Leaving(i)' = Leavers(proc', i)
        BY DEF Leaving, Leavers
      <4>3. q \notin Leavers(proc', i)
        BY DEF Leavers
      <4>4. \A r \in Procs : ProcType(proc'[r]) /\ (proc'[r].put = "deref" => proc'[r].puts # <<>>)
        BY <1>3 DEF Place
      <4>5. Cardinality(Pairs(proc', i)) > Cardinality(Leavers(proc', i))
        BY <4>1, <4>3, <4>4, Outnumbered
      <4>6. icache'[i].ref = Cardinality(Pairs(proc', i)) + Cardinality(For(files', i))
        BY RefsCountedNext DEF RefsRight
      <4>7. Cardinality(For(files', i)) \in Nat
        BY ForFinite
      <4>8. Cardinality(Pairs(proc', i)) \in Nat
        BY <1>3, TwoHold
      <4>9. icache'[i].ref > Cardinality(Leaving(i)')
        BY <1>2, <3>4, <4>2, <4>5, <4>6, <4>7, <4>8
      <4> QED
        BY <3>6, <4>9
    <3> QED
      BY <2>1, <3>5, <3>6
  <2> QED
    BY <2>1 DEF OrphanInv
<1> QED
  BY <1>5, <1>6, <1>7

\* The count stays right when what a process and the files hold changes with it.
LEMMA RefsKept ==
  ASSUME Types, Types', RefsRight, NEW p \in Procs,
         \A q \in Procs \ {p} : Held(proc'[q]) = Held(proc[q]),
         \A i \in Inums :
           icache'[i].ref + Has(proc[p], i) + Cardinality(For(files, i)) =
           icache[i].ref + Has(proc'[p], i) + Cardinality(For(files', i))
  PROVE  RefsRight'
<1>1. \A q \in Procs : ProcType(proc[q]) /\ ProcType(proc'[q])
  BY DEF Types
<1>2. ASSUME NEW i \in Inums
      PROVE  icache'[i].ref = Cardinality(Pairs(proc', i)) + Cardinality(For(files', i))
  <2>1. /\ Cardinality(Pairs(proc, i)) \in Nat /\ Cardinality(Pairs(proc', i)) \in Nat
        /\ Cardinality(Pairs(proc', i)) =
             Cardinality(Pairs(proc, i)) + Has(proc'[p], i) - Has(proc[p], i)
    BY <1>1, PairsChange
  <2>2. Cardinality(For(files, i)) \in Nat /\ Cardinality(For(files', i)) \in Nat
    BY ForFinite
  <2>3. Has(proc[p], i) \in Nat /\ Has(proc'[p], i) \in Nat
    BY <1>1, HoldsCounted
  <2>4. icache[i].ref \in Nat /\ icache'[i].ref \in Nat
    BY DEF Types, SlotType
  <2>5. icache[i].ref = Cardinality(Pairs(proc, i)) + Cardinality(For(files, i))
    BY RefsCounted DEF RefsRight
  <2>6. icache'[i].ref + Has(proc[p], i) + Cardinality(For(files, i)) =
        icache[i].ref + Has(proc'[p], i) + Cardinality(For(files', i))
    OBVIOUS
  <2> DEFINE a == Cardinality(Pairs(proc, i))  b == Cardinality(Pairs(proc', i))
             c == Cardinality(For(files, i))  d == Cardinality(For(files', i))
             h == Has(proc[p], i)  g == Has(proc'[p], i)  r == icache[i].ref  s == icache'[i].ref
  <2>7. s = b + d
    <3>1. /\ a \in Nat /\ b \in Nat /\ c \in Nat /\ d \in Nat
          /\ h \in Nat /\ g \in Nat /\ r \in Nat /\ s \in Nat
      BY <2>1, <2>2, <2>3, <2>4
    <3>2. b = a + g - h /\ r = a + c /\ s + h + c = r + g + d
      BY <2>1, <2>5, <2>6
    <3> HIDE DEF a, b, c, d, h, g, r, s
    <3> QED
      BY <3>1, <3>2
  <2> QED
    BY <2>7
<1> QED
  BY <1>2, RefsCountedNext DEF RefsRight

----------------------------------------------------------------------------
(* Locks on inodes, and the tables one by one.                              *)

Slots(ic) == DOMAIN ic = Inums /\ \A i \in Inums : SlotType(ic[i])
Inodes1(nd) == DOMAIN nd = Inums /\ \A i \in Inums : InodeType(nd[i])
Files1(fl) == DOMAIN fl = 1 .. NFILE /\ \A f \in 1 .. NFILE : FileType(fl[f])

\* What iget, ilock and iunlock make of the slots of the cache.
LEMMA SlotsGot ==
  ASSUME NEW ic, Slots(ic), NEW i \in Inums
  PROVE  /\ Slots(iget(ic, i))
         /\ \A j \in Inums : LET s == iget(ic, i)[j] IN
              /\ s.ref = ic[j].ref + Is01(i, j) /\ s.ref \in Nat /\ s.ref >= ic[j].ref
              /\ s.valid = ic[j].valid /\ s.lock = ic[j].lock /\ s.lost = ic[j].lost
<1> DEFINE g == iget(ic, i)
<1>1. DOMAIN g = Inums
  BY DEF iget, Slots
<1>2. ASSUME NEW j \in Inums
      PROVE  /\ SlotType(g[j])
             /\ g[j].ref = ic[j].ref + Is01(i, j) /\ g[j].ref >= ic[j].ref
             /\ g[j].valid = ic[j].valid /\ g[j].lock = ic[j].lock /\ g[j].lost = ic[j].lost
  <2>1. SlotType(ic[j])
    BY DEF Slots
  <2>2. CASE j = i
    <3>1. g[j] = [ic[j] EXCEPT !.ref = @ + 1]
      BY <2>2 DEF iget, Slots
    <3> QED
      BY <2>1, <2>2, <3>1 DEF SlotType, Is01
  <2>3. CASE j # i
    <3>1. g[j] = ic[j]
      BY <2>3 DEF iget, Slots
    <3> QED
      BY <2>1, <2>3, <3>1 DEF SlotType, Is01
  <2> QED
    BY <2>2, <2>3
<1> HIDE DEF g
<1>3. \A j \in Inums : g[j].ref \in Nat
  BY <1>2 DEF SlotType
<1> QED
  BY <1>1, <1>2, <1>3 DEF Slots, g

\* Locking an inode reads it in, and changes no count of references.
LEMMA SlotsLocked ==
  ASSUME NEW ic, Slots(ic), NEW i \in Inums, NEW p
  PROVE  /\ Slots(ilock(ic, i, p))
         /\ \A j \in Inums : LET s == ilock(ic, i, p)[j] IN
              /\ s.ref = ic[j].ref /\ s.lost = ic[j].lost
              /\ (s.valid <=> ic[j].valid \/ j = i)
              /\ s.lock = IF j = i THEN p ELSE ic[j].lock
<1> DEFINE g == ilock(ic, i, p)
<1>1. DOMAIN g = Inums
  BY DEF ilock, Slots
<1>2. ASSUME NEW j \in Inums
      PROVE  /\ SlotType(g[j])
             /\ g[j].ref = ic[j].ref /\ g[j].lost = ic[j].lost
             /\ (g[j].valid <=> ic[j].valid \/ j = i)
             /\ g[j].lock = IF j = i THEN p ELSE ic[j].lock
  <2>1. SlotType(ic[j])
    BY DEF Slots
  <2>2. CASE j = i
    <3>1. g[j] = [ic[j] EXCEPT !.valid = TRUE, !.lock = p]
      BY <2>2 DEF ilock, Slots, SlotType
    <3> QED
      BY <2>1, <2>2, <3>1 DEF SlotType
  <2>3. CASE j # i
    <3>1. g[j] = ic[j]
      BY <2>3 DEF ilock, Slots
    <3> QED
      BY <2>1, <2>3, <3>1 DEF SlotType
  <2> QED
    BY <2>2, <2>3
<1> HIDE DEF g
<1> QED
  BY <1>1, <1>2 DEF Slots, g

\* Unlocking an inode changes its lock only.
LEMMA SlotsUnlocked ==
  ASSUME NEW ic, Slots(ic), NEW i \in Inums
  PROVE  /\ Slots(iunlock(ic, i))
         /\ \A j \in Inums : LET s == iunlock(ic, i)[j] IN
              /\ s.ref = ic[j].ref /\ s.lost = ic[j].lost /\ s.valid = ic[j].valid
              /\ s.lock = IF j = i THEN 0 ELSE ic[j].lock
<1> DEFINE g == iunlock(ic, i)
<1>1. DOMAIN g = Inums
  BY DEF iunlock, Slots
<1>2. ASSUME NEW j \in Inums
      PROVE  /\ SlotType(g[j])
             /\ g[j].ref = ic[j].ref /\ g[j].lost = ic[j].lost /\ g[j].valid = ic[j].valid
             /\ g[j].lock = IF j = i THEN 0 ELSE ic[j].lock
  <2>1. SlotType(ic[j])
    BY DEF Slots
  <2>2. CASE j = i
    <3>1. g[j] = [ic[j] EXCEPT !.lock = 0]
      BY <2>2 DEF iunlock, Slots
    <3> QED
      BY <2>1, <2>2, <3>1 DEF SlotType
  <2>3. CASE j # i
    <3>1. g[j] = ic[j]
      BY <2>3 DEF iunlock, Slots
    <3> QED
      BY <2>1, <2>3, <3>1 DEF SlotType
  <2> QED
    BY <2>2, <2>3
<1> HIDE DEF g
<1> QED
  BY <1>1, <1>2 DEF Slots, g

\* The parts of the type invariant by name.
LEMMA TypesNow ==
  Types <=> /\ DOMAIN proc = Procs /\ \A p \in Procs : ProcType(proc[p])
            /\ Inodes1(inode) /\ Slots(icache) /\ Files1(files)
BY DEF Types, Inodes1, Slots, Files1

\* Types, of the next state's tables one by one.
LEMMA TypesNext ==
  Types' <=> /\ DOMAIN proc' = Procs /\ \A p \in Procs : ProcType(proc'[p])
             /\ Inodes1(inode') /\ Slots(icache') /\ Files1(files')
BY DEF Types, Inodes1, Slots, Files1, ProcType, InodeType, SlotType, FileType

----------------------------------------------------------------------------
(* A call a process makes.                                                  *)

\* The arguments of a call.
LEMMA Arguments ==
  ASSUME NEW k, k.prog \in DOMAIN Programs
  PROVE  /\ Op(k).op \in {"open", "close", "read", "write"} => Op(k).fd \in Variables
         /\ Op(k).op = "fork" => Op(k).child \in DOMAIN Programs
         /\ Op(k).op \in PathCalls => Sequence(Op(k).path) /\ Sequence(Op(k).new)
<1>1. CASE k.pc \in DOMAIN Programs[k.prog]
  <2>1. Op(k) = Programs[k.prog][k.pc]
    BY <1>1 DEF Op
  <2> QED
    BY <1>1, <2>1, NamesAssumption
<1>2. CASE k.pc \notin DOMAIN Programs[k.prog]
  <2>1. Op(k).op = "exit"
    BY <1>2 DEF Op
  <2> QED
    BY <2>1 DEF PathCalls
<1> QED
  BY <1>1, <1>2

\* A state of a process that a step of its call may leave it in.
Calm(n) == ProcType(n) /\ Place(n) /\ n.put = "lock"

\* The call of process k returns: what is left is n, with the inodes of w to put.
Returns(k, n, w) ==
  /\ Calm(n) /\ n.at = "user" /\ Locks(n) = {} /\ Settled(n) = {}
  /\ n.cwd = k.cwd /\ n.ip = 0 /\ n.dp = 0 /\ n.old = 0 /\ n.puts = w /\ n.kids = k.kids
  /\ n.prog = k.prog /\ n.path = <<>>
  /\ \A i \in Inums : Has(n, i) = Is01(k.cwd, i) + Count(w, i)
  /\ \A v \in Variables : n.fds[v] \in {0, k.fds[v]}
  /\ Op(k).op # "open" => n.fds = k.fds
  /\ Op(k).op = "open" => n.fds = [k.fds EXCEPT ![Op(k).fd] = 0]

\* A call that returns leaves its process in its program, with its cwd and what it puts.
LEMMA Returned ==
  ASSUME NEW k, ProcType(k), k.cwd # 0, k.put = "lock", k.at \notin {"unused", "exited"},
         NEW r, NEW w, w \in Seq(Inums)
  PROVE  Returns(k, Ret(k, r, w), w)
<1> DEFINE n == Ret(k, r, w)
<1>1. DOMAIN k = ProcFields /\ k.prog \in DOMAIN Programs /\ k.fds \in [Variables -> 0 .. NFILE]
  BY DEF ProcType
<1>2. /\ DOMAIN n = ProcFields
      /\ n.at = "user" /\ n.cwd = k.cwd /\ n.ip = 0 /\ n.dp = 0 /\ n.old = 0 /\ n.puts = w
      /\ n.put = "lock" /\ n.kids = k.kids /\ n.prog = k.prog /\ n.path = <<>>
      /\ n.fds = IF Op(k).op = "open" THEN [k.fds EXCEPT ![Op(k).fd] = 0] ELSE k.fds
  BY <1>1 DEF Ret, ProcFields
<1> HIDE DEF n
<1>3. n.fds \in [Variables -> 0 .. NFILE] /\ \A v \in Variables : n.fds[v] \in {0, k.fds[v]}
  <2>1. 0 \in 0 .. NFILE
    BY NamesAssumption
  <2>2. CASE Op(k).op = "open"
    <3>1. n.fds = [k.fds EXCEPT ![Op(k).fd] = 0]
      BY <1>2, <2>2
    <3>2. \A v \in Variables : n.fds[v] = IF v = Op(k).fd THEN 0 ELSE k.fds[v]
      BY <1>1, <3>1
    <3> QED
      BY <1>1, <2>1, <3>1, <3>2
  <2>3. CASE Op(k).op # "open"
    BY <1>1, <1>2, <2>3
  <2> QED
    BY <2>2, <2>3
<1>4. ProcType(n)
  <2>1. Sequence(<<>>)
    BY DEF Sequence
  <2> QED
    BY <1>2, <1>3, <2>1, NamesAssumption DEF ProcType
<1>6. Place(n)
  BY <1>2 DEF Place, HasIp, HasDp, HasOld, Waiting
<1>7. Locks(n) = {} /\ Settled(n) = {}
  BY <1>2 DEF Locks, Settled
<1>8. ASSUME NEW i \in Inums PROVE Has(n, i) = Is01(k.cwd, i) + Count(w, i)
  <2>1. w \in Seq(Nat) /\ Count(w, i) \in Nat
    BY PutsAreNumbers, OccursFinite
  <2>2. Is01(0, i) = 0
    BY Tables DEF Is01
  <2>3. Is01(k.cwd, i) \in Nat
    BY DEF Is01
  <2> QED
    BY <1>2, <2>1, <2>2, <2>3 DEF Has
<1> QED
  BY <1>2, <1>3, <1>4, <1>6, <1>7, <1>8 DEF Returns, Calm, n

\* On a walk: with the reference to the inode it has come to, and the paths to come.
OnWalk(k) ==
  /\ ProcType(k) /\ k.put = "lock" /\ k.at = "namex" /\ k.ip # 0 /\ k.dp = 0 /\ k.cwd # 0
  /\ Op(k).op \in PathCalls /\ (k.old # 0 => Op(k).op = "link")

\* What a step of a walk leaves: what the process holds, and of link what it has settled.
Walks(k, n) ==
  /\ Calm(n) /\ Locks(n) = {} /\ Settled(n) \subseteq {k.old} \ {0}
  /\ \A i \in Inums : Has(n, i) = Has(k, i)
  /\ \A v \in Variables : n.fds[v] \in {0, k.fds[v]}

\* One inode to put counts as the inode it has come to did.
LEMMA PutOne ==
  ASSUME NEW i \in Inums, NEW j \in Inums
  PROVE  /\ <<j>> \in Seq(Inums) /\ Count(<<j>>, i) = Is01(j, i) /\ Count(<<>>, i) = 0
         /\ Is01(0, i) = 0
BY CountOne, Tables DEF Is01

\* The walk fails.
LEMMA WalkLost ==
  ASSUME NEW k, OnWalk(k), k.puts = <<>>
  PROVE  Walks(k, Lost(k))
<1> DEFINE n == Lost(k)
<1>1. /\ DOMAIN k = ProcFields /\ k.prog \in DOMAIN Programs /\ k.fds \in [Variables -> 0 .. NFILE]
      /\ ProcType(k) /\ k.at = "namex" /\ k.cwd # 0 /\ k.dp = 0 /\ k.put = "lock"
  BY DEF OnWalk, ProcType
<1>2. k.ip \in Inums
  BY NamesAssumption DEF OnWalk, ProcType, Inums
<1>3. \A i \in Inums : Is01(0, i) = 0 /\ Count(<<>>, i) = 0 /\ Count(<<k.ip>>, i) = Is01(k.ip, i)
  BY <1>2, PutOne
<1>4. <<k.ip>> \in Seq(Inums)
  BY <1>2
<1>5. \A x, i : Is01(x, i) \in Nat
  BY DEF Is01
<1>6. CASE k.old = 0
  <2>1. n = Ret(k, "fail", <<k.ip>>)
    BY <1>6 DEF Lost
  <2> HIDE DEF n
  <2>2. /\ Calm(n) /\ Locks(n) = {} /\ Settled(n) = {}
        /\ \A i \in Inums : Has(n, i) = Is01(k.cwd, i) + Count(<<k.ip>>, i)
        /\ \A v \in Variables : n.fds[v] \in {0, k.fds[v]}
    <3>1. k.at \notin {"unused", "exited"}
      BY <1>1
    <3>2. Returns(k, Ret(k, "fail", <<k.ip>>), <<k.ip>>)
      BY <1>1, <1>4, <3>1, Returned, Zenon
    <3> QED
      BY <2>1, <3>2 DEF Returns
  <2>3. \A i \in Inums : Has(n, i) = Has(k, i)
    BY <1>1, <1>3, <1>5, <1>6, <2>2 DEF Has
  <2> QED
    BY <2>2, <2>3 DEF Walks, n
<1>7. CASE k.old # 0
  <2>1. n = [k EXCEPT !.at = "link_bad", !.ip = 0, !.path = <<>>, !.puts = <<k.ip>>]
    BY <1>7 DEF Lost
  <2>2. /\ DOMAIN n = ProcFields /\ n.at = "link_bad" /\ n.ip = 0 /\ n.dp = 0 /\ n.old = k.old
        /\ n.cwd = k.cwd /\ n.puts = <<k.ip>> /\ n.put = "lock" /\ n.kids = k.kids
        /\ n.prog = k.prog /\ n.fds = k.fds /\ n.path = <<>>
    BY <1>1, <2>1 DEF ProcFields
  <2> HIDE DEF n
  <2>3. ProcType(n)
    <3>1. Sequence(<<>>)
      BY DEF Sequence
    <3> QED
      BY <1>1, <1>4, <2>2, <3>1, NamesAssumption DEF ProcType
  <2>4. Place(n)
    BY <1>1, <1>7, <2>2 DEF Place, HasIp, HasDp, HasOld, Waiting
  <2>5. Locks(n) = {} /\ Settled(n) \subseteq {k.old} \ {0}
    BY <2>2 DEF Locks, Settled
  <2>6. \A i \in Inums : Has(n, i) = Has(k, i)
    BY <1>1, <1>3, <1>5, <2>2 DEF Has
  <2> QED
    BY <2>2, <2>3, <2>4, <2>5, <2>6 DEF Walks, Calm, n
<1> QED
  BY <1>6, <1>7

\* What the walk was for.
LEMMA Goals ==
  ASSUME NEW k, OnWalk(k)
  PROVE  IF nameiparent(k) THEN /\ Goal(k) \in {"create", "unlink", "link_dir"}
                                /\ Goal(k) = "link_dir" <=> k.old # 0
                           ELSE /\ Goal(k) \in {"link", "open", "chdir"} /\ k.old = 0
                                /\ Goal(k) = "link" => Op(k).op = "link"
BY DEF OnWalk, PathCalls, Goal, nameiparent

\* The walk has come to its goal.
LEMMA WalkAtGoal ==
  ASSUME NEW k, OnWalk(k)
  PROVE  Walks(k, [k EXCEPT !.at = Goal(k)])
<1> DEFINE n == [k EXCEPT !.at = Goal(k)]
<1>1. /\ DOMAIN k = ProcFields /\ k.prog \in DOMAIN Programs /\ k.fds \in [Variables -> 0 .. NFILE]
      /\ ProcType(k) /\ k.at = "namex" /\ k.cwd # 0 /\ k.ip # 0 /\ k.dp = 0 /\ k.put = "lock"
  BY DEF OnWalk, ProcType
<1>2. /\ DOMAIN n = ProcFields /\ n.at = Goal(k) /\ n.ip = k.ip /\ n.dp = 0 /\ n.old = k.old
      /\ n.cwd = k.cwd /\ n.puts = k.puts /\ n.put = "lock" /\ n.kids = k.kids
      /\ n.prog = k.prog /\ n.fds = k.fds /\ n.path = k.path /\ n.pc = k.pc
  BY <1>1 DEF ProcFields
<1>3. /\ Goal(k) \in {"create", "unlink", "link_dir", "link", "open", "chdir"}
      /\ Goal(k) = "link_dir" <=> k.old # 0
      /\ Goal(k) = "link" => Op(k).op = "link"
  BY Goals
<1> HIDE DEF n
<1>8. Op(n) = Op(k)
  BY <1>2 DEF Op
<1>4. ProcType(n)
  BY <1>1, <1>2 DEF ProcType
<1>5. Place(n)
  BY <1>1, <1>2, <1>3, <1>8 DEF Place, HasIp, HasDp, HasOld, Waiting
<1>6. Locks(n) = {} /\ Settled(n) \subseteq {k.old} \ {0}
  BY <1>2, <1>3 DEF Locks, Settled
<1>7. \A i \in Inums : Has(n, i) = Has(k, i)
  BY <1>1, <1>2 DEF Has
<1> QED
  BY <1>2, <1>4, <1>5, <1>6, <1>7 DEF Walks, Calm, n

\* The walk goes on, or has come to its end.
LEMMA WalkOn ==
  ASSUME NEW k, OnWalk(k), k.path # <<>> \/ ~ nameiparent(k) \/ k.puts = <<>>
  PROVE  Walks(k, Walked(k))
<1>1. CASE k.path # <<>>
  <2>1. Walked(k) = k
    BY <1>1 DEF Walked
  <2>2. /\ ProcType(k) /\ k.at = "namex" /\ k.cwd # 0 /\ k.ip # 0 /\ k.dp = 0 /\ k.put = "lock"
        /\ Op(k).op \in PathCalls /\ (k.old # 0 => Op(k).op = "link")
    BY DEF OnWalk
  <2>3. Place(k)
    BY <1>1, <2>2 DEF Place, HasIp, HasDp, HasOld, Waiting
  <2>4. Locks(k) = {} /\ Settled(k) \subseteq {k.old} \ {0}
    BY <2>2 DEF Locks, Settled
  <2> QED
    BY <2>1, <2>2, <2>3, <2>4 DEF Walks, Calm
<1>2. CASE k.path = <<>> /\ nameiparent(k)
  BY <1>2, WalkLost DEF Walked
<1>3. CASE k.path = <<>> /\ ~ nameiparent(k)
  BY <1>3, WalkAtGoal DEF Walked
<1> QED
  BY <1>1, <1>2, <1>3

\* A path without its first element.
LEMMA PathTail ==
  ASSUME NEW s, Sequence(s), s # <<>>
  PROVE  Sequence(Tail(s)) /\ (Len(s) # 1 => Tail(s) # <<>>)
<1> DEFINE T == {s[j] : j \in 1 .. Len(s)}  t == Tail(s)
<1>1. Len(s) \in Nat /\ s = [j \in 1 .. Len(s) |-> s[j]]
  BY DEF Sequence
<1>2. s \in Seq(T)
  BY <1>1
<1> HIDE DEF T
<1>3. t \in Seq(T) /\ Len(t) = Len(s) - 1 /\ Len(t) \in Nat
  BY <1>2
<1> HIDE DEF t
<1>4. t = [j \in 1 .. Len(t) |-> t[j]]
  BY <1>3
<1>5. Len(s) # 1 => t # <<>>
  BY <1>1, <1>3
<1> QED
  BY <1>3, <1>4, <1>5 DEF Sequence, t

\* A walk begins, from the root or the cwd.
LEMMA WalkStarts ==
  ASSUME NEW k, ProcType(k), k.put = "lock", k.puts = <<>>, k.dp = 0, k.cwd # 0,
         k.at \notin {"unused", "exited"}, Op(k).op \in PathCalls, k.old # 0 => Op(k).op = "link",
         NEW path, Sequence(path)
  PROVE  LET n == Start(k, path) IN
         /\ OnWalk(n) /\ n.puts = <<>> /\ n.ip \in Inums /\ n.old = k.old /\ n.fds = k.fds
         /\ \A i \in Inums : Has(n, i) + Is01(k.ip, i) = Has(k, i) + Is01(n.ip, i)
<1> DEFINE n == Start(k, path)
<1>1. DOMAIN k = ProcFields /\ k.cwd \in Inums /\ k.prog \in DOMAIN Programs
  BY NamesAssumption DEF ProcType, Inums
<1>2. PICK i0 \in {ROOTINO, k.cwd}, s \in {path, Tail(path)} :
        /\ n = [k EXCEPT !.at = "namex", !.ip = i0, !.path = s]
        /\ s = path \/ path # <<>>
  BY DEF Start
<1>3. i0 \in Inums /\ i0 # 0
  BY <1>1, Tables
<1>4. Sequence(s)
  <2>1. CASE s = path
    BY <2>1
  <2>2. CASE s = Tail(path) /\ path # <<>>
    BY <2>2, PathTail
  <2> QED
    BY <1>2, <2>1, <2>2
<1>5. /\ DOMAIN n = ProcFields /\ n.at = "namex" /\ n.ip = i0 /\ n.dp = 0 /\ n.old = k.old
      /\ n.cwd = k.cwd /\ n.puts = <<>> /\ n.put = "lock" /\ n.kids = k.kids /\ n.pc = k.pc
      /\ n.prog = k.prog /\ n.fds = k.fds /\ n.path = s
  BY <1>1, <1>2 DEF ProcFields
<1> HIDE DEF n
<1>6. ProcType(n)
  BY <1>1, <1>3, <1>4, <1>5, NamesAssumption DEF ProcType, Inums
<1>7. Op(n) = Op(k)
  BY <1>5 DEF Op
<1>8. OnWalk(n)
  BY <1>3, <1>5, <1>6, <1>7 DEF OnWalk
<1>9. ASSUME NEW i \in Inums PROVE Has(n, i) + Is01(k.ip, i) = Has(k, i) + Is01(n.ip, i)
  <2>1. \A x, j : Is01(x, j) \in Nat
    BY DEF Is01
  <2>2. Is01(0, i) = 0 /\ Count(<<>>, i) = 0
    BY PutOne
  <2> QED
    BY <1>5, <2>1, <2>2 DEF Has
<1> QED
  BY <1>3, <1>5, <1>8, <1>9 DEF n

(* What a step of process p that becomes n may do.                         *)

\* To the cache: locks of others stay, nothing is forgotten or given up.
Gentle(p) ==
  \A i \in Inums :
    /\ icache[i].lock \notin {0, p} => icache'[i].lock = icache[i].lock
    /\ icache[i].valid => icache'[i].valid
    /\ icache[i].lost => icache'[i].lost
    /\ icache'[i].ref >= icache[i].ref

\* To the locks it has, and the inodes it may take a link from.
Secures(p, n) ==
  /\ \A i \in Locks(n) : icache'[i].lock = p
  /\ \A i \in Settled(n) : i \in Settled(proc[p]) \/ (icache'[i].valid /\ icache[i].lock = 0)

\* To inodes: the last link goes only from one that it holds.
LinksKept(n) ==
  \A i \in Inums : inode'[i].type # "none" /\ inode'[i].nlink = 0 =>
    \/ inode[i].type # "none" /\ inode[i].nlink = 0
    \/ icache'[i].valid /\ Has(n, i) > 0

\* To references, if no file changes.
Balanced(k, n) == \A i \in Inums : icache'[i].ref + Has(k, i) = icache[i].ref + Has(n, i)

\* To files, at most their offsets.
FilesStay ==
  /\ Files1(files')
  /\ \A f \in 1 .. NFILE : files'[f].ref = files[f].ref /\ files'[f].ip = files[f].ip

\* What is known of a process before it takes such a step.
LEMMA Before ==
  ASSUME IInv, NEW p \in Procs
  PROVE  /\ Types /\ ProcType(proc[p]) /\ Place(proc[p]) /\ DOMAIN proc = Procs
         /\ Inodes1(inode) /\ Slots(icache) /\ Files1(files)
         /\ proc[p].puts = <<>> => proc[p].put = "lock"
<1>1. Types /\ Place(proc[p])
  BY DEF IInv, PlaceInv
<1> QED
  BY <1>1, TypesNow DEF Place

\* A step of one process that moves only its own references, and no lock of others, keeps the
\* invariant.
LEMMA OneKeeps ==
  ASSUME IInv, NEW p \in Procs, NEW n, Is(p, n), Calm(n), proc[p].put = "lock",
         Inodes1(inode'), Slots(icache'), Files1(files'), FdsInv',
         Gentle(p), Secures(p, n), LinksKept(n),
         \A i \in Inums :
           icache'[i].ref + Has(proc[p], i) + Cardinality(For(files, i)) =
           icache[i].ref + Has(n, i) + Cardinality(For(files', i))
  PROVE  IInv'
<1>1. /\ Types /\ PlaceInv /\ DOMAIN proc = Procs
      /\ \A q \in Procs : ProcType(proc[q]) /\ Place(proc[q])
  BY TypesNow DEF IInv, PlaceInv
<1>2. DOMAIN proc' = Procs /\ proc'[p] = n /\ \A q \in Procs \ {p} : proc'[q] = proc[q]
  BY <1>1 DEF Is
<1>3. \A q \in Procs : ProcType(proc'[q]) /\ Place(proc'[q])
  BY <1>1, <1>2 DEF Calm
<1>4. Types'
  BY <1>2, <1>3, TypesNext
<1>5. PlaceInv'
  <2>1. \A q \in Procs : Place(proc[q])'
    BY <1>3 DEF Place, Op
  <2> QED
    BY <2>1 DEF PlaceInv
<1>6. RefsRight'
  BY <1>1, <1>2, <1>4, RefsKept DEF IInv
<1>7. n.put = "lock"
  BY DEF Calm
<1>8. \A q \in Procs \ {p} : /\ proc'[q].puts = proc[q].puts /\ proc'[q].put = proc[q].put
                             /\ Locks(proc'[q]) = Locks(proc[q])
                             /\ Settled(proc'[q]) = Settled(proc[q])
  BY <1>2
<1>9. /\ proc[p].put = "lock" /\ proc'[p].put = "lock"
      /\ \A i \in Locks(proc'[p]) : icache'[i].lock = p
      /\ \A i \in Settled(proc'[p]) :
           i \in Settled(proc[p]) \/ (icache'[i].valid /\ icache[i].lock = 0)
  BY <1>2, <1>7 DEF Secures
<1>10. \A i \in Inums :
         /\ icache[i].lock \notin {0} \cup {p} => icache'[i].lock = icache[i].lock
         /\ icache[i].valid => icache'[i].valid
         /\ icache[i].lost => icache'[i].lost
         /\ icache'[i].ref >= icache[i].ref
         /\ inode'[i].type # "none" /\ inode'[i].nlink = 0 =>
              \/ inode[i].type # "none" /\ inode[i].nlink = 0
              \/ icache'[i].valid /\ \E q \in {p} : Has(proc'[q], i) > 0
  BY <1>2 DEF Gentle, LinksKept
<1> DEFINE P == {p}
<1>11. /\ \A q \in Procs \ P : /\ proc'[q].puts = proc[q].puts /\ proc'[q].put = proc[q].put
                               /\ Locks(proc'[q]) = Locks(proc[q])
                               /\ Settled(proc'[q]) = Settled(proc[q])
       /\ \A q \in P : /\ proc[q].put = "lock" /\ proc'[q].put = "lock"
                       /\ \A i \in Locks(proc'[q]) : icache'[i].lock = q
                       /\ \A i \in Settled(proc'[q]) :
                            i \in Settled(proc[q]) \/ (icache'[i].valid /\ icache[i].lock = 0)
       /\ P \in SUBSET Procs
  BY <1>8, <1>9
<1>12. \A i \in Inums :
         /\ icache[i].lock \notin {0} \cup P => icache'[i].lock = icache[i].lock
         /\ icache[i].valid => icache'[i].valid
         /\ icache[i].lost => icache'[i].lost
         /\ icache'[i].ref >= icache[i].ref
         /\ inode'[i].type # "none" /\ inode'[i].nlink = 0 =>
              \/ inode[i].type # "none" /\ inode[i].nlink = 0
              \/ icache'[i].valid /\ \E q \in P : Has(proc'[q], i) > 0
  BY <1>10
<1> HIDE DEF P
<1> QED
  BY <1>4, <1>5, <1>6, <1>11, <1>12, Keeps

\* A step of a call that starts or goes on to a path keeps the invariant.
LEMMA WalkKeeps ==
  ASSUME IInv, NEW p \in Procs, NEW n, Is(p, n), Calm(n), proc[p].put = "lock",
         Inodes1(inode'), Slots(icache'), UNCHANGED files \/ FilesStay,
         \A v \in Variables : n.fds[v] \in {0, proc[p].fds[v]},
         Gentle(p), Secures(p, n), LinksKept(n), Balanced(proc[p], n)
  PROVE  IInv'
<1>1. /\ Types /\ DOMAIN proc = Procs /\ FdsInv /\ Files1(files)
      /\ \A q \in Procs : ProcType(proc[q])
  BY TypesNow DEF IInv
<1>2. DOMAIN proc' = Procs /\ proc'[p] = n /\ \A q \in Procs \ {p} : proc'[q] = proc[q]
  BY <1>1 DEF Is
<1>3. /\ Files1(files')
      /\ \A f \in 1 .. NFILE : files'[f].ref = files[f].ref /\ files'[f].ip = files[f].ip
  BY <1>1 DEF FilesStay, Files1, FileType
<1>4. Types'
  BY <1>1, <1>2, <1>3, TypesNext DEF Calm
<1>5. FdsInv'
  <2>1. \A q \in Procs : \A v \in Variables : proc'[q].fds[v] \in {0, proc[q].fds[v]}
    BY <1>2
  <2> QED
    BY <1>1, <1>3, <1>4, <2>1, FdsKept
<1>6. ASSUME NEW i \in Inums
      PROVE  icache'[i].ref + Has(proc[p], i) + Cardinality(For(files, i)) =
             icache[i].ref + Has(n, i) + Cardinality(For(files', i))
  <2>1. For(files', i) = For(files, i)
    BY <1>3, FilesKept
  <2> QED
    BY <2>1 DEF Balanced
<1> QED
  BY <1>3, <1>5, <1>6, OneKeeps

----------------------------------------------------------------------------
(* The walk along a path.                                                   *)

\* An inode is counted as a number, and for itself once.
LEMMA Is01Nat ==
  \A x, i : Is01(x, i) \in Nat /\ Is01(i, i) = 1
BY DEF Is01

\* A process in a program holds its cwd only.
LEMMA InProgram ==
  ASSUME NEW k, ProcType(k), Place(k), k.at = "user", k.puts = <<>>
  PROVE  /\ k.ip = 0 /\ k.dp = 0 /\ k.old = 0 /\ k.cwd # 0 /\ k.put = "lock" /\ k.cwd \in Inums
         /\ k.prog \in DOMAIN Programs /\ Settled(k) = {} /\ Locks(k) = {}
         /\ \A i \in Inums : Has(k, i) = Is01(k.cwd, i)
<1>1. k.ip = 0 /\ k.dp = 0 /\ k.old = 0 /\ k.cwd # 0 /\ k.put = "lock"
  BY DEF Place, HasIp, HasDp, HasOld
<1>2. k.prog \in DOMAIN Programs
  BY DEF ProcType
<1>3. Settled(k) = {} /\ Locks(k) = {}
  BY <1>1 DEF Settled, Locks
<1>4. \A i \in Inums : Has(k, i) = Is01(k.cwd, i)
  <2>1. \A i \in Inums : Is01(0, i) = 0 /\ Count(<<>>, i) = 0
    BY PutOne
  <2> QED
    BY <1>1, <2>1, Is01Nat DEF Has
<1>5. k.cwd \in Inums
  BY <1>1, NamesAssumption DEF ProcType, Inums
<1> QED
  BY <1>1, <1>2, <1>3, <1>4, <1>5

\* Inodes that do not change keep their links.
LEMMA LinksSame ==
  ASSUME NEW n, UNCHANGED inode
  PROVE  LinksKept(n)
BY DEF LinksKept

\* Inodes that stay as they are.
LEMMA InodesSame ==
  ASSUME Inodes1(inode), UNCHANGED inode
  PROVE  Inodes1(inode')
OBVIOUS

\* A name that is found names an inode.
LEMMA Looked ==
  ASSUME Inodes1(inode), NEW d \in Inums, NEW name, Named(d, name) # {}
  PROVE  dirlookup(d, name) \in Inums
<1>1. PICK e \in Named(d, name) : e = CHOOSE x \in Named(d, name) : TRUE
  OBVIOUS
<1>2. e \in inode[d].entries /\ InodeType(inode[d])
  BY <1>1 DEF Named, Inodes1
<1> QED
  BY <1>1, <1>2 DEF dirlookup, InodeType

\* A call with a path takes a reference to the inode where the path starts.
LEMMA BeginStep ==
  ASSUME IInv, NEW p \in Procs, begin(p)
  PROVE  IInv'
<1> DEFINE k0 == proc[p]  k == Start(k0, Op(k0).path)  n == Walked(k)
<1>1. /\ ProcType(k0) /\ Place(k0) /\ k0.at = "user" /\ k0.puts = <<>> /\ Op(k0).op \in PathCalls
      /\ Inodes1(inode) /\ Slots(icache)
  BY Before DEF begin, At, PathCalls
<1>2. Is(p, n) /\ icache' = iget(icache, k.ip) /\ UNCHANGED <<inode, files>>
  BY DEF begin
<1> HIDE DEF k0, n
<1>3. /\ k0.ip = 0 /\ k0.dp = 0 /\ k0.old = 0 /\ k0.cwd # 0 /\ k0.put = "lock"
      /\ k0.prog \in DOMAIN Programs /\ Settled(k0) = {}
  BY <1>1, InProgram
<1>4. Sequence(Op(k0).path)
  BY <1>1, <1>3, Arguments
<1>5. /\ OnWalk(k) /\ k.puts = <<>> /\ k.ip \in Inums /\ k.old = k0.old /\ k.fds = k0.fds
      /\ \A i \in Inums : Has(k, i) + Is01(k0.ip, i) = Has(k0, i) + Is01(k.ip, i)
  BY <1>1, <1>3, <1>4, WalkStarts
<1> HIDE DEF k
<1>6. Walks(k, n)
  BY <1>5, WalkOn DEF n
<1>7. /\ Slots(icache')
      /\ \A j \in Inums :
           /\ icache'[j].ref = icache[j].ref + Is01(k.ip, j) /\ icache'[j].ref >= icache[j].ref
           /\ icache'[j].valid = icache[j].valid /\ icache'[j].lock = icache[j].lock
           /\ icache'[j].lost = icache[j].lost
  BY <1>1, <1>2, <1>5, SlotsGot
<1>8. Gentle(p)
  BY <1>7 DEF Gentle
<1>9. Secures(p, n)
  BY <1>3, <1>5, <1>6 DEF Secures, Walks
<1>10. Balanced(k0, n)
  <2>1. ASSUME NEW i \in Inums PROVE icache'[i].ref + Has(k0, i) = icache[i].ref + Has(n, i)
    <3>1. Has(n, i) = Has(k, i) /\ Has(k, i) + Is01(k0.ip, i) = Has(k0, i) + Is01(k.ip, i)
      BY <1>5, <1>6 DEF Walks
    <3>2. Is01(k0.ip, i) = 0
      BY <1>3, PutOne
    <3>3. Is01(k.ip, i) \in Nat /\ Has(k, i) \in Nat /\ Has(k0, i) \in Nat /\ icache[i].ref \in Nat
      BY <1>1, <1>5, Is01Nat, HoldsCounted DEF OnWalk, Slots, SlotType
    <3> QED
      BY <1>7, <3>1, <3>2, <3>3
  <2> QED
    BY <2>1 DEF Balanced
<1>11. Calm(n) /\ \A v \in Variables : n.fds[v] \in {0, k0.fds[v]}
  BY <1>5, <1>6 DEF Walks
<1> QED
  BY <1>1, <1>2, <1>3, <1>7, <1>8, <1>9, <1>10, <1>11, InodesSame, LinksSame, WalkKeeps DEF k0

\* One turn of the walk gives up a directory and takes a reference to the next inode.
LEMMA NamexStep ==
  ASSUME IInv, NEW p \in Procs, namex(p)
  PROVE  IInv'
<1> DEFINE k == proc[p]  name == Elem(Head(k.path))  next == dirlookup(k.ip, name)
           loaded == ilock(icache, k.ip, 0)
           m == [k EXCEPT !.ip = next, !.path = Tail(@), !.puts = <<k.ip>>]
<1>1. /\ ProcType(k) /\ Place(k) /\ k.at = "namex" /\ k.puts = <<>> /\ k.put = "lock"
      /\ Inodes1(inode) /\ Slots(icache)
  BY Before DEF namex, At
<1>2. /\ OnWalk(k) /\ k.path # <<>> /\ k.ip \in Inums /\ Sequence(k.path) /\ k.dp = 0
  <2>1. k.ip # 0 /\ k.dp = 0 /\ k.cwd # 0
    BY <1>1 DEF Place, HasIp, HasDp
  <2>2. k.path # <<>> /\ Op(k).op \in PathCalls /\ (k.old # 0 => Op(k).op = "link")
    BY <1>1 DEF Place
  <2>3. k.ip \in Inums /\ Sequence(k.path)
    BY <1>1, <2>1, NamesAssumption DEF ProcType, Inums
  <2> QED
    BY <1>1, <2>1, <2>2, <2>3 DEF OnWalk
<1>3. icache[k.ip].lock = 0 /\ UNCHANGED <<inode, files>>
  BY DEF namex, Unlocked
<1>4. \/ icache' = loaded /\ (Is(p, Lost(k)) \/ Is(p, [k EXCEPT !.at = Goal(k)]))
      \/ /\ icache' = iget(loaded, next) /\ Is(p, Walked(m))
         /\ Named(k.ip, name) # {} /\ ~ (nameiparent(k) /\ Len(k.path) = 1)
  BY DEF namex
<1> HIDE DEF k
<1>5. /\ Slots(loaded)
      /\ \A j \in Inums :
           /\ loaded[j].ref = icache[j].ref /\ loaded[j].ref \in Nat
           /\ loaded[j].lost = icache[j].lost
           /\ (loaded[j].valid <=> icache[j].valid \/ j = k.ip)
           /\ loaded[j].lock = IF j = k.ip THEN 0 ELSE icache[j].lock
  BY <1>1, <1>2, SlotsLocked DEF Slots, SlotType
<1> HIDE DEF loaded
<1>6. Inodes1(inode') /\ \A n : LinksKept(n)
  BY <1>1, <1>3, InodesSame, LinksSame
<1>7. \A n : Walks(k, n) => /\ Calm(n) /\ Secures(p, n)
                            /\ \A v \in Variables : n.fds[v] \in {0, k.fds[v]}
  <2>1. {k.old} \ {0} \subseteq Settled(proc[p])
    BY DEF Settled, k
  <2> QED
    BY <2>1 DEF Walks, Secures
<1>8. \A i \in Inums : Has(k, i) \in Nat
  BY <1>1, HoldsCounted
<1>9. CASE icache' = loaded /\ (Is(p, Lost(k)) \/ Is(p, [k EXCEPT !.at = Goal(k)]))
  <2>1. PICK n : Is(p, n) /\ Walks(k, n)
    BY <1>1, <1>2, <1>9, WalkLost, WalkAtGoal
  <2>2. Gentle(p)
    BY <1>3, <1>5, <1>9 DEF Gentle
  <2>3. Balanced(k, n)
    BY <1>5, <1>8, <1>9, <2>1 DEF Balanced, Walks
  <2> QED
    BY <1>1, <1>3, <1>5, <1>6, <1>7, <1>9, <2>1, <2>2, <2>3, WalkKeeps DEF k
<1>10. CASE /\ icache' = iget(loaded, next) /\ Is(p, Walked(m))
            /\ Named(k.ip, name) # {} /\ ~ (nameiparent(k) /\ Len(k.path) = 1)
  <2>1. next \in Inums
    BY <1>1, <1>2, <1>10, Looked
  <2>2. /\ Sequence(Tail(k.path)) /\ (Len(k.path) # 1 => Tail(k.path) # <<>>)
    BY <1>2, PathTail
  <2> HIDE DEF next
  <2>3. DOMAIN k = ProcFields
    BY <1>1 DEF ProcType
  <2>4. /\ DOMAIN m = ProcFields /\ m.at = "namex" /\ m.ip = next /\ m.dp = 0 /\ m.old = k.old
        /\ m.cwd = k.cwd /\ m.puts = <<k.ip>> /\ m.put = "lock" /\ m.kids = k.kids /\ m.pc = k.pc
        /\ m.prog = k.prog /\ m.fds = k.fds /\ m.path = Tail(k.path)
    BY <1>1, <1>2, <2>3 DEF ProcFields
  <2> HIDE DEF m
  <2>5. Op(m) = Op(k) /\ (nameiparent(m) <=> nameiparent(k))
    <3>1. Op(m) = Op(k)
      BY <2>4 DEF Op
    <3> QED
      BY <2>4, <3>1 DEF nameiparent, Goal
  <2>6. ProcType(m)
    BY <1>1, <1>2, <2>1, <2>2, <2>4, NamesAssumption DEF ProcType, Inums
  <2>7. OnWalk(m)
    BY <1>2, <2>1, <2>4, <2>5, <2>6, Tables DEF OnWalk
  <2>8. Walks(m, Walked(m))
    <3>1. m.path # <<>> \/ ~ nameiparent(m)
      BY <1>10, <2>2, <2>4, <2>5
    <3> QED
      BY <2>7, <3>1, WalkOn
  <2>9. \A i \in Inums : Has(m, i) = Has(k, i) + Is01(next, i)
    <3>1. \A i \in Inums : Count(<<k.ip>>, i) = Is01(k.ip, i) /\ Count(<<>>, i) = 0
      BY <1>2, PutOne
    <3> QED
      BY SMTT(30), <1>1, <1>2, <2>4, <3>1, Is01Nat DEF Has
  <2> DEFINE n == Walked(m)
  <2>11. Calm(n) /\ Secures(p, n) /\ \A v \in Variables : n.fds[v] \in {0, k.fds[v]}
    <3>1. {k.old} \ {0} \subseteq Settled(proc[p])
      BY DEF Settled, k
    <3> HIDE DEF n
    <3> QED
      BY <2>4, <2>8, <3>1 DEF Walks, Secures, n
  <2>12. /\ Slots(icache')
         /\ \A j \in Inums :
              /\ icache'[j].ref = loaded[j].ref + Is01(next, j) /\ icache'[j].ref >= loaded[j].ref
              /\ icache'[j].valid = loaded[j].valid /\ icache'[j].lock = loaded[j].lock
              /\ icache'[j].lost = loaded[j].lost
    BY <1>5, <1>10, <2>1, SlotsGot
  <2>13. Gentle(p)
    BY <1>3, <1>5, <2>12 DEF Gentle
  <2>14. Balanced(k, n)
    <3>1. \A i \in Inums : Has(n, i) = Has(k, i) + Is01(next, i)
      BY <2>8, <2>9 DEF Walks
    <3> HIDE DEF n
    <3> QED
      BY <1>5, <1>8, <2>12, <3>1, Is01Nat DEF Balanced
  <2> HIDE DEF n
  <2>15. Is(p, n)
    BY <1>10 DEF n
  <2> QED
    BY <1>1, <1>3, <1>6, <2>11, <2>12, <2>13, <2>14, <2>15, WalkKeeps DEF k
<1> QED
  BY <1>4, <1>9, <1>10

----------------------------------------------------------------------------
(* link.                                                                    *)

\* An inode that nobody has locked is read, and locked or not.
LEMMA LockStep ==
  ASSUME Slots(icache), NEW p, NEW i \in Inums, Unlocked(i), NEW q, icache' = ilock(icache, i, q)
  PROVE  /\ Slots(icache') /\ Gentle(p) /\ icache'[i].valid /\ icache'[i].lock = q
         /\ \A j \in Inums : icache'[j].ref = icache[j].ref
<1>1. /\ Slots(icache')
      /\ \A j \in Inums :
           /\ icache'[j].ref = icache[j].ref /\ icache'[j].lost = icache[j].lost
           /\ (icache'[j].valid <=> icache[j].valid \/ j = i)
           /\ icache'[j].lock = IF j = i THEN q ELSE icache[j].lock
  BY SlotsLocked
<1>2. \A j \in Inums : icache[j].ref \in Nat /\ icache'[j].valid \in BOOLEAN
  BY <1>1 DEF Slots, SlotType
<1> QED
  BY <1>1, <1>2 DEF Gentle, Unlocked

\* ... and a reference to another is taken.
LEMMA LockGetStep ==
  ASSUME Slots(icache), NEW p, NEW i \in Inums, Unlocked(i), NEW q, NEW t \in Inums,
         icache' = iget(ilock(icache, i, q), t)
  PROVE  /\ Slots(icache') /\ Gentle(p) /\ icache'[i].valid /\ icache'[i].lock = q
         /\ \A j \in Inums : icache'[j].ref = icache[j].ref + Is01(t, j)
<1> DEFINE g == ilock(icache, i, q)
<1>1. /\ Slots(g)
      /\ \A j \in Inums :
           /\ g[j].ref = icache[j].ref /\ g[j].lost = icache[j].lost
           /\ (g[j].valid <=> icache[j].valid \/ j = i)
           /\ g[j].lock = IF j = i THEN q ELSE icache[j].lock
  BY SlotsLocked
<1>2. icache' = iget(g, t)
  OBVIOUS
<1> HIDE DEF g
<1>3. /\ Slots(icache')
      /\ \A j \in Inums :
           /\ icache'[j].ref = g[j].ref + Is01(t, j) /\ icache'[j].ref >= g[j].ref
           /\ icache'[j].valid = g[j].valid /\ icache'[j].lock = g[j].lock
           /\ icache'[j].lost = g[j].lost
  BY <1>1, <1>2, SlotsGot
<1>4. \A j \in Inums : g[j].valid \in BOOLEAN
  BY <1>1 DEF Slots, SlotType
<1> QED
  BY <1>1, <1>3, <1>4 DEF Gentle, Unlocked

\* A process unlocks what it has locked.
LEMMA UnlockStep ==
  ASSUME Slots(icache), NEW p, NEW i \in Inums, icache[i].lock = p, icache' = iunlock(icache, i)
  PROVE  /\ Slots(icache') /\ Gentle(p)
         /\ \A j \in Inums : icache'[j].ref = icache[j].ref /\ icache'[j].valid = icache[j].valid
<1>1. /\ Slots(icache')
      /\ \A j \in Inums :
           /\ icache'[j].ref = icache[j].ref /\ icache'[j].lost = icache[j].lost
           /\ icache'[j].valid = icache[j].valid
           /\ icache'[j].lock = IF j = i THEN 0 ELSE icache[j].lock
  BY SlotsUnlocked
<1>2. \A j \in Inums : icache[j].ref \in Nat
  BY DEF Slots, SlotType
<1> QED
  BY <1>1, <1>2 DEF Gentle

\* A step with which a call returns, and gives up what it held in iputs to come.
LEMMA ReturnKeeps ==
  ASSUME IInv, NEW p \in Procs, proc[p].at \notin {"unused", "exited"}, proc[p].puts = <<>>,
         NEW r, NEW w, w \in Seq(Inums), Is(p, Ret(proc[p], r, w)),
         \A i \in Inums :
           Count(w, i) = Is01(proc[p].ip, i) + Is01(proc[p].dp, i) + Is01(proc[p].old, i),
         \A i \in Inums : icache'[i].ref = icache[i].ref,
         Inodes1(inode'), Slots(icache'), UNCHANGED files \/ FilesStay, Gentle(p),
         \A n : (\A i \in Inums : Count(w, i) > 0 => Has(n, i) > 0) => LinksKept(n)
  PROVE  IInv'
<1> DEFINE k == proc[p]  n == Ret(k, r, w)
<1>1. ProcType(k) /\ Place(k) /\ k.put = "lock" /\ Slots(icache)
  BY Before
<1>2. k.cwd # 0
  BY <1>1 DEF Place
<1>3. Returns(k, n, w)
  <2> HIDE DEF k
  <2> QED
    BY <1>1, <1>2, Returned, Zenon DEF k
<1>4. Is(p, n)
  OBVIOUS
<1> HIDE DEF n
<1>5. /\ Calm(n) /\ Secures(p, n) /\ \A v \in Variables : n.fds[v] \in {0, k.fds[v]}
      /\ \A i \in Inums : Has(n, i) = Is01(k.cwd, i) + Count(w, i)
  BY <1>3 DEF Returns, Secures
<1>6. \A i \in Inums : Is01(k.cwd, i) \in Nat /\ Count(w, i) \in Nat /\ Count(<<>>, i) = 0
  BY PutsAreNumbers, OccursFinite, Is01Nat, PutOne
<1>7. LinksKept(n)
  BY <1>5, <1>6
<1>8. Balanced(k, n)
  <2>1. \A i \in Inums : Has(k, i) = Is01(k.cwd, i) + Count(w, i)
    BY <1>6, Is01Nat DEF Has
  <2>2. \A i \in Inums : icache[i].ref \in Nat
    BY <1>1 DEF Slots, SlotType
  <2> QED
    BY <1>5, <1>6, <2>1, <2>2 DEF Balanced
<1> QED
  BY <1>1, <1>4, <1>5, <1>7, <1>8, WalkKeeps

\* Two inodes to put.
LEMMA PutTwo ==
  ASSUME NEW a \in Inums, NEW b \in Inums
  PROVE  <<a, b>> \in Seq(Inums) /\ \A i \in Inums : Count(<<a, b>>, i) = Is01(a, i) + Is01(b, i)
<1>1. a \in Nat /\ b \in Nat
  BY Tables
<1>2. \A i \in Inums : Count(<<a, b>>, i) = Is01(a, i) + Is01(b, i)
  BY <1>1, Counts
<1>3. <<a, b>> \in Seq(Inums)
  OBVIOUS
<1> QED
  BY <1>2, <1>3

----------------------------------------------------------------------------

\* sys_link counts the new link on the disk, keeps the inode and walks the second path.
LEMMA LinkStep ==
  ASSUME IInv, NEW p \in Procs, link(p)
  PROVE  IInv'
<1> DEFINE k == proc[p]  i == k.ip
           m == [k EXCEPT !.old = i]  l == Start(m, Op(k).new)  n == Walked(l)
<1>1. /\ ProcType(k) /\ Place(k) /\ k.at = "link" /\ k.puts = <<>> /\ k.put = "lock"
      /\ Inodes1(inode) /\ Slots(icache)
  BY Before DEF link, At
<1>2. /\ k.ip \in Inums /\ k.dp = 0 /\ k.old = 0 /\ k.cwd # 0 /\ Op(k).op = "link"
      /\ k.prog \in DOMAIN Programs
  <2>1. k.ip # 0 /\ k.dp = 0 /\ k.old = 0 /\ k.cwd # 0 /\ Op(k).op = "link"
    BY <1>1 DEF Place, HasIp, HasDp, HasOld
  <2> QED
    BY <1>1, <2>1, NamesAssumption DEF ProcType, Inums
<1>3. Unlocked(i) /\ UNCHANGED files
  BY DEF link
<1>4. \/ /\ Is(p, Ret(k, "fail", <<i>>)) /\ icache' = ilock(icache, i, 0) /\ UNCHANGED inode
      \/ /\ inode' = [inode EXCEPT ![i].nlink = @ + 1]
         /\ Is(p, n) /\ icache' = iget(ilock(icache, i, 0), l.ip)
  BY DEF link
<1>5. CASE /\ Is(p, Ret(k, "fail", <<i>>)) /\ icache' = ilock(icache, i, 0) /\ UNCHANGED inode
  <2>1. /\ <<i>> \in Seq(Inums)
        /\ \A j \in Inums : Count(<<i>>, j) = Is01(k.ip, j) + Is01(k.dp, j) + Is01(k.old, j)
    BY <1>2, PutOne, Is01Nat
  <2>2. /\ Slots(icache') /\ Gentle(p) /\ \A j \in Inums : icache'[j].ref = icache[j].ref
    BY <1>1, <1>2, <1>3, <1>5, LockStep
  <2>3. Inodes1(inode') /\ \A x : LinksKept(x)
    BY <1>1, <1>5, InodesSame, LinksSame
  <2>4. k.at \notin {"unused", "exited"}
    BY <1>1
  <2> QED
    BY <1>1, <1>3, <1>5, <2>1, <2>2, <2>3, <2>4, ReturnKeeps
<1>6. CASE /\ inode' = [inode EXCEPT ![i].nlink = @ + 1]
           /\ Is(p, n) /\ icache' = iget(ilock(icache, i, 0), l.ip)
  <2> HIDE DEF k, i
  <2>1. DOMAIN k = ProcFields
    BY <1>1 DEF ProcType
  <2>2. /\ DOMAIN m = ProcFields /\ m.at = "link" /\ m.ip = i /\ m.dp = 0 /\ m.old = i
        /\ m.cwd = k.cwd /\ m.puts = <<>> /\ m.put = "lock" /\ m.kids = k.kids /\ m.pc = k.pc
        /\ m.prog = k.prog /\ m.fds = k.fds /\ m.path = k.path
    BY <1>1, <1>2, <2>1 DEF ProcFields, i
  <2> HIDE DEF m
  <2>3. Op(m) = Op(k)
    BY <2>2 DEF Op
  <2>4. ProcType(m)
    BY <1>1, <1>2, <2>2, NamesAssumption DEF ProcType, Inums, i
  <2>5. Sequence(Op(k).new)
    BY <1>2, Arguments DEF PathCalls
  <2>6. /\ OnWalk(l) /\ l.puts = <<>> /\ l.ip \in Inums /\ l.old = i /\ l.fds = k.fds
        /\ \A j \in Inums : Has(l, j) + Is01(m.ip, j) = Has(m, j) + Is01(l.ip, j)
    <3>1. /\ Op(m).op \in PathCalls /\ (m.old # 0 => Op(m).op = "link") /\ m.cwd # 0
          /\ m.at \notin {"unused", "exited"}
      BY <1>2, <2>2, <2>3 DEF PathCalls
    <3> QED
      BY <2>2, <2>4, <2>5, <3>1, WalkStarts
  <2> HIDE DEF l
  <2>7. Walks(l, n)
    BY <2>6, WalkOn
  <2>8. /\ Slots(icache') /\ Gentle(p) /\ icache'[i].valid
        /\ \A j \in Inums : icache'[j].ref = icache[j].ref + Is01(l.ip, j)
    <3>1. i \in Inums
      BY <1>2 DEF i
    <3> QED
      BY SMTT(30), <1>1, <1>3, <1>6, <2>6, <3>1, LockGetStep
  <2>9. \A j \in Inums : Has(n, j) = Has(k, j) + Is01(l.ip, j)
    <3>1. \A j \in Inums : Has(m, j) = Has(k, j) + Is01(i, j)
      <4>1. \A j \in Inums : Is01(0, j) = 0 /\ Count(<<>>, j) = 0
        BY PutOne
      <4> QED
        BY <1>1, <1>2, <2>2, <4>1, Is01Nat DEF Has, i
    <3>2. \A j \in Inums : Has(n, j) = Has(l, j)
      BY <2>7 DEF Walks
    <3>3. \A j \in Inums : Has(l, j) \in Nat /\ Has(k, j) \in Nat
      BY <1>1, <2>6, HoldsCounted DEF OnWalk
    <3> QED
      BY <2>2, <2>6, <3>1, <3>2, <3>3, Is01Nat
  <2> HIDE DEF n
  <2>10. Calm(n) /\ \A v \in Variables : n.fds[v] \in {0, k.fds[v]}
    BY <2>6, <2>7 DEF Walks
  <2>11. Secures(p, n)
    <3>1. Locks(n) = {} /\ Settled(n) \subseteq {i}
      BY <2>6, <2>7 DEF Walks
    <3> QED
      BY <1>3, <2>8, <3>1 DEF Secures, Unlocked
  <2>12. Balanced(k, n)
    <3>1. \A j \in Inums : Has(k, j) \in Nat /\ icache[j].ref \in Nat
      BY <1>1, HoldsCounted DEF Slots, SlotType
    <3> QED
      BY <2>8, <2>9, <3>1, Is01Nat DEF Balanced
  <2>13. Inodes1(inode')
    BY <1>1, <1>6 DEF Inodes1, InodeType
  <2>14. LinksKept(n)
    <3>1. \A j \in Inums \ {i} : inode'[j] = inode[j]
      BY <1>1, <1>6 DEF Inodes1
    <3>2. Has(n, i) > 0
      <4>1. /\ Is01(k.ip, i) = 1 /\ Count(k.puts, i) \in Nat
        BY <1>1, Is01Nat, HoldsCounted DEF i
      <4>2. Has(k, i) > 0
        BY <4>1, Is01Nat DEF Has
      <4>3. Has(k, i) \in Nat /\ i \in Inums
        BY <1>1, <1>2, HoldsCounted DEF i
      <4> QED
        BY <2>9, <4>2, <4>3, Is01Nat
    <3> QED
      BY <2>8, <3>1, <3>2 DEF LinksKept
  <2> QED
    BY <1>1, <1>3, <1>6, <2>8, <2>10, <2>11, <2>12, <2>13, <2>14, WalkKeeps DEF k
<1> QED
  BY <1>4, <1>5, <1>6

\* What a process holds in the middle of link, unlink, create, open and chdir.
LEMMA PlacesLink ==
  ASSUME NEW k, ProcType(k), Place(k)
  PROVE  /\ k.at \in {"link_dir", "link_exists"} => k.ip \in Inums /\ k.dp = 0 /\ k.old \in Inums
         /\ k.at = "link_bad" => k.ip = 0 /\ k.dp = 0 /\ k.old \in Inums
         /\ k.at \in {"unlink", "create", "create_found", "created", "open", "chdir", "unlink_last"} =>
              k.ip \in Inums /\ k.dp = 0 /\ k.old = 0
         /\ k.at = "unlink_ip" => k.ip \in Inums /\ k.dp \in Inums /\ k.old = 0
         /\ k.at = "unlink_bad" => k.ip = 0 /\ k.dp \in Inums /\ k.old = 0
         /\ k.at \notin {"unused", "exited"} => k.cwd \in Inums /\ k.prog \in DOMAIN Programs
<1>1. ninodes \in Nat /\ {k.cwd, k.ip, k.dp, k.old} \subseteq 0 .. ninodes
  BY NamesAssumption DEF ProcType
<1>2. \A x \in {k.cwd, k.ip, k.dp, k.old} : x # 0 => x \in Inums
  BY <1>1 DEF Inums
<1>3. k.at \notin {"unused", "exited"} => k.cwd \in Inums /\ k.prog \in DOMAIN Programs
  BY <1>2 DEF Place, ProcType
<1>4. k.at \in {"link_dir", "link_exists"} => k.ip \in Inums /\ k.dp = 0 /\ k.old \in Inums
  BY <1>2 DEF Place, HasIp, HasDp, HasOld
<1>5. k.at = "link_bad" => k.ip = 0 /\ k.dp = 0 /\ k.old \in Inums
  BY <1>2 DEF Place, HasIp, HasDp, HasOld
<1>6. k.at \in {"unlink", "create", "create_found", "created", "open", "chdir", "unlink_last"} =>
        k.ip \in Inums /\ k.dp = 0 /\ k.old = 0
  BY <1>2 DEF Place, HasIp, HasDp, HasOld
<1>7. k.at = "unlink_ip" => k.ip \in Inums /\ k.dp \in Inums /\ k.old = 0
  BY <1>2 DEF Place, HasIp, HasDp, HasOld
<1>8. k.at = "unlink_bad" => k.ip = 0 /\ k.dp \in Inums /\ k.old = 0
  BY <1>2 DEF Place, HasIp, HasDp, HasOld
<1> QED
  BY <1>3, <1>4, <1>5, <1>6, <1>7, <1>8

\* The count a process has, with the sums its fields and iputs give.
LEMMA Zero ==
  \A i \in Inums : Is01(0, i) = 0 /\ Count(<<>>, i) = 0
BY PutOne

\* The references of a process that has nothing to put.
LEMMA HasNone ==
  ASSUME NEW k, NEW i \in Inums, k.puts = <<>>
  PROVE  Has(k, i) = Is01(k.cwd, i) + Is01(k.ip, i) + Is01(k.dp, i) + Is01(k.old, i)
<1>1. Count(k.puts, i) = 0
  BY Zero
<1> QED
  BY <1>1, Is01Nat DEF Has

\* The references of a process that has one inode to put.
LEMMA HasOne ==
  ASSUME NEW k, NEW i \in Inums, NEW j \in Inums, k.puts = <<j>>
  PROVE  Has(k, i) = Is01(k.cwd, i) + Is01(k.ip, i) + Is01(k.dp, i) + Is01(k.old, i) + Is01(j, i)
<1>1. Count(k.puts, i) = Is01(j, i)
  BY PutOne
<1> QED
  BY <1>1, Is01Nat DEF Has

\* sys_link in the locked directory: it writes the entry, or finds the name taken.
LEMMA LinkDirStep ==
  ASSUME IInv, NEW p \in Procs, link_dir(p)
  PROVE  IInv'
<1> DEFINE k == proc[p]  d == k.ip  there == dirlookup(d, Name(k))
           n == [k EXCEPT !.at = "link_exists", !.puts = <<there>>]
<1>1. /\ ProcType(k) /\ Place(k) /\ k.at = "link_dir" /\ k.puts = <<>> /\ k.put = "lock"
      /\ Inodes1(inode) /\ Slots(icache)
  BY Before DEF link_dir, At
<1>2. /\ d \in Inums /\ k.dp = 0 /\ k.old \in Inums /\ k.cwd \in Inums /\ k.prog \in DOMAIN Programs
      /\ k.at \notin {"unused", "exited"}
  BY <1>1, PlacesLink
<1>3. Unlocked(d) /\ UNCHANGED files
  BY DEF link_dir
<1>4. \/ /\ Named(d, Name(k)) # {}
         /\ icache' = iget(ilock(icache, d, p), there)
         /\ Is(p, n) /\ UNCHANGED inode
      \/ /\ inode' = [inode EXCEPT ![d].entries = @ \cup {<<Name(k), k.old>>}]
         /\ icache' = ilock(icache, d, 0) /\ Is(p, Ret(k, "ok", <<d, k.old>>))
  BY DEF link_dir
<1>5. CASE /\ Named(d, Name(k)) # {}
           /\ icache' = iget(ilock(icache, d, p), there)
           /\ Is(p, n) /\ UNCHANGED inode
  <2>1. there \in Inums
    BY <1>1, <1>2, <1>5, Looked
  <2> HIDE DEF there, k
  <2>2. /\ DOMAIN n = ProcFields /\ n.at = "link_exists" /\ n.ip = d /\ n.dp = 0 /\ n.old = k.old
        /\ n.cwd = k.cwd /\ n.puts = <<there>> /\ n.put = "lock" /\ n.kids = k.kids
        /\ n.prog = k.prog /\ n.fds = k.fds /\ n.path = k.path
    BY <1>1, <1>2 DEF ProcFields, ProcType
  <2> HIDE DEF d, n
  <2>3. ProcType(n)
    BY <1>1, <1>2, <2>1, <2>2 DEF ProcType, d
  <2>4. Place(n)
    BY <1>2, <2>2, Tables DEF Place, HasIp, HasDp, HasOld, Waiting
  <2>5. /\ Slots(icache') /\ Gentle(p) /\ icache'[d].lock = p
        /\ \A j \in Inums : icache'[j].ref = icache[j].ref + Is01(there, j)
    BY <1>1, <1>2, <1>3, <1>5, <2>1, LockGetStep
  <2>6. Secures(p, n)
    <3>1. Locks(n) = {d} /\ Settled(n) = Settled(k)
      BY <1>1, <1>2, <2>2 DEF Locks, Settled
    <3> QED
      BY <2>5, <3>1 DEF Secures, k
  <2>7. Balanced(k, n)
    <3>1. ASSUME NEW i \in Inums PROVE icache'[i].ref + Has(k, i) = icache[i].ref + Has(n, i)
      <4>1. Has(n, i) = Has(k, i) + Is01(there, i)
        <5>1. /\ Has(k, i) = Is01(k.cwd, i) + Is01(k.ip, i) + Is01(0, i) + Is01(k.old, i)
              /\ Has(n, i) = Is01(k.cwd, i) + Is01(k.ip, i) + Is01(0, i) + Is01(k.old, i) + Is01(there, i)
          BY <1>1, <1>2, <2>1, <2>2, HasNone, HasOne DEF d
        <5>2. /\ Is01(k.cwd, i) \in Nat /\ Is01(k.ip, i) \in Nat /\ Is01(0, i) \in Nat
              /\ Is01(k.old, i) \in Nat /\ Is01(there, i) \in Nat
          BY Is01Nat
        <5> QED
          BY <5>1, <5>2
      <4>2. icache[i].ref \in Nat /\ Has(k, i) \in Nat
        BY <1>1, HoldsCounted DEF Slots, SlotType
      <4> QED
        BY <2>5, <4>1, <4>2, Is01Nat
    <3> QED
      BY <3>1 DEF Balanced
  <2>8. Inodes1(inode') /\ LinksKept(n)
    BY <1>1, <1>5, InodesSame, LinksSame
  <2> QED
    BY <1>1, <1>3, <1>5, <2>2, <2>3, <2>4, <2>5, <2>6, <2>7, <2>8, WalkKeeps DEF Calm, k
<1>6. CASE /\ inode' = [inode EXCEPT ![d].entries = @ \cup {<<Name(k), k.old>>}]
           /\ icache' = ilock(icache, d, 0) /\ Is(p, Ret(k, "ok", <<d, k.old>>))
  <2> DEFINE w == <<d, k.old>>
  <2>1. w \in Seq(Inums) /\ \A i \in Inums : Count(w, i) = Is01(d, i) + Is01(k.old, i)
    BY <1>2, PutTwo
  <2>2. \A i \in Inums : Count(w, i) = Is01(k.ip, i) + Is01(k.dp, i) + Is01(k.old, i)
    BY <1>2, <2>1, Zero, Is01Nat
  <2>3. Is(p, Ret(k, "ok", w))
    BY <1>6
  <2> HIDE DEF w
  <2>4. /\ Slots(icache') /\ Gentle(p) /\ \A j \in Inums : icache'[j].ref = icache[j].ref
    BY <1>1, <1>2, <1>3, <1>6, LockStep
  <2>5. \A j \in Inums : inode'[j].type = inode[j].type /\ inode'[j].nlink = inode[j].nlink
    BY <1>1, <1>2, <1>6 DEF Inodes1, InodeType
  <2>6. \A x : LinksKept(x)
    BY <2>5 DEF LinksKept
  <2>7. Inodes1(inode')
    <3>1. DOMAIN inode' = Inums /\ \A j \in Inums \ {d} : inode'[j] = inode[j]
      BY <1>1, <1>6 DEF Inodes1
    <3>2. inode'[d] = [inode[d] EXCEPT !.entries = @ \cup {<<Name(k), k.old>>}]
      BY <1>1, <1>2, <1>6 DEF Inodes1
    <3>3. InodeType(inode'[d])
      BY <1>1, <1>2, <3>2 DEF Inodes1, InodeType
    <3> QED
      BY <1>1, <3>1, <3>3 DEF Inodes1
  <2> QED
    BY <1>1, <1>2, <1>3, <2>1, <2>2, <2>3, <2>4, <2>6, <2>7, ReturnKeeps
<1> QED
  BY <1>4, <1>5, <1>6

\* sys_link gives up the directory in which the name was taken.
LEMMA LinkExistsStep ==
  ASSUME IInv, NEW p \in Procs, link_exists(p)
  PROVE  IInv'
<1> DEFINE k == proc[p]  d == k.ip
           n == [k EXCEPT !.at = "link_bad", !.ip = 0, !.path = <<>>, !.puts = <<d>>]
<1>1. /\ ProcType(k) /\ Place(k) /\ k.at = "link_exists" /\ k.puts = <<>> /\ k.put = "lock"
      /\ Inodes1(inode) /\ Slots(icache)
  BY Before DEF link_exists, At
<1>2. /\ d \in Inums /\ k.dp = 0 /\ k.old \in Inums /\ k.cwd \in Inums /\ k.prog \in DOMAIN Programs
  BY <1>1, PlacesLink
<1>3. icache' = iunlock(icache, d) /\ UNCHANGED <<inode, files>>
  BY DEF link_exists
<1>4. Is(p, n)
  <2>1. k.old # 0
    BY <1>2, Tables
  <2>2. Is(p, Lost(k))
    BY DEF link_exists
  <2> QED
    BY <2>1, <2>2 DEF Lost
<1>5. icache[d].lock = p
  BY <1>1 DEF IInv, LockInv, Locks
<1> HIDE DEF k
<1>6. /\ DOMAIN n = ProcFields /\ n.at = "link_bad" /\ n.ip = 0 /\ n.dp = 0 /\ n.old = k.old
      /\ n.cwd = k.cwd /\ n.puts = <<d>> /\ n.put = "lock" /\ n.kids = k.kids
      /\ n.prog = k.prog /\ n.fds = k.fds /\ n.path = <<>>
  BY <1>1, <1>2 DEF ProcFields, ProcType
<1> HIDE DEF n
<1>7. ProcType(n)
  <2>1. Sequence(<<>>) /\ <<d>> \in Seq(Inums)
    BY <1>2 DEF Sequence
  <2> QED
    BY <1>1, <1>2, <1>6, <2>1, NamesAssumption DEF ProcType
<1>8. Place(n)
  BY <1>2, <1>6, Tables DEF Place, HasIp, HasDp, HasOld, Waiting
<1>9. /\ Slots(icache') /\ Gentle(p) /\ \A j \in Inums : icache'[j].ref = icache[j].ref
  BY <1>1, <1>2, <1>3, <1>5, UnlockStep
<1>10. Secures(p, n)
  <2>1. Locks(n) = {} /\ Settled(n) = Settled(k)
    BY <1>1, <1>2, <1>6 DEF Locks, Settled
  <2> QED
    BY <2>1 DEF Secures, k
<1>11. Balanced(k, n)
  <2>1. \A i \in Inums : Has(n, i) = Has(k, i)
    <3>1. ASSUME NEW i \in Inums PROVE Has(n, i) = Has(k, i)
      <4>1. /\ Has(k, i) = Is01(k.cwd, i) + Is01(d, i) + Is01(0, i) + Is01(k.old, i)
            /\ Has(n, i) = Is01(k.cwd, i) + Is01(0, i) + Is01(0, i) + Is01(k.old, i) + Is01(d, i)
        BY <1>1, <1>2, <1>6, HasNone, HasOne
      <4>2. /\ Is01(k.cwd, i) \in Nat /\ Is01(d, i) \in Nat /\ Is01(0, i) = 0
            /\ Is01(k.old, i) \in Nat
        BY Zero, Is01Nat
      <4> QED
        BY <4>1, <4>2
    <3> QED
      BY <3>1
  <2> QED
    BY <1>9, <2>1 DEF Balanced
<1>12. Inodes1(inode') /\ LinksKept(n)
  BY <1>1, <1>3, InodesSame, LinksSame
<1> QED
  BY <1>1, <1>3, <1>4, <1>6, <1>7, <1>8, <1>9, <1>10, <1>11, <1>12, WalkKeeps DEF Calm, k

\* sys_link takes the link back, and with it perhaps the last one.
LEMMA LinkBadStep ==
  ASSUME IInv, NEW p \in Procs, link_bad(p)
  PROVE  IInv'
<1> DEFINE k == proc[p]  i == k.old
<1>1. /\ ProcType(k) /\ Place(k) /\ k.at = "link_bad" /\ k.puts = <<>> /\ k.put = "lock"
      /\ Inodes1(inode) /\ Slots(icache)
  BY Before DEF link_bad, At
<1>2. k.ip = 0 /\ k.dp = 0 /\ i \in Inums /\ i # 0 /\ k.at \notin {"unused", "exited"}
  BY <1>1, PlacesLink, Tables
<1>3. /\ inode' = [inode EXCEPT ![i].nlink = Undone(@)] /\ Is(p, Ret(k, "fail", <<i>>))
      /\ UNCHANGED <<icache, files>>
  BY DEF link_bad
<1>4. icache[i].valid
  BY <1>2 DEF IInv, SettledInv, Settled
<1> HIDE DEF i
<1>5. Inodes1(inode') /\ \A j \in Inums \ {i} : inode'[j] = inode[j]
  BY <1>1, <1>3 DEF Inodes1, InodeType
<1>6. <<i>> \in Seq(Inums) /\ \A j \in Inums : Count(<<i>>, j) = Is01(i, j)
  BY <1>2, PutOne
<1>7. \A j \in Inums : Count(<<i>>, j) = Is01(k.ip, j) + Is01(k.dp, j) + Is01(k.old, j)
  BY <1>2, <1>6, PutOne, Is01Nat DEF i
<1>8. \A n : (\A j \in Inums : Count(<<i>>, j) > 0 => Has(n, j) > 0) => LinksKept(n)
  BY <1>2, <1>3, <1>4, <1>5, <1>6, Is01Nat DEF LinksKept
<1>9. Slots(icache') /\ Gentle(p) /\ \A j \in Inums : icache'[j].ref = icache[j].ref
  BY <1>1, <1>3 DEF Gentle, Slots, SlotType
<1> QED
  BY <1>1, <1>2, <1>3, <1>5, <1>6, <1>7, <1>8, <1>9, ReturnKeeps

----------------------------------------------------------------------------
(* unlink.                                                                  *)

\* sys_unlink looks the name up in the locked directory, and takes a reference to its inode.
LEMMA UnlinkStep ==
  ASSUME IInv, NEW p \in Procs, unlink(p)
  PROVE  IInv'
<1> DEFINE k == proc[p]  d == k.ip  i == dirlookup(d, Name(k))
           n == [k EXCEPT !.at = "unlink_ip", !.dp = d, !.ip = i]
<1>1. /\ ProcType(k) /\ Place(k) /\ k.at = "unlink" /\ k.puts = <<>> /\ k.put = "lock"
      /\ Inodes1(inode) /\ Slots(icache)
  BY Before DEF unlink, At
<1>2. /\ d \in Inums /\ k.dp = 0 /\ k.old = 0 /\ k.cwd \in Inums /\ k.prog \in DOMAIN Programs
      /\ k.at \notin {"unused", "exited"}
  BY <1>1, PlacesLink
<1>3. Unlocked(d) /\ UNCHANGED <<inode, files>>
  BY DEF unlink
<1>4. \/ Is(p, Ret(k, "fail", <<d>>)) /\ icache' = ilock(icache, d, 0)
      \/ Named(d, Name(k)) # {} /\ Is(p, n) /\ icache' = iget(ilock(icache, d, p), i)
  BY DEF unlink
<1>5. Inodes1(inode') /\ \A x : LinksKept(x)
  BY <1>1, <1>3, InodesSame, LinksSame
<1>6. CASE Is(p, Ret(k, "fail", <<d>>)) /\ icache' = ilock(icache, d, 0)
  <2>1. <<d>> \in Seq(Inums) /\ \A j \in Inums : Count(<<d>>, j) = Is01(d, j)
    BY <1>2, PutOne
  <2>2. \A j \in Inums : Count(<<d>>, j) = Is01(k.ip, j) + Is01(k.dp, j) + Is01(k.old, j)
    BY <1>2, <2>1, Zero, Is01Nat
  <2>3. /\ Slots(icache') /\ Gentle(p) /\ \A j \in Inums : icache'[j].ref = icache[j].ref
    BY <1>1, <1>2, <1>3, <1>6, LockStep
  <2> QED
    BY <1>1, <1>2, <1>3, <1>5, <1>6, <2>1, <2>2, <2>3, ReturnKeeps
<1>7. CASE Named(d, Name(k)) # {} /\ Is(p, n) /\ icache' = iget(ilock(icache, d, p), i)
  <2>1. i \in Inums
    BY <1>1, <1>2, <1>7, Looked
  <2> HIDE DEF i, k
  <2>2. /\ DOMAIN n = ProcFields /\ n.at = "unlink_ip" /\ n.ip = i /\ n.dp = d /\ n.old = 0
        /\ n.cwd = k.cwd /\ n.puts = <<>> /\ n.put = "lock" /\ n.kids = k.kids
        /\ n.prog = k.prog /\ n.fds = k.fds /\ n.path = k.path
    BY <1>1, <1>2 DEF ProcFields, ProcType
  <2> HIDE DEF n, d
  <2>3. ProcType(n)
    BY <1>1, <1>2, <2>1, <2>2, NamesAssumption DEF ProcType, Inums
  <2>4. Place(n)
    BY <1>2, <2>1, <2>2, Tables DEF Place, HasIp, HasDp, HasOld, Waiting
  <2>5. /\ Slots(icache') /\ Gentle(p) /\ icache'[d].valid /\ icache'[d].lock = p
        /\ \A j \in Inums : icache'[j].ref = icache[j].ref + Is01(i, j)
    BY <1>1, <1>2, <1>3, <1>7, <2>1, LockGetStep
  <2>6. Secures(p, n)
    <3>1. Locks(n) = {d} /\ Settled(n) \subseteq {d}
      BY <2>2 DEF Locks, Settled
    <3> QED
      BY <1>3, <2>5, <3>1 DEF Secures, Unlocked
  <2>7. Balanced(k, n)
    <3>1. ASSUME NEW j \in Inums PROVE icache'[j].ref + Has(k, j) = icache[j].ref + Has(n, j)
      <4>1. /\ Has(k, j) = Is01(k.cwd, j) + Is01(d, j) + Is01(0, j) + Is01(0, j)
            /\ Has(n, j) = Is01(k.cwd, j) + Is01(i, j) + Is01(d, j) + Is01(0, j)
        BY <1>1, <1>2, <2>2, HasNone DEF d
      <4>2. /\ Is01(k.cwd, j) \in Nat /\ Is01(d, j) \in Nat /\ Is01(0, j) = 0 /\ Is01(i, j) \in Nat
            /\ icache[j].ref \in Nat
        BY <1>1, Zero, Is01Nat DEF Slots, SlotType
      <4> QED
        BY <2>5, <4>1, <4>2
    <3> QED
      BY <3>1 DEF Balanced
  <2> QED
    BY <1>1, <1>3, <1>5, <1>7, <2>2, <2>3, <2>4, <2>5, <2>6, <2>7, WalkKeeps DEF Calm, k
<1> QED
  BY <1>4, <1>6, <1>7

\* The parent that unlink holds is locked, in memory, and not the inode it comes to.
LEMMA UnlinkIpStep ==
  ASSUME IInv, NEW p \in Procs, unlink_ip(p)
  PROVE  IInv'
<1> DEFINE k == proc[p]  d == k.dp  i == k.ip
           n == [k EXCEPT !.at = "unlink_bad", !.ip = 0, !.puts = <<i>>]
           m == [k EXCEPT !.at = "unlink_last", !.dp = 0, !.puts = <<d>>]
           g == ilock(icache, i, p)
<1>1. /\ ProcType(k) /\ Place(k) /\ k.at = "unlink_ip" /\ k.puts = <<>> /\ k.put = "lock"
      /\ Inodes1(inode) /\ Slots(icache)
  BY Before DEF unlink_ip, At
<1>2. /\ d \in Inums /\ i \in Inums /\ k.old = 0 /\ k.cwd \in Inums /\ k.prog \in DOMAIN Programs
      /\ k.at \notin {"unused", "exited"} /\ d # 0
  BY <1>1, PlacesLink, Tables
<1>3. Unlocked(i) /\ UNCHANGED files
  BY DEF unlink_ip
<1>4. \/ /\ icache' = ilock(icache, i, 0) /\ Is(p, n) /\ UNCHANGED inode
      \/ /\ \E v : inode' = [inode EXCEPT ![d].entries = @ \ {<<Name(k), i>>}, ![d].nlink = v]
         /\ icache' = iunlock(g, d) /\ Is(p, m)
  BY DEF unlink_ip
<1>5. icache[d].lock = p /\ icache[d].valid /\ d # i
  <2>1. icache[d].lock = p
    BY <1>1 DEF IInv, LockInv, Locks
  <2>2. icache[d].valid
    BY <1>1, <1>2 DEF IInv, SettledInv, Settled
  <2> QED
    BY <1>3, <2>1, <2>2, Tables DEF Unlocked
<1> HIDE DEF k
<1>6. CASE icache' = ilock(icache, i, 0) /\ Is(p, n) /\ UNCHANGED inode
  <2>1. /\ DOMAIN n = ProcFields /\ n.at = "unlink_bad" /\ n.ip = 0 /\ n.dp = d /\ n.old = 0
        /\ n.cwd = k.cwd /\ n.puts = <<i>> /\ n.put = "lock" /\ n.kids = k.kids
        /\ n.prog = k.prog /\ n.fds = k.fds /\ n.path = k.path
    BY <1>1, <1>2 DEF ProcFields, ProcType
  <2> HIDE DEF n, d, i
  <2>2. ProcType(n)
    BY <1>1, <1>2, <2>1, NamesAssumption DEF ProcType, Inums
  <2>3. Place(n)
    BY <1>2, <2>1, Tables DEF Place, HasIp, HasDp, HasOld, Waiting
  <2>4. /\ Slots(icache') /\ Gentle(p) /\ \A j \in Inums : icache'[j].ref = icache[j].ref
    BY <1>1, <1>2, <1>3, <1>6, LockStep
  <2>5. Secures(p, n)
    <3>1. Locks(n) = {d} /\ Settled(n) = Settled(k)
      BY <1>1, <1>2, <2>1 DEF Locks, Settled, d
    <3>2. icache'[d].lock = icache[d].lock
      BY <1>1, <1>2, <1>5, <1>6, SlotsLocked
    <3> QED
      BY <1>5, <3>1, <3>2 DEF Secures, k
  <2>6. Balanced(k, n)
    <3>1. ASSUME NEW j \in Inums PROVE icache'[j].ref + Has(k, j) = icache[j].ref + Has(n, j)
      <4>1. /\ Has(k, j) = Is01(k.cwd, j) + Is01(i, j) + Is01(d, j) + Is01(0, j)
            /\ Has(n, j) = Is01(k.cwd, j) + Is01(0, j) + Is01(d, j) + Is01(0, j) + Is01(i, j)
        BY <1>1, <1>2, <2>1, HasNone, HasOne DEF d, i
      <4>2. /\ Is01(k.cwd, j) \in Nat /\ Is01(d, j) \in Nat /\ Is01(0, j) = 0 /\ Is01(i, j) \in Nat
            /\ icache[j].ref \in Nat
        BY <1>1, Zero, Is01Nat DEF Slots, SlotType
      <4> QED
        BY <2>4, <4>1, <4>2
    <3> QED
      BY <3>1 DEF Balanced
  <2>7. Inodes1(inode') /\ LinksKept(n)
    BY <1>1, <1>6, InodesSame, LinksSame
  <2> QED
    BY <1>1, <1>3, <1>6, <2>1, <2>2, <2>3, <2>4, <2>5, <2>6, <2>7, WalkKeeps DEF Calm, k
<1>7. CASE /\ \E v : inode' = [inode EXCEPT ![d].entries = @ \ {<<Name(k), i>>}, ![d].nlink = v]
           /\ icache' = iunlock(g, d) /\ Is(p, m)
  <2>1. /\ DOMAIN m = ProcFields /\ m.at = "unlink_last" /\ m.ip = i /\ m.dp = 0 /\ m.old = 0
        /\ m.cwd = k.cwd /\ m.puts = <<d>> /\ m.put = "lock" /\ m.kids = k.kids
        /\ m.prog = k.prog /\ m.fds = k.fds /\ m.path = k.path
    BY <1>1, <1>2 DEF ProcFields, ProcType
  <2> HIDE DEF m, d, i
  <2>2. ProcType(m)
    BY <1>1, <1>2, <2>1, NamesAssumption DEF ProcType, Inums
  <2>3. Place(m)
    BY <1>2, <2>1, Tables DEF Place, HasIp, HasDp, HasOld, Waiting
  <2>4. /\ Slots(g)
        /\ \A j \in Inums :
             /\ g[j].ref = icache[j].ref /\ g[j].lost = icache[j].lost
             /\ (g[j].valid <=> icache[j].valid \/ j = i)
             /\ g[j].lock = IF j = i THEN p ELSE icache[j].lock
    BY <1>1, <1>2, SlotsLocked
  <2> HIDE DEF g
  <2>5. /\ Slots(icache')
        /\ \A j \in Inums :
             /\ icache'[j].ref = g[j].ref /\ icache'[j].lost = g[j].lost
             /\ icache'[j].valid = g[j].valid
             /\ icache'[j].lock = IF j = d THEN 0 ELSE g[j].lock
    <3>1. icache' = iunlock(g, d)
      BY <1>7
    <3>2. d \in Inums /\ Slots(g)
      BY <1>2, <2>4
    <3>3. /\ Slots(iunlock(g, d))
          /\ \A j \in Inums : LET s == iunlock(g, d)[j] IN
               /\ s.ref = g[j].ref /\ s.lost = g[j].lost /\ s.valid = g[j].valid
               /\ s.lock = IF j = d THEN 0 ELSE g[j].lock
      BY <3>2, SlotsUnlocked
    <3> QED
      BY <3>1, <3>3
  <2>6. \A j \in Inums : icache[j].ref \in Nat
    BY <1>1 DEF Slots, SlotType
  <2>7. Gentle(p)
    BY <1>3, <1>5, <2>4, <2>5, <2>6 DEF Gentle, Unlocked
  <2>8. icache'[i].valid /\ icache'[i].lock = p /\ icache'[d].valid
    BY <1>2, <1>5, <2>4, <2>5
  <2>9. Secures(p, m)
    <3>1. Locks(m) = {i} /\ Settled(m) \subseteq {i}
      BY <2>1 DEF Locks, Settled
    <3> QED
      BY <1>3, <2>8, <3>1 DEF Secures, Unlocked
  <2>10. \A j \in Inums : Has(m, j) = Has(k, j)
    <3>1. ASSUME NEW j \in Inums PROVE Has(m, j) = Has(k, j)
      <4>1. /\ Has(k, j) = Is01(k.cwd, j) + Is01(i, j) + Is01(d, j) + Is01(0, j)
            /\ Has(m, j) = Is01(k.cwd, j) + Is01(i, j) + Is01(0, j) + Is01(0, j) + Is01(d, j)
        BY <1>1, <1>2, <2>1, HasNone, HasOne DEF d, i
      <4>2. /\ Is01(k.cwd, j) \in Nat /\ Is01(d, j) \in Nat /\ Is01(0, j) = 0 /\ Is01(i, j) \in Nat
        BY Zero, Is01Nat
      <4> QED
        BY <4>1, <4>2
    <3> QED
      BY <3>1
  <2>11. Balanced(k, m)
    BY <2>4, <2>5, <2>10 DEF Balanced
  <2>12. /\ Inodes1(inode') /\ \A j \in Inums \ {d} : inode'[j] = inode[j]
    <3>1. PICK v : inode' = [inode EXCEPT ![d].entries = @ \ {<<Name(k), i>>}, ![d].nlink = v]
      BY <1>7
    <3>2. DOMAIN inode' = Inums /\ \A j \in Inums \ {d} : inode'[j] = inode[j]
      BY <1>1, <3>1 DEF Inodes1
    <3>3. InodeType(inode'[d])
      BY <1>1, <1>2, <3>1 DEF Inodes1, InodeType
    <3> QED
      BY <1>1, <3>2, <3>3 DEF Inodes1
  <2>13. LinksKept(m)
    <3>1. Has(m, d) > 0
      <4>1. Has(m, d) = Is01(m.cwd, d) + Is01(m.ip, d) + Is01(m.dp, d) + Is01(m.old, d) + Is01(d, d)
        BY <1>2, <2>1, HasOne
      <4> QED
        BY <4>1, Is01Nat
    <3> QED
      BY <2>8, <2>12, <3>1 DEF LinksKept
  <2> QED
    BY <1>1, <1>3, <1>7, <2>1, <2>2, <2>3, <2>5, <2>7, <2>9, <2>11, <2>12, <2>13, WalkKeeps DEF Calm, k
<1> QED
  BY <1>4, <1>6, <1>7

\* sys_unlink gives up the directory when it cannot remove the entry.
LEMMA UnlinkBadStep ==
  ASSUME IInv, NEW p \in Procs, unlink_bad(p)
  PROVE  IInv'
<1> DEFINE k == proc[p]  d == k.dp
<1>1. /\ ProcType(k) /\ Place(k) /\ k.at = "unlink_bad" /\ k.puts = <<>> /\ k.put = "lock"
      /\ Inodes1(inode) /\ Slots(icache)
  BY Before DEF unlink_bad, At
<1>2. k.ip = 0 /\ d \in Inums /\ k.old = 0 /\ k.at \notin {"unused", "exited"}
  BY <1>1, PlacesLink
<1>3. /\ icache' = iunlock(icache, d) /\ Is(p, Ret(k, "fail", <<d>>)) /\ UNCHANGED <<inode, files>>
  BY DEF unlink_bad, Released
<1>4. icache[d].lock = p
  BY <1>1 DEF IInv, LockInv, Locks
<1> HIDE DEF d
<1>5. <<d>> \in Seq(Inums) /\ \A j \in Inums : Count(<<d>>, j) = Is01(d, j)
  BY <1>2, PutOne
<1>6. \A j \in Inums : Count(<<d>>, j) = Is01(k.ip, j) + Is01(k.dp, j) + Is01(k.old, j)
  BY <1>2, <1>5, Zero, Is01Nat DEF d
<1>7. Slots(icache') /\ Gentle(p) /\ \A j \in Inums : icache'[j].ref = icache[j].ref
  BY <1>1, <1>2, <1>3, <1>4, UnlockStep
<1>8. Inodes1(inode') /\ \A x : LinksKept(x)
  BY <1>1, <1>3, InodesSame, LinksSame
<1> QED
  BY <1>1, <1>2, <1>3, <1>5, <1>6, <1>7, <1>8, ReturnKeeps

\* sys_unlink counts the link down, and may leave the inode without any.
LEMMA UnlinkLastStep ==
  ASSUME IInv, NEW p \in Procs, unlink_last(p)
  PROVE  IInv'
<1> DEFINE k == proc[p]  i == k.ip
<1>1. /\ ProcType(k) /\ Place(k) /\ k.at = "unlink_last" /\ k.puts = <<>> /\ k.put = "lock"
      /\ Inodes1(inode) /\ Slots(icache)
  BY Before DEF unlink_last, At
<1>2. i \in Inums /\ i # 0 /\ k.dp = 0 /\ k.old = 0 /\ k.at \notin {"unused", "exited"}
  BY <1>1, PlacesLink, Tables
<1>3. /\ inode' = [inode EXCEPT ![i].nlink = @ - 1] /\ icache' = iunlock(icache, i)
      /\ Is(p, Ret(k, "ok", <<i>>)) /\ UNCHANGED files
  BY DEF unlink_last
<1>4. icache[i].lock = p /\ icache[i].valid
  <2>1. icache[i].lock = p
    BY <1>1 DEF IInv, LockInv, Locks
  <2>2. i \in Settled(k)
    BY <1>1, <1>2 DEF Settled
  <2> QED
    BY <2>1, <2>2 DEF IInv, SettledInv
<1> HIDE DEF i
<1>5. Inodes1(inode') /\ \A j \in Inums \ {i} : inode'[j] = inode[j]
  BY <1>1, <1>3 DEF Inodes1, InodeType
<1>6. <<i>> \in Seq(Inums) /\ \A j \in Inums : Count(<<i>>, j) = Is01(i, j)
  BY <1>2, PutOne
<1>7. \A j \in Inums : Count(<<i>>, j) = Is01(k.ip, j) + Is01(k.dp, j) + Is01(k.old, j)
  BY <1>2, <1>6, Zero, Is01Nat DEF i
<1>8. /\ Slots(icache') /\ Gentle(p)
      /\ \A j \in Inums : icache'[j].ref = icache[j].ref /\ icache'[j].valid = icache[j].valid
  BY <1>1, <1>2, <1>3, <1>4, UnlockStep
<1>9. \A n : (\A j \in Inums : Count(<<i>>, j) > 0 => Has(n, j) > 0) => LinksKept(n)
  BY <1>2, <1>4, <1>5, <1>6, <1>8, Is01Nat DEF LinksKept
<1> QED
  BY <1>1, <1>2, <1>3, <1>5, <1>6, <1>7, <1>8, <1>9, ReturnKeeps

----------------------------------------------------------------------------
(* create, open and chdir.                                                  *)

\* Nothing changes that the invariant looks at.
LEMMA StillStep ==
  ASSUME IInv, UNCHANGED <<inode, icache, files, proc>>
  PROVE  IInv'
<1>1. Types /\ PlaceInv /\ FdsInv /\ RefsRight /\ LockInv /\ SettledInv /\ OrphanInv
  BY DEF IInv
<1>2. Types'
  BY <1>1, TypesNow, TypesNext
<1>3. PlaceInv'
  <2>1. \A q \in Procs : Place(proc'[q])
    BY <1>1 DEF PlaceInv
  <2>2. \A q \in Procs : Place(proc[q])'
    BY <2>1 DEF Place, Op
  <2> QED
    BY <2>2 DEF PlaceInv
<1>4. FdsInv'
  BY <1>1 DEF FdsInv, HaveFile, Ofile
<1>5. RefsRight'
  <2>1. \A i \in Inums : Holders(i)' = Holders(i) /\ FilesOf(i)' = FilesOf(i)
    BY DEF Holders, Holds, Held, FilesOf
  <2> QED
    BY <1>1, <2>1 DEF RefsRight
<1>6. \A q \in Procs, i \in Inums : Freeing(q, i)' = Freeing(q, i)
  BY DEF Freeing
<1>7. \A q \in Procs : Locks(proc[q])' = Locks(proc[q]) /\ Settled(proc[q])' = Settled(proc[q])
  BY DEF Locks, Settled
<1>8. \A q \in Procs : Locks(proc[q]) \subseteq Inums /\ Settled(proc[q]) \subseteq Inums
  BY <1>1, Inodes DEF Types, PlaceInv
<1>9. LockInv'
  BY <1>1, <1>6, <1>7, <1>8 DEF LockInv
<1>10. SettledInv'
  BY <1>1, <1>6, <1>7, <1>8 DEF SettledInv
<1>11. \A i : Leaving(i)' = Leaving(i)
  BY DEF Leaving
<1>12. OrphanInv'
  BY <1>1, <1>11 DEF OrphanInv
<1> QED
  BY <1>2, <1>3, <1>4, <1>5, <1>9, <1>10, <1>12 DEF IInv

\* create finds the name, or allocates an inode and links it, in the locked directory.
LEMMA CreateStep ==
  ASSUME IInv, NEW p \in Procs, create(p)
  PROVE  IInv'
<1> DEFINE k == proc[p]  d == k.ip  there == dirlookup(d, Name(k))
           i == ialloc  dir == Type(k) = "T_DIR"
           n == [k EXCEPT !.at = "create_found", !.ip = there, !.puts = <<d>>]
           m == [k EXCEPT !.at = "created", !.ip = i, !.puts = <<d>>]
           new == [type |-> Type(k), nlink |-> 1,
                   data |-> <<>>, entries |-> IF dir THEN Dots(i, d) ELSE {}]
           g == ilock(icache, d, 0)
           h == iget(g, i)
<1>1. /\ ProcType(k) /\ Place(k) /\ k.at = "create" /\ k.puts = <<>> /\ k.put = "lock"
      /\ Inodes1(inode) /\ Slots(icache)
  BY Before DEF create, At
<1>2. /\ d \in Inums /\ k.dp = 0 /\ k.old = 0 /\ k.cwd \in Inums /\ k.prog \in DOMAIN Programs
      /\ k.at \notin {"unused", "exited"}
  BY <1>1, PlacesLink
<1>3. Unlocked(d) /\ UNCHANGED files
  BY DEF create
<1>4. \/ /\ Named(d, Name(k)) # {} /\ icache' = iget(g, there) /\ Is(p, n) /\ UNCHANGED inode
      \/ UNCHANGED <<inode, icache, proc>>
      \/ /\ FreeInums # {} /\ Unlocked(i)
         /\ \E e, v : inode' = [inode EXCEPT ![d].entries = @ \cup {<<e, i>>}, ![d].nlink = v,
                                             ![i] = new]
         /\ icache' = ilock(h, i, p) /\ Is(p, m)
  BY DEF create
<1>5. CASE Named(d, Name(k)) # {} /\ icache' = iget(g, there) /\ Is(p, n) /\ UNCHANGED inode
  <2>1. there \in Inums
    BY <1>1, <1>2, <1>5, Looked
  <2> HIDE DEF there, k
  <2>2. /\ DOMAIN n = ProcFields /\ n.at = "create_found" /\ n.ip = there /\ n.dp = 0 /\ n.old = 0
        /\ n.cwd = k.cwd /\ n.puts = <<d>> /\ n.put = "lock" /\ n.kids = k.kids
        /\ n.prog = k.prog /\ n.fds = k.fds /\ n.path = k.path
    BY <1>1, <1>2 DEF ProcFields, ProcType
  <2> HIDE DEF n, d
  <2>3. ProcType(n)
    BY <1>1, <1>2, <2>1, <2>2, NamesAssumption DEF ProcType, Inums
  <2>4. Place(n)
    BY <1>2, <2>1, <2>2, Tables DEF Place, HasIp, HasDp, HasOld, Waiting
  <2>5. /\ Slots(icache') /\ Gentle(p)
        /\ \A j \in Inums : icache'[j].ref = icache[j].ref + Is01(there, j)
    BY <1>1, <1>2, <1>3, <1>5, <2>1, LockGetStep
  <2>6. Secures(p, n)
    <3>1. Locks(n) = {} /\ Settled(n) = {}
      BY <2>2 DEF Locks, Settled
    <3> QED
      BY <3>1 DEF Secures
  <2>7. Balanced(k, n)
    <3>1. ASSUME NEW j \in Inums PROVE icache'[j].ref + Has(k, j) = icache[j].ref + Has(n, j)
      <4>1. /\ Has(k, j) = Is01(k.cwd, j) + Is01(d, j) + Is01(0, j) + Is01(0, j)
            /\ Has(n, j) = Is01(k.cwd, j) + Is01(there, j) + Is01(0, j) + Is01(0, j) + Is01(d, j)
        BY <1>1, <1>2, <2>2, HasNone, HasOne DEF d
      <4>2. /\ Is01(k.cwd, j) \in Nat /\ Is01(d, j) \in Nat /\ Is01(0, j) = 0 /\ Is01(there, j) \in Nat
            /\ icache[j].ref \in Nat
        BY <1>1, Zero, Is01Nat DEF Slots, SlotType
      <4> QED
        BY <2>5, <4>1, <4>2
    <3> QED
      BY <3>1 DEF Balanced
  <2>8. Inodes1(inode') /\ LinksKept(n)
    BY <1>1, <1>5, InodesSame, LinksSame
  <2> QED
    BY <1>1, <1>3, <1>5, <2>2, <2>3, <2>4, <2>5, <2>6, <2>7, <2>8, WalkKeeps DEF Calm, k
<1>6. CASE UNCHANGED <<inode, icache, proc>>
  BY <1>3, <1>6, StillStep
<1>7. CASE /\ FreeInums # {} /\ Unlocked(i)
           /\ \E e, v : inode' = [inode EXCEPT ![d].entries = @ \cup {<<e, i>>}, ![d].nlink = v,
                                               ![i] = new]
           /\ icache' = ilock(h, i, p) /\ Is(p, m)
  <2>1. i \in Inums /\ inode[i].type = "none"
    <3>1. FreeInums \in SUBSET Nat /\ FreeInums # {}
      BY <1>7, Tables DEF FreeInums
    <3>2. i \in FreeInums
      BY <3>1, Least DEF ialloc
    <3> QED
      BY <3>2 DEF FreeInums
  <2>2. /\ FreeInums # {} /\ Unlocked(i) /\ icache' = ilock(h, i, p) /\ Is(p, m)
        /\ \E e, v : inode' = [inode EXCEPT ![d].entries = @ \cup {<<e, i>>}, ![d].nlink = v,
                                            ![i] = new]
    BY <1>7
  <2>3. InodeType(new) /\ new.nlink = 1
    BY <1>2, <2>1 DEF InodeType, Dots
  <2> HIDE DEF i, k, new
  <2>4. /\ DOMAIN m = ProcFields /\ m.at = "created" /\ m.ip = i /\ m.dp = 0 /\ m.old = 0
        /\ m.cwd = k.cwd /\ m.puts = <<d>> /\ m.put = "lock" /\ m.kids = k.kids
        /\ m.prog = k.prog /\ m.fds = k.fds /\ m.path = k.path
    BY <1>1, <1>2 DEF ProcFields, ProcType
  <2> HIDE DEF m, d
  <2>5. ProcType(m)
    BY <1>1, <1>2, <2>1, <2>4, NamesAssumption DEF ProcType, Inums
  <2>6. Place(m)
    BY <1>2, <2>1, <2>4, Tables DEF Place, HasIp, HasDp, HasOld, Waiting
  <2>7. /\ Slots(g)
        /\ \A j \in Inums :
             /\ g[j].ref = icache[j].ref /\ g[j].lost = icache[j].lost
             /\ (g[j].valid <=> icache[j].valid \/ j = d)
             /\ g[j].lock = IF j = d THEN 0 ELSE icache[j].lock
    BY <1>1, <1>2, SlotsLocked
  <2> HIDE DEF g
  <2>8. /\ Slots(h)
        /\ \A j \in Inums :
             /\ h[j].ref = g[j].ref + Is01(i, j) /\ h[j].ref >= g[j].ref
             /\ h[j].valid = g[j].valid /\ h[j].lock = g[j].lock /\ h[j].lost = g[j].lost
    BY <2>1, <2>7, SlotsGot
  <2> HIDE DEF h
  <2>9. /\ Slots(icache')
        /\ \A j \in Inums :
             /\ icache'[j].ref = h[j].ref /\ icache'[j].lost = h[j].lost
             /\ (icache'[j].valid <=> h[j].valid \/ j = i)
             /\ icache'[j].lock = IF j = i THEN p ELSE h[j].lock
    BY <2>1, <2>2, <2>8, SlotsLocked
  <2>10. \A j \in Inums : /\ icache[j].ref \in Nat /\ g[j].valid \in BOOLEAN
                          /\ icache'[j].valid \in BOOLEAN
    BY <1>1, <2>7, <2>9 DEF Slots, SlotType
  <2>11. Gentle(p)
    BY <1>3, <2>2, <2>7, <2>8, <2>9, <2>10 DEF Gentle, Unlocked
  <2>12. Secures(p, m)
    <3>1. Locks(m) = {i} /\ Settled(m) = {}
      BY <2>4 DEF Locks, Settled
    <3> QED
      BY <2>1, <2>9, <3>1 DEF Secures
  <2>13. Balanced(k, m)
    <3>1. ASSUME NEW j \in Inums PROVE icache'[j].ref + Has(k, j) = icache[j].ref + Has(m, j)
      <4>1. /\ Has(k, j) = Is01(k.cwd, j) + Is01(d, j) + Is01(0, j) + Is01(0, j)
            /\ Has(m, j) = Is01(k.cwd, j) + Is01(i, j) + Is01(0, j) + Is01(0, j) + Is01(d, j)
        BY <1>1, <1>2, <2>4, HasNone, HasOne DEF d
      <4>2. /\ Is01(k.cwd, j) \in Nat /\ Is01(d, j) \in Nat /\ Is01(0, j) = 0 /\ Is01(i, j) \in Nat
        BY Zero, Is01Nat
      <4>3. icache'[j].ref = icache[j].ref + Is01(i, j)
        BY <2>7, <2>8, <2>9
      <4> QED
        BY <2>10, <4>1, <4>2, <4>3
    <3> QED
      BY <3>1 DEF Balanced
  <2>14. /\ Inodes1(inode') /\ inode'[i] = new /\ \A j \in Inums \ {d, i} : inode'[j] = inode[j]
    <3>1. PICK e : \E v : inode' = [inode EXCEPT ![d].entries = @ \cup {<<e, i>>}, ![d].nlink = v,
                                                 ![i] = new]
      BY <2>2
    <3>2. PICK v : inode' = [inode EXCEPT ![d].entries = @ \cup {<<e, i>>}, ![d].nlink = v, ![i] = new]
      BY <3>1
    <3>3. /\ DOMAIN inode' = Inums /\ \A j \in Inums \ {d, i} : inode'[j] = inode[j]
          /\ inode'[i] = new
      BY <1>1, <2>1, <3>2 DEF Inodes1
    <3>4. CASE d # i
      <4>1. inode'[d] = [inode[d] EXCEPT !.entries = @ \cup {<<e, i>>}, !.nlink = v]
        BY <1>1, <1>2, <3>2, <3>4 DEF Inodes1, InodeType
      <4>2. InodeType(inode'[d])
        BY <1>1, <1>2, <2>1, <4>1 DEF Inodes1, InodeType
      <4> QED
        BY <1>1, <2>3, <3>3, <4>2 DEF Inodes1
    <3>5. CASE d = i
      BY <1>1, <2>3, <3>3, <3>5 DEF Inodes1
    <3> QED
      BY <3>3, <3>4, <3>5
  <2>15. LinksKept(m)
    <3>1. Has(m, d) > 0
      <4>1. Has(m, d) = Is01(m.cwd, d) + Is01(m.ip, d) + Is01(m.dp, d) + Is01(m.old, d) + Is01(d, d)
        BY <1>2, <2>4, HasOne
      <4> QED
        BY <4>1, Is01Nat
    <3>2. icache'[d].valid
      BY <1>2, <2>7, <2>8, <2>9
    <3> QED
      BY <2>3, <2>14, <3>1, <3>2 DEF LinksKept
  <2> QED
    BY <1>1, <1>3, <2>2, <2>4, <2>5, <2>6, <2>9, <2>11, <2>12, <2>13, <2>14, <2>15, WalkKeeps DEF Calm, k
<1> QED
  BY <1>4, <1>5, <1>6, <1>7

\* A process takes a file that nobody has.
LEMMA FdsTaken ==
  ASSUME Types, Types', FdsInv, NEW p \in Procs, NEW f \in 1 .. NFILE, NEW x \in Variables,
         files[f].ref = 0, files'[f].ref = 1, \A g \in (1 .. NFILE) \ {f} : files'[g] = files[g],
         proc'[p].fds[x] = f,
         \A v \in Variables \ {x} : proc'[p].fds[v] = proc[p].fds[v],
         \A q \in Procs \ {p} : proc'[q].fds = proc[q].fds
  PROVE  FdsInv'
<1>1. \A q \in Procs : /\ DOMAIN proc[q].fds = Variables /\ DOMAIN proc'[q].fds = Variables
                       /\ "fd" \in Variables /\ "fd1" \in Variables
  BY DEF Types, ProcType, Variables
<1>2. \A g \in 1 .. NFILE : /\ IsFiniteSet(HaveFile(g)) /\ Cardinality(HaveFile(g)) \in Nat
                            /\ Cardinality(HaveFile(g)) <= files[g].ref
  <2>1. ASSUME NEW g \in 1 .. NFILE
        PROVE  IsFiniteSet(HaveFile(g)) /\ Cardinality(HaveFile(g)) \in Nat
    <3>1. HaveFile(g) \subseteq Procs
      BY DEF HaveFile
    <3> QED
      BY <3>1, Tables, FS_Subset, FS_CardinalityType
  <2> QED
    BY <2>1 DEF FdsInv
<1>3. HaveFile(f) = {}
  <2>1. Cardinality(HaveFile(f)) = 0
    BY <1>2
  <2> QED
    BY <1>2, <2>1, FS_EmptySet
<1>4. \A q \in Procs : \A v \in Variables : proc[q].fds[v] # f
  <2>1. f # 0
    OBVIOUS
  <2> QED
    BY <1>1, <1>3, <2>1 DEF HaveFile, Ofile
<1>5. \A q \in Procs : LET d == proc'[q].fds IN d["fd"] # 0 => d["fd"] # d["fd1"]
  <2>1. Variables = {"fd", "fd1"}
    BY DEF Variables
  <2> QED
    BY <1>1, <1>4, <2>1 DEF FdsInv
<1>6. ASSUME NEW g \in 1 .. NFILE PROVE Cardinality(HaveFile(g)') <= files'[g].ref
  <2>1. CASE g = f
    <3>1. HaveFile(f)' \subseteq {p}
      BY <1>1, <1>4 DEF HaveFile, Ofile
    <3>2. IsFiniteSet({p}) /\ Cardinality({p}) = 1
      BY FS_Singleton
    <3>3. Cardinality(HaveFile(f)') <= 1
      BY <3>1, <3>2, FS_Subset
    <3> QED
      BY <2>1, <3>3
  <2>2. CASE g # f
    <3>1. HaveFile(g)' \subseteq HaveFile(g)
      BY <1>1, <2>2 DEF HaveFile, Ofile
    <3>2. Cardinality(HaveFile(g)') <= Cardinality(HaveFile(g))
      BY <1>2, <3>1, FS_Subset
    <3>3. Cardinality(HaveFile(g)') \in Nat /\ files[g].ref \in Nat
      BY <1>2, <3>1, FS_Subset, FS_CardinalityType DEF Types, FileType
    <3> QED
      BY <1>2, <2>2, <3>2, <3>3
  <2> QED
    BY <2>1, <2>2
<1> QED
  BY <1>5, <1>6 DEF FdsInv

\* A process that has locked an inode, or can, reads it and lets it go.
LEMMA LoadStep ==
  ASSUME Slots(icache), NEW p, NEW i \in Inums, icache[i].lock \in {0, p}, icache' = ilock(icache, i, 0)
  PROVE  /\ Slots(icache') /\ Gentle(p) /\ \A j \in Inums : icache'[j].ref = icache[j].ref
<1>1. /\ Slots(icache')
      /\ \A j \in Inums :
           /\ icache'[j].ref = icache[j].ref /\ icache'[j].lost = icache[j].lost
           /\ (icache'[j].valid <=> icache[j].valid \/ j = i)
           /\ icache'[j].lock = IF j = i THEN 0 ELSE icache[j].lock
  BY SlotsLocked
<1>2. \A j \in Inums : icache[j].ref \in Nat /\ icache'[j].valid \in BOOLEAN
  BY <1>1 DEF Slots, SlotType
<1> QED
  BY <1>1, <1>2 DEF Gentle

\* open gets no file, or is refused.
LEMMA RefusedStep ==
  ASSUME IInv, NEW p \in Procs, UNCHANGED inode,
         proc[p].at \in {"created", "create_found", "open"}, proc[p].puts = <<>>,
         icache[proc[p].ip].lock \in {0, p},
         NEW r, Is(p, Ret(proc[p], r, <<proc[p].ip>>)), icache' = ilock(icache, proc[p].ip, 0),
         UNCHANGED files
  PROVE  IInv'
<1> DEFINE k == proc[p]  i == k.ip
<1>1. ProcType(k) /\ Place(k) /\ k.put = "lock" /\ Inodes1(inode) /\ Slots(icache)
  BY Before
<1>2. i \in Inums /\ k.dp = 0 /\ k.old = 0 /\ k.at \notin {"unused", "exited"}
  BY <1>1, PlacesLink
<1>3. Is(p, Ret(k, r, <<i>>)) /\ icache' = ilock(icache, i, 0) /\ icache[i].lock \in {0, p}
  OBVIOUS
<1>4. k.puts = <<>>
  OBVIOUS
<1> HIDE DEF i
<1>5. <<i>> \in Seq(Inums) /\ \A j \in Inums : Count(<<i>>, j) = Is01(i, j)
  BY <1>2, PutOne
<1>6. \A j \in Inums : Count(<<i>>, j) = Is01(k.ip, j) + Is01(k.dp, j) + Is01(k.old, j)
  BY <1>2, <1>5, Zero, Is01Nat DEF i
<1>7. Slots(icache') /\ Gentle(p) /\ \A j \in Inums : icache'[j].ref = icache[j].ref
  BY <1>1, <1>2, <1>3, LoadStep
<1>8. Inodes1(inode') /\ \A x : LinksKept(x)
  BY <1>1, InodesSame, LinksSame
<1> QED
  BY <1>1, <1>2, <1>3, <1>4, <1>5, <1>6, <1>7, <1>8, ReturnKeeps

\* open gets a file, which holds the inode from then on.
LEMMA MadeStep ==
  ASSUME IInv, NEW p \in Procs, UNCHANGED inode,
         proc[p].at \in {"created", "create_found", "open"}, proc[p].puts = <<>>,
         icache[proc[p].ip].lock \in {0, p}, Made(p, proc[p].ip)
  PROVE  IInv'
<1> DEFINE k == proc[p]  i == k.ip  unused == {f \in DOMAIN files : files[f].ref = 0}  f == Min(unused)
           new == [ref |-> 1, ip |-> i, off |-> 0, omode |-> Op(k).omode]
           m == Ret(k, "ok", <<>>)
           n == [m EXCEPT !.fds[Op(k).fd] = f]
<1>1. /\ ProcType(k) /\ Place(k) /\ k.put = "lock" /\ Inodes1(inode) /\ Slots(icache) /\ Files1(files)
      /\ Types /\ DOMAIN proc = Procs
  BY Before
<1>2. /\ i \in Inums /\ k.dp = 0 /\ k.old = 0 /\ k.at \notin {"unused", "exited"} /\ k.cwd \in Inums
      /\ k.prog \in DOMAIN Programs
  BY <1>1, PlacesLink
<1>3. icache' = ilock(icache, i, 0) /\ icache[i].lock \in {0, p} /\ k.puts = <<>>
  BY DEF Made
<1>4. \/ /\ Op(k).op = "open" /\ unused # {} /\ files' = [files EXCEPT ![f] = new] /\ Is(p, n)
      \/ /\ \E r : Is(p, Ret(k, r, <<i>>))
         /\ UNCHANGED files
  BY DEF Made
<1>5. CASE (\E r : Is(p, Ret(k, r, <<i>>))) /\ UNCHANGED files
  <2>1. PICK r : Is(p, Ret(k, r, <<i>>))
    BY <1>5
  <2> QED
    BY <1>3, <1>5, <2>1, RefusedStep
<1>6. CASE Op(k).op = "open" /\ unused # {} /\ files' = [files EXCEPT ![f] = new] /\ Is(p, n)
  <2>1. f \in 1 .. NFILE /\ files[f].ref = 0
    <3>1. unused \in SUBSET Nat /\ unused # {}
      BY <1>1, <1>6 DEF Files1
    <3> HIDE DEF unused
    <3>2. f \in unused
      BY <3>1, Least
    <3> QED
      BY <1>1, <3>2 DEF Files1, unused
  <2>2. /\ files' = [files EXCEPT ![f] = new] /\ Is(p, n) /\ Op(k).op = "open"
    BY <1>6
  <2> HIDE DEF f, k
  <2>3. FileType(new) /\ new.ref = 1 /\ new.ip = i
    BY <1>2 DEF FileType
  <2> HIDE DEF new, i
  <2>4. /\ Files1(files') /\ files'[f] = new /\ \A h \in (1 .. NFILE) \ {f} : files'[h] = files[h]
    BY <1>1, <2>1, <2>2, <2>3 DEF Files1
  <2>5. Returns(k, m, <<>>)
    <3>1. k.cwd # 0 /\ <<>> \in Seq(Inums)
      BY <1>2, Tables
    <3> QED
      BY <1>1, <1>2, <3>1, Returned, Zenon
  <2> HIDE DEF m
  <2>6. Op(k).fd \in Variables
    BY <1>2, <2>2, Arguments
  <2>7. /\ ProcType(m) /\ Place(m) /\ m.put = "lock" /\ m.at = "user" /\ m.cwd = k.cwd /\ m.ip = 0
        /\ m.dp = 0 /\ m.old = 0 /\ m.puts = <<>> /\ \A v \in Variables : m.fds[v] \in {0, k.fds[v]}
        /\ m.fds = [k.fds EXCEPT ![Op(k).fd] = 0]
    BY <2>2, <2>5 DEF Returns, Calm
  <2>8. DOMAIN m = ProcFields /\ m.fds \in [Variables -> 0 .. NFILE]
    BY <2>7 DEF ProcType
  <2>9. /\ DOMAIN n = ProcFields /\ n.at = "user" /\ n.ip = 0 /\ n.dp = 0 /\ n.old = 0
        /\ n.cwd = k.cwd /\ n.puts = <<>> /\ n.put = "lock" /\ n.kids = m.kids
        /\ n.prog = m.prog /\ n.path = m.path /\ n.fds = [m.fds EXCEPT ![Op(k).fd] = f]
    BY <2>7, <2>8 DEF ProcFields
  <2> HIDE DEF n
  <2>10. /\ n.fds \in [Variables -> 0 .. NFILE] /\ n.fds[Op(k).fd] = f
         /\ \A v \in Variables \ {Op(k).fd} : n.fds[v] = k.fds[v]
    <3>1. f \in 0 .. NFILE
      BY <2>1
    <3>2. k.fds \in [Variables -> 0 .. NFILE]
      BY <1>1 DEF ProcType
    <3> QED
      BY <2>6, <2>7, <2>8, <2>9, <3>1, <3>2
  <2>11. Calm(n)
    <3>1. ProcType(n)
      BY <2>7, <2>9, <2>10 DEF ProcType
    <3>2. Place(n)
      BY <1>2, <2>9, Tables DEF Place, HasIp, HasDp, HasOld, Waiting
    <3> QED
      BY <2>9, <3>1, <3>2 DEF Calm
  <2>12. Slots(icache') /\ Gentle(p) /\ \A j \in Inums : icache'[j].ref = icache[j].ref
    BY <1>1, <1>2, <1>3, LoadStep
  <2>13. Inodes1(inode') /\ LinksKept(n)
    BY <1>1, InodesSame, LinksSame
  <2>14. Secures(p, n)
    <3>1. Locks(n) = {} /\ Settled(n) = {}
      BY <2>9 DEF Locks, Settled
    <3> QED
      BY <3>1 DEF Secures
  <2>15. DOMAIN proc' = Procs /\ proc'[p] = n /\ \A q \in Procs \ {p} : proc'[q] = proc[q]
    BY <1>1, <2>2 DEF Is
  <2>16. FdsInv'
    <3>1. Types'
      <4>1. \A q \in Procs : ProcType(proc'[q])
        BY <1>1, <2>11, <2>15 DEF Calm, Types
      <4> QED
        BY <2>4, <2>12, <2>13, <2>15, <4>1, TypesNext
    <3>2. files'[f].ref = 1
      BY <2>3, <2>4
    <3>3. FdsInv
      BY DEF IInv
    <3>4. \A q \in Procs \ {p} : proc'[q].fds = proc[q].fds
      BY <2>15
    <3>5. proc'[p].fds[Op(k).fd] = f
      BY <2>10, <2>15
    <3>6. \A v \in Variables \ {Op(k).fd} : proc'[p].fds[v] = proc[p].fds[v]
      BY <2>10, <2>15 DEF k
    <3> QED
      BY <1>1, <2>1, <2>4, <2>6, <3>1, <3>2, <3>3, <3>4, <3>5, <3>6, FdsTaken
  <2>17. ASSUME NEW j \in Inums
         PROVE  icache'[j].ref + Has(k, j) + Cardinality(For(files, j)) =
                icache[j].ref + Has(n, j) + Cardinality(For(files', j))
    <3>1. Cardinality(For(files', j)) = Cardinality(For(files, j)) + Is01(i, j)
      BY <2>1, <2>3, <2>4, FileTaken
    <3>2. /\ Has(k, j) = Is01(k.cwd, j) + Is01(i, j) + Is01(0, j) + Is01(0, j)
          /\ Has(n, j) = Is01(k.cwd, j) + Is01(0, j) + Is01(0, j) + Is01(0, j)
      BY <1>2, <1>3, <2>9, HasNone DEF i
    <3>3. /\ Is01(k.cwd, j) \in Nat /\ Is01(i, j) \in Nat /\ Is01(0, j) = 0
          /\ icache[j].ref \in Nat /\ Cardinality(For(files, j)) \in Nat
      BY <1>1, Zero, Is01Nat, ForFinite DEF Slots, SlotType
    <3> QED
      BY <2>12, <3>1, <3>2, <3>3
  <2> QED
    BY <1>1, <2>2, <2>4, <2>11, <2>12, <2>13, <2>14, <2>16, <2>17, OneKeeps DEF k
<1> QED
  BY <1>4, <1>5, <1>6

\* create with the new inode and its directory both locked.
LEMMA CreatedStep ==
  ASSUME IInv, NEW p \in Procs, created(p)
  PROVE  IInv'
<1>1. /\ proc[p].at = "created" /\ proc[p].puts = <<>> /\ Made(p, proc[p].ip) /\ UNCHANGED inode
  BY DEF created, At
<1>2. icache[proc[p].ip].lock = p
  BY <1>1 DEF IInv, LockInv, Locks
<1> QED
  BY <1>1, <1>2, MadeStep

\* create with the inode that was there already.
LEMMA CreateFoundStep ==
  ASSUME IInv, NEW p \in Procs, create_found(p)
  PROVE  IInv'
<1>1. /\ proc[p].at = "create_found" /\ proc[p].puts = <<>> /\ icache[proc[p].ip].lock = 0
      /\ Made(p, proc[p].ip) \/ Refused(p, proc[p].ip)
      /\ UNCHANGED inode
  BY DEF create_found, At, Unlocked
<1>2. CASE Made(p, proc[p].ip)
  BY <1>1, <1>2, MadeStep
<1>3. CASE Refused(p, proc[p].ip)
  BY <1>1, <1>3, RefusedStep DEF Refused
<1> QED
  BY <1>1, <1>2, <1>3

\* sys_open gives the reference it has to the open file, or puts it.
LEMMA OpenStep ==
  ASSUME IInv, NEW p \in Procs, open(p)
  PROVE  IInv'
<1>1. /\ proc[p].at = "open" /\ proc[p].puts = <<>> /\ icache[proc[p].ip].lock = 0
      /\ Made(p, proc[p].ip) \/ Refused(p, proc[p].ip)
      /\ UNCHANGED inode
  BY DEF open, At, Unlocked
<1>2. CASE Made(p, proc[p].ip)
  BY <1>1, <1>2, MadeStep
<1>3. CASE Refused(p, proc[p].ip)
  BY <1>1, <1>3, RefusedStep DEF Refused
<1> QED
  BY <1>1, <1>2, <1>3

\* sys_chdir swaps the reference of the old cwd for that of the new one.
LEMMA ChdirStep ==
  ASSUME IInv, NEW p \in Procs, chdir(p)
  PROVE  IInv'
<1> DEFINE k == proc[p]  i == k.ip  m == Ret(k, "ok", <<k.cwd>>)  n == [m EXCEPT !.cwd = i]
<1>1. /\ ProcType(k) /\ Place(k) /\ k.at = "chdir" /\ k.puts = <<>> /\ k.put = "lock"
      /\ Inodes1(inode) /\ Slots(icache)
  BY Before DEF chdir, At
<1>2. /\ i \in Inums /\ k.dp = 0 /\ k.old = 0 /\ k.at \notin {"unused", "exited"} /\ k.cwd \in Inums
  BY <1>1, PlacesLink
<1>3. Unlocked(i) /\ icache' = ilock(icache, i, 0) /\ UNCHANGED <<inode, files>>
  BY DEF chdir
<1>4. Is(p, n) \/ Is(p, Ret(k, "fail", <<i>>))
  BY DEF chdir
<1> HIDE DEF k, i
<1>5. Slots(icache') /\ Gentle(p) /\ \A j \in Inums : icache'[j].ref = icache[j].ref
  BY <1>1, <1>2, <1>3, LockStep
<1>6. Inodes1(inode') /\ \A x : LinksKept(x)
  BY <1>1, <1>3, InodesSame, LinksSame
<1>7. CASE Is(p, Ret(k, "fail", <<i>>))
  <2>1. <<i>> \in Seq(Inums) /\ \A j \in Inums : Count(<<i>>, j) = Is01(i, j)
    BY <1>2, PutOne
  <2>2. \A j \in Inums : Count(<<i>>, j) = Is01(k.ip, j) + Is01(k.dp, j) + Is01(k.old, j)
    BY <1>2, <2>1, Zero, Is01Nat DEF i
  <2> QED
    BY <1>1, <1>2, <1>3, <1>5, <1>6, <1>7, <2>1, <2>2, ReturnKeeps DEF k
<1>8. CASE Is(p, n)
  <2>1. <<k.cwd>> \in Seq(Inums) /\ k.cwd # 0 /\ i # 0
    BY <1>2, Tables
  <2>2. Returns(k, m, <<k.cwd>>)
    BY <1>1, <1>2, <2>1, Returned, Zenon
  <2> HIDE DEF m
  <2>3. /\ ProcType(m) /\ m.put = "lock" /\ m.at = "user" /\ m.cwd = k.cwd /\ m.ip = 0
        /\ m.dp = 0 /\ m.old = 0 /\ m.puts = <<k.cwd>> /\ \A v \in Variables : m.fds[v] \in {0, k.fds[v]}
    BY <2>2 DEF Returns, Calm
  <2>4. DOMAIN m = ProcFields
    BY <2>3 DEF ProcType
  <2>5. /\ DOMAIN n = ProcFields /\ n.at = "user" /\ n.ip = 0 /\ n.dp = 0 /\ n.old = 0
        /\ n.cwd = i /\ n.puts = <<k.cwd>> /\ n.put = "lock" /\ n.kids = m.kids
        /\ n.prog = m.prog /\ n.path = m.path /\ n.fds = m.fds
    BY <2>3, <2>4 DEF ProcFields
  <2> HIDE DEF n
  <2>6. ProcType(n)
    BY <1>2, <2>3, <2>5, NamesAssumption DEF ProcType, Inums
  <2>7. Place(n)
    BY <2>1, <2>5 DEF Place, HasIp, HasDp, HasOld, Waiting
  <2>8. Secures(p, n)
    <3>1. Locks(n) = {} /\ Settled(n) = {}
      BY <2>5 DEF Locks, Settled
    <3> QED
      BY <3>1 DEF Secures
  <2>9. Balanced(k, n)
    <3>1. ASSUME NEW j \in Inums PROVE Has(k, j) = Has(n, j)
      <4>1. /\ Has(k, j) = Is01(k.cwd, j) + Is01(i, j) + Is01(0, j) + Is01(0, j)
            /\ Has(n, j) = Is01(i, j) + Is01(0, j) + Is01(0, j) + Is01(0, j) + Is01(k.cwd, j)
        BY <1>1, <1>2, <2>5, HasNone, HasOne DEF i
      <4>2. Is01(k.cwd, j) \in Nat /\ Is01(i, j) \in Nat /\ Is01(0, j) = 0
        BY Zero, Is01Nat
      <4> QED
        BY <4>1, <4>2
    <3> QED
      BY <1>5, <3>1 DEF Balanced
  <2>10. Calm(n) /\ \A v \in Variables : n.fds[v] \in {0, k.fds[v]}
    BY <2>3, <2>5, <2>6, <2>7 DEF Calm
  <2> QED
    BY <1>1, <1>3, <1>5, <1>6, <1>8, <2>8, <2>9, <2>10, WalkKeeps DEF k
<1> QED
  BY <1>4, <1>7, <1>8

----------------------------------------------------------------------------
(* read, write and the console.                                             *)

\* A descriptor names a file that is counted, and its inode.
LEMMA OpenFile ==
  ASSUME IInv, NEW p \in Procs, NEW v \in Variables, proc[p].fds[v] # 0
  PROVE  LET f == proc[p].fds[v] IN
         f \in 1 .. NFILE /\ files[f].ref > 0 /\ files[f].ip \in Inums
<1> DEFINE f == proc[p].fds[v]
<1>1. /\ Types /\ ProcType(proc[p]) /\ Files1(files)
  BY Before
<1>2. proc[p].fds \in [Variables -> 0 .. NFILE] /\ NFILE \in Nat
  BY <1>1, NamesAssumption DEF ProcType
<1>3. f \in 1 .. NFILE
  BY <1>2
<1>4. p \in HaveFile(f)
  BY <1>2, <1>3 DEF HaveFile, Ofile
<1> HIDE DEF f
<1>5. HaveFile(f) \subseteq Procs
  BY DEF HaveFile
<1>6. IsFiniteSet(HaveFile(f)) /\ Cardinality(HaveFile(f)) \in Nat
  BY <1>5, Tables, FS_Subset, FS_CardinalityType
<1>7. Cardinality(HaveFile(f)) # 0
  BY <1>4, <1>6, FS_EmptySet
<1>8. Cardinality(HaveFile(f)) <= files[f].ref /\ FileType(files[f])
  BY <1>1, <1>3 DEF IInv, FdsInv, Files1
<1>9. files[f].ref > 0
  BY <1>6, <1>7, <1>8 DEF FileType
<1> QED
  BY <1>3, <1>8, <1>9 DEF FileType, f

\* A call that reads or writes a file, or gives up: it holds nothing else.
LEMMA FileCallKeeps ==
  ASSUME IInv, NEW p \in Procs, proc[p].at = "user" \/ proc[p].at = "console_end",
         proc[p].puts = <<>>, NEW r, Is(p, Ret(proc[p], r, <<>>)),
         Inodes1(inode'), \A x : LinksKept(x), Slots(icache'), Gentle(p),
         \A i \in Inums : icache'[i].ref = icache[i].ref, UNCHANGED files \/ FilesStay
  PROVE  IInv'
<1> DEFINE k == proc[p]
<1>1. ProcType(k) /\ Place(k) /\ k.put = "lock"
  BY Before
<1>2. k.ip = 0 /\ k.dp = 0 /\ k.old = 0 /\ k.at \notin {"unused", "exited"}
  BY <1>1 DEF Place, HasIp, HasDp, HasOld
<1>3. \A i \in Inums : Count(<<>>, i) = Is01(k.ip, i) + Is01(k.dp, i) + Is01(k.old, i)
  BY <1>2, Zero
<1>4. <<>> \in Seq(Inums)
  OBVIOUS
<1> QED
  BY <1>2, <1>3, <1>4, ReturnKeeps

\* The cache when a call does not touch it.
LEMMA CacheSame ==
  ASSUME Slots(icache), UNCHANGED icache
  PROVE  Slots(icache') /\ (\A p : Gentle(p)) /\ \A i \in Inums : icache'[i].ref = icache[i].ref
BY DEF Gentle, Slots, SlotType

\* sys_write moves no reference.
LEMMA WriteStep ==
  ASSUME IInv, NEW p \in Procs, write(p)
  PROVE  IInv'
<1> DEFINE k == proc[p]  f == k.fds[Op(k).fd]  i == File(k).ip
<1>1. /\ ProcType(k) /\ Place(k) /\ k.at = "user" /\ k.puts = <<>> /\ Op(k).op = "write"
      /\ Inodes1(inode) /\ Slots(icache) /\ Files1(files)
  BY Before DEF write, Calls, At
<1>2. k.prog \in DOMAIN Programs /\ Op(k).fd \in Variables
  BY <1>1, Arguments DEF ProcType
<1>3. \/ Is(p, Ret(k, "fail", <<>>)) /\ UNCHANGED <<inode, icache, files>>
      \/ /\ f # 0 /\ Unlocked(i) /\ icache' = ilock(icache, i, 0)
         /\ \E v : inode' = [inode EXCEPT ![i].data = v]
         /\ \E v : files' = [files EXCEPT ![f].off = v]
         /\ Is(p, Ret(k, "ok", <<>>))
  BY DEF write, Open
<1>4. CASE Is(p, Ret(k, "fail", <<>>)) /\ UNCHANGED <<inode, icache, files>>
  <2>1. Inodes1(inode') /\ \A x : LinksKept(x)
    BY <1>1, <1>4, InodesSame, LinksSame
  <2>2. Slots(icache') /\ Gentle(p) /\ \A j \in Inums : icache'[j].ref = icache[j].ref
    BY <1>1, <1>4, CacheSame
  <2> QED
    BY <1>1, <1>4, <2>1, <2>2, FileCallKeeps
<1>5. CASE /\ f # 0 /\ Unlocked(i) /\ icache' = ilock(icache, i, 0)
           /\ \E v : inode' = [inode EXCEPT ![i].data = v]
           /\ \E v : files' = [files EXCEPT ![f].off = v]
           /\ Is(p, Ret(k, "ok", <<>>))
  <2>1. i \in Inums /\ f \in 1 .. NFILE
    BY <1>2, <1>5, OpenFile DEF File
  <2>2. Slots(icache') /\ Gentle(p) /\ \A j \in Inums : icache'[j].ref = icache[j].ref
    BY <1>1, <1>5, <2>1, LockStep
  <2> HIDE DEF i, f
  <2>3. PICK v : inode' = [inode EXCEPT ![i].data = v]
    BY <1>5
  <2>4. /\ DOMAIN inode' = Inums /\ \A j \in Inums : inode'[j] = IF j = i THEN [inode[i] EXCEPT !.data = v] ELSE inode[j]
    BY <1>1, <2>1, <2>3 DEF Inodes1
  <2>5. \A j \in Inums : /\ InodeType(inode'[j])
                         /\ inode'[j].type = inode[j].type /\ inode'[j].nlink = inode[j].nlink
    BY <1>1, <2>4 DEF Inodes1, InodeType
  <2>6. Inodes1(inode') /\ \A x : LinksKept(x)
    BY <2>4, <2>5 DEF Inodes1, LinksKept
  <2>7. FilesStay
    <3>1. PICK o : files' = [files EXCEPT ![f].off = o]
      BY <1>5
    <3>2. DOMAIN files' = 1 .. NFILE /\ \A g \in 1 .. NFILE : files'[g] = IF g = f THEN [files[f] EXCEPT !.off = o] ELSE files[g]
      BY <1>1, <2>1, <3>1 DEF Files1
    <3>3. \A g \in 1 .. NFILE : FileType(files'[g]) /\ files'[g].ref = files[g].ref /\ files'[g].ip = files[g].ip
      BY <1>1, <3>2 DEF Files1, FileType
    <3> QED
      BY <3>2, <3>3 DEF FilesStay, Files1
  <2> QED
    BY <1>1, <1>5, <2>2, <2>6, <2>7, FileCallKeeps
<1> QED
  BY <1>3, <1>4, <1>5

\* sys_read moves no reference.
LEMMA ReadStep ==
  ASSUME IInv, NEW p \in Procs, read(p)
  PROVE  IInv'
<1> DEFINE k == proc[p]  f == k.fds[Op(k).fd]  i == File(k).ip
<1>1. /\ ProcType(k) /\ Place(k) /\ k.at = "user" /\ k.puts = <<>> /\ Op(k).op = "read"
      /\ Inodes1(inode) /\ Slots(icache) /\ Files1(files)
  BY Before DEF read, Calls, At
<1>2. k.prog \in DOMAIN Programs /\ Op(k).fd \in Variables
  BY <1>1, Arguments DEF ProcType
<1>3. /\ \/ Is(p, Ret(k, "fail", <<>>)) /\ UNCHANGED <<icache, files>>
         \/ /\ f # 0 /\ Unlocked(i) /\ icache' = ilock(icache, i, 0)
            /\ \E v : files' = [files EXCEPT ![f].off = v]
            /\ \E r : Is(p, Ret(k, r, <<>>))
      /\ UNCHANGED inode
  BY DEF read, Open
<1>4. Inodes1(inode') /\ \A x : LinksKept(x)
  BY <1>1, <1>3, InodesSame, LinksSame
<1>5. CASE Is(p, Ret(k, "fail", <<>>)) /\ UNCHANGED <<icache, files>>
  <2>1. Slots(icache') /\ Gentle(p) /\ \A j \in Inums : icache'[j].ref = icache[j].ref
    BY <1>1, <1>5, CacheSame
  <2> QED
    BY <1>1, <1>4, <1>5, <2>1, FileCallKeeps
<1>6. CASE /\ f # 0 /\ Unlocked(i) /\ icache' = ilock(icache, i, 0)
           /\ \E v : files' = [files EXCEPT ![f].off = v]
           /\ \E r : Is(p, Ret(k, r, <<>>))
  <2>1. i \in Inums /\ f \in 1 .. NFILE
    BY <1>2, <1>6, OpenFile DEF File
  <2>2. Slots(icache') /\ Gentle(p) /\ \A j \in Inums : icache'[j].ref = icache[j].ref
    BY <1>1, <1>6, <2>1, LockStep
  <2> HIDE DEF i, f
  <2>3. FilesStay
    <3>1. PICK o : files' = [files EXCEPT ![f].off = o]
      BY <1>6
    <3>2. DOMAIN files' = 1 .. NFILE /\ \A g \in 1 .. NFILE : files'[g] = IF g = f THEN [files[f] EXCEPT !.off = o] ELSE files[g]
      BY <1>1, <2>1, <3>1 DEF Files1
    <3>3. \A g \in 1 .. NFILE : FileType(files'[g]) /\ files'[g].ref = files[g].ref /\ files'[g].ip = files[g].ip
      BY <1>1, <3>2 DEF Files1, FileType
    <3> QED
      BY <3>2, <3>3 DEF FilesStay, Files1
  <2>4. PICK r : Is(p, Ret(k, r, <<>>))
    BY <1>6
  <2> QED
    BY <1>1, <1>4, <2>2, <2>3, <2>4, FileCallKeeps
<1> QED
  BY <1>3, <1>5, <1>6

\* A step that leaves all but the place of a process, and what it has read, as they are.
LEMMA PlaceKeeps ==
  ASSUME IInv, NEW p \in Procs, proc[p].puts = <<>>, proc[p].at \in Waiting \cup {"user"},
         NEW a \in Waiting, NEW x, Is(p, [proc[p] EXCEPT !.at = a, !.got = x]),
         Op(proc[p]).op \in {"read", "write"}, proc[p].fds[Op(proc[p]).fd] # 0,
         UNCHANGED <<inode, files>>, Slots(icache'), Gentle(p),
         \A i \in Inums : icache'[i].ref = icache[i].ref
  PROVE  IInv'
<1> DEFINE k == proc[p]  n == [k EXCEPT !.at = a, !.got = x]
<1>1. ProcType(k) /\ Place(k) /\ k.put = "lock" /\ Inodes1(inode) /\ Slots(icache)
  BY Before
<1>2. /\ Is(p, n) /\ k.puts = <<>> /\ k.at \in Waiting \cup {"user"}
      /\ Op(k).op \in {"read", "write"} /\ k.fds[Op(k).fd] # 0
  OBVIOUS
<1>3. /\ k.ip = 0 /\ k.dp = 0 /\ k.old = 0 /\ k.cwd # 0 /\ k.prog \in DOMAIN Programs
      /\ DOMAIN k = ProcFields
  BY <1>1, <1>2 DEF Place, HasIp, HasDp, HasOld, Waiting, ProcType
<1> HIDE DEF k
<1>4. /\ DOMAIN n = ProcFields /\ n.at = a /\ n.ip = 0 /\ n.dp = 0 /\ n.old = 0
      /\ n.cwd = k.cwd /\ n.puts = <<>> /\ n.put = "lock" /\ n.kids = k.kids /\ n.pc = k.pc
      /\ n.prog = k.prog /\ n.path = k.path /\ n.fds = k.fds
  BY <1>1, <1>2, <1>3 DEF ProcFields
<1> HIDE DEF n
<1>5. Op(n) = Op(k)
  BY <1>4 DEF Op
<1>6. ProcType(n)
  BY <1>1, <1>3, <1>4, NamesAssumption DEF ProcType, Waiting
<1>7. Place(n)
  BY <1>2, <1>3, <1>4, <1>5 DEF Place, HasIp, HasDp, HasOld, Waiting
<1>8. Secures(p, n)
  <2>1. Locks(n) = {} /\ Settled(n) = {}
    BY <1>4 DEF Locks, Settled, Waiting
  <2> QED
    BY <2>1 DEF Secures
<1>9. Balanced(k, n)
  <2>1. \A j \in Inums : Has(n, j) = Has(k, j)
    BY <1>2, <1>3, <1>4 DEF Has
  <2> QED
    BY <2>1 DEF Balanced
<1>10. Inodes1(inode') /\ LinksKept(n)
  BY <1>1, InodesSame, LinksSame
<1>11. Calm(n) /\ \A v \in Variables : n.fds[v] \in {0, k.fds[v]}
  BY <1>4, <1>6, <1>7 DEF Calm
<1> QED
  BY <1>1, <1>2, <1>8, <1>9, <1>10, <1>11, WalkKeeps DEF k

\* consoleread begins, with the inode of the console unlocked.
LEMMA ConsoleStep ==
  ASSUME IInv, NEW p \in Procs, console(p)
  PROVE  IInv'
<1> DEFINE k == proc[p]  i == File(k).ip
           a == IF Op(k).op = "read" THEN "consoleread" ELSE "console_end"
<1>1. /\ ProcType(k) /\ Place(k) /\ k.at = "user" /\ k.puts = <<>> /\ Op(k).op \in {"read", "write"}
      /\ Inodes1(inode) /\ Slots(icache) /\ Files1(files)
  BY Before DEF console, At
<1>2. /\ k.prog \in DOMAIN Programs /\ Op(k).fd \in Variables /\ k.fds[Op(k).fd] # 0
      /\ UNCHANGED <<inode, files>> /\ i \in Inums
  <2>1. k.prog \in DOMAIN Programs /\ Op(k).fd \in Variables
    BY <1>1, Arguments DEF ProcType
  <2>2. k.fds[Op(k).fd] # 0 /\ UNCHANGED <<inode, files>>
    BY DEF console, Device, Open
  <2> QED
    BY <2>1, <2>2, OpenFile DEF File
<1>3. \/ Is(p, Ret(k, "fail", <<>>)) /\ UNCHANGED icache
      \/ /\ Unlocked(i) /\ icache' = ilock(icache, i, 0) /\ Is(p, [k EXCEPT !.at = a])
  BY DEF console
<1>4. Inodes1(inode') /\ \A x : LinksKept(x)
  BY <1>1, <1>2, InodesSame, LinksSame
<1>5. CASE Is(p, Ret(k, "fail", <<>>)) /\ UNCHANGED icache
  <2>1. Slots(icache') /\ Gentle(p) /\ \A j \in Inums : icache'[j].ref = icache[j].ref
    BY <1>1, <1>5, CacheSame
  <2> QED
    BY <1>1, <1>2, <1>4, <1>5, <2>1, FileCallKeeps
<1>6. CASE Unlocked(i) /\ icache' = ilock(icache, i, 0) /\ Is(p, [k EXCEPT !.at = a])
  <2>1. Slots(icache') /\ Gentle(p) /\ \A j \in Inums : icache'[j].ref = icache[j].ref
    BY <1>1, <1>2, <1>6, LockStep
  <2>2. a \in Waiting
    BY DEF Waiting
  <2> HIDE DEF a
  <2>3. [k EXCEPT !.at = a] = [k EXCEPT !.at = a, !.got = k.got]
    BY <1>1 DEF ProcType, ProcFields
  <2>4. Is(p, [k EXCEPT !.at = a, !.got = k.got])
    BY <1>6, <2>3
  <2> QED
    BY <1>1, <1>2, <2>1, <2>2, <2>4, PlaceKeeps
<1> QED
  BY <1>3, <1>5, <1>6

\* consoleread takes characters, or sleeps.
LEMMA ConsolereadStep ==
  ASSUME IInv, NEW p \in Procs, consoleread(p)
  PROVE  IInv'
<1> DEFINE k == proc[p]
<1>1. /\ ProcType(k) /\ Place(k) /\ k.at = "consoleread" /\ k.puts = <<>>
      /\ Inodes1(inode) /\ Slots(icache) /\ Files1(files)
  BY Before DEF consoleread, At
<1>2. Op(k).op \in {"read", "write"} /\ k.fds[Op(k).fd] # 0 /\ k.at \in Waiting
  BY <1>1 DEF Place, Waiting
<1>3. \E x : \E a \in {"console_end", "console_sleep"} : Is(p, [k EXCEPT !.at = a, !.got = x])
  <2> DEFINE taken == Tty!Taken(input, Op(k).n - Len(k.got))
             end == taken # <<>> /\ Last(taken) \in {"\n", "^D"}
             eof == end /\ Last(taken) = "^D"
             got == k.got \o (IF eof THEN Front(taken) ELSE taken)
             a == IF end \/ Len(got) = Op(k).n THEN "console_end" ELSE "console_sleep"
  <2>1. Is(p, [k EXCEPT !.got = got, !.at = a])
    BY DEF consoleread
  <2>2. a \in {"console_end", "console_sleep"}
    OBVIOUS
  <2> HIDE DEF got, a
  <2>3. [k EXCEPT !.got = got, !.at = a] = [k EXCEPT !.at = a, !.got = got]
    BY <1>1 DEF ProcType, ProcFields
  <2> QED
    BY <2>1, <2>2, <2>3
<1>4. PICK x : \E a \in {"console_end", "console_sleep"} : Is(p, [k EXCEPT !.at = a, !.got = x])
  BY <1>3
<1>5. PICK a \in {"console_end", "console_sleep"} : Is(p, [k EXCEPT !.at = a, !.got = x])
  BY <1>4
<1>6. UNCHANGED <<inode, icache, files>> /\ a \in Waiting
  BY DEF consoleread, Waiting
<1>7. Slots(icache') /\ Gentle(p) /\ \A j \in Inums : icache'[j].ref = icache[j].ref
  BY <1>1, <1>6, CacheSame
<1> QED
  BY <1>1, <1>2, <1>5, <1>6, <1>7, PlaceKeeps

\* consoleread returns, with the inode locked again.
LEMMA ConsoleEndStep ==
  ASSUME IInv, NEW p \in Procs, console_end(p)
  PROVE  IInv'
<1> DEFINE k == proc[p]  i == File(k).ip
<1>1. /\ ProcType(k) /\ Place(k) /\ k.at = "console_end" /\ k.puts = <<>>
      /\ Inodes1(inode) /\ Slots(icache) /\ Files1(files)
  BY Before DEF console_end, At
<1>2. Op(k).op \in {"read", "write"} /\ k.fds[Op(k).fd] # 0
  BY <1>1 DEF Place, Waiting
<1>3. i \in Inums
  <2>1. k.prog \in DOMAIN Programs /\ Op(k).fd \in Variables
    BY <1>1, <1>2, Arguments DEF ProcType
  <2> QED
    BY <1>2, <2>1, OpenFile DEF File
<1>4. /\ Unlocked(i) /\ icache' = ilock(icache, i, 0) /\ UNCHANGED <<inode, files>>
      /\ \E r : Is(p, Ret(k, r, <<>>))
  BY DEF console_end
<1>5. PICK r : Is(p, Ret(k, r, <<>>))
  BY <1>4
<1>6. Inodes1(inode') /\ \A x : LinksKept(x)
  BY <1>1, <1>4, InodesSame, LinksSame
<1>7. Slots(icache') /\ Gentle(p) /\ \A j \in Inums : icache'[j].ref = icache[j].ref
  BY <1>1, <1>3, <1>4, LockStep
<1> QED
  BY <1>1, <1>4, <1>5, <1>6, <1>7, FileCallKeeps

----------------------------------------------------------------------------
(* close and exit.                                                          *)

\* A file with one descriptor less.
LEMMA ClosedOne ==
  ASSUME NEW f, FileType(files[f]), files[f].ref > 0
  PROVE  FileType(Closed(f)) /\ Closed(f).ref = files[f].ref - 1
<1>1. CASE files[f].ref = 1
  <2>1. Closed(f) = NoFile
    BY <1>1 DEF Closed
  <2>2. NoFile.ref = 0 /\ DOMAIN NoFile = {"ref", "ip", "off", "omode"}
    BY DEF NoFile
  <2> QED
    BY <1>1, <2>1, <2>2 DEF FileType
<1>2. CASE files[f].ref # 1
  <2>1. Closed(f) = [files[f] EXCEPT !.ref = @ - 1]
    BY <1>2 DEF Closed
  <2> QED
    BY <1>2, <2>1 DEF FileType
<1> QED
  BY <1>1, <1>2

\* A process closes files that it has.
LEMMA FdsClosed ==
  ASSUME Types, Types', FdsInv, NEW p \in Procs, NEW F \in SUBSET (1 .. NFILE),
         F \subseteq Ofile(proc[p]),
         \A f \in 1 .. NFILE : files'[f] = IF f \in F THEN Closed(f) ELSE files[f],
         \A v \in Variables :
           proc'[p].fds[v] = IF proc[p].fds[v] \in F THEN 0 ELSE proc[p].fds[v],
         \A q \in Procs \ {p} : proc'[q].fds = proc[q].fds
  PROVE  FdsInv'
<1>1. \A q \in Procs : /\ DOMAIN proc[q].fds = Variables /\ DOMAIN proc'[q].fds = Variables
                       /\ "fd" \in Variables /\ "fd1" \in Variables
  BY DEF Types, ProcType, Variables
<1>2. \A g \in 1 .. NFILE : /\ IsFiniteSet(HaveFile(g)) /\ Cardinality(HaveFile(g)) \in Nat
                            /\ Cardinality(HaveFile(g)) <= files[g].ref /\ files[g].ref \in Nat
                            /\ FileType(files[g])
  <2>1. ASSUME NEW g \in 1 .. NFILE
        PROVE  IsFiniteSet(HaveFile(g)) /\ Cardinality(HaveFile(g)) \in Nat
    <3>1. HaveFile(g) \subseteq Procs
      BY DEF HaveFile
    <3> QED
      BY <3>1, Tables, FS_Subset, FS_CardinalityType
  <2> QED
    BY <2>1 DEF FdsInv, Types, FileType
<1>3. \A q \in Procs : LET d == proc'[q].fds IN d["fd"] # 0 => d["fd"] # d["fd1"]
  <2>1. \A q \in Procs : LET d == proc[q].fds IN d["fd"] # 0 => d["fd"] # d["fd1"]
    BY DEF FdsInv
  <2>2. \A q \in Procs \ {p} : LET d == proc'[q].fds IN d["fd"] # 0 => d["fd"] # d["fd1"]
    BY <2>1
  <2>3. LET d == proc'[p].fds IN d["fd"] # 0 => d["fd"] # d["fd1"]
    BY <1>1, <2>1
  <2> QED
    BY <2>2, <2>3
<1>4. ASSUME NEW g \in 1 .. NFILE PROVE Cardinality(HaveFile(g)') <= files'[g].ref
  <2>1. CASE g \in F
    <3>1. p \in HaveFile(g)
      BY <2>1 DEF HaveFile
    <3>2. HaveFile(g)' \subseteq HaveFile(g) \ {p}
      BY <1>1, <2>1 DEF HaveFile, Ofile
    <3>3. Cardinality(HaveFile(g) \ {p}) = Cardinality(HaveFile(g)) - 1
      BY <1>2, <3>1, FS_RemoveElement
    <3>4. IsFiniteSet(HaveFile(g) \ {p})
      BY <1>2, FS_Difference
    <3>5. Cardinality(HaveFile(g)') <= Cardinality(HaveFile(g) \ {p})
      BY <3>2, <3>4, FS_Subset
    <3>6. Cardinality(HaveFile(g)') \in Nat
      BY <3>2, <3>4, FS_Subset, FS_CardinalityType
    <3>7. Cardinality(HaveFile(g)) # 0
      BY <1>2, <3>1, FS_EmptySet
    <3>8. files'[g].ref = files[g].ref - 1
      <4>1. files[g].ref > 0
        BY <1>2, <3>7
      <4> QED
        BY <1>2, <2>1, <4>1, ClosedOne
    <3> QED
      BY <1>2, <3>3, <3>5, <3>6, <3>8
  <2>2. CASE g \notin F
    <3>1. HaveFile(g)' \subseteq HaveFile(g)
      BY <1>1, <2>2 DEF HaveFile, Ofile
    <3>2. Cardinality(HaveFile(g)') <= Cardinality(HaveFile(g))
      BY <1>2, <3>1, FS_Subset
    <3>3. Cardinality(HaveFile(g)') \in Nat
      BY <1>2, <3>1, FS_Subset, FS_CardinalityType
    <3> QED
      BY <1>2, <2>2, <3>2, <3>3
  <2> QED
    BY <2>1, <2>2
<1> QED
  BY <1>3, <1>4 DEF FdsInv

\* What a process has open is counted.
LEMMA OpenFiles ==
  ASSUME IInv, NEW p \in Procs
  PROVE  /\ Ofile(proc[p]) \in SUBSET (1 .. NFILE)
         /\ \A f \in Ofile(proc[p]) : files[f].ref > 0 /\ files[f].ip \in Inums
<1>1. ProcType(proc[p])
  BY Before
<1>2. ASSUME NEW f \in Ofile(proc[p])
      PROVE  f \in 1 .. NFILE /\ files[f].ref > 0 /\ files[f].ip \in Inums
  <2>1. PICK v \in Variables : f = proc[p].fds[v] /\ f # 0
    BY <1>1 DEF Ofile, ProcType
  <2> QED
    BY <2>1, OpenFile
<1> QED
  BY <1>2

\* Process p, which holds nothing but its cwd, closes the files of F and gives them up.
LEMMA ClosingKeeps ==
  ASSUME IInv, NEW p \in Procs, proc[p].at = "user", proc[p].puts = <<>>,
         NEW F \in SUBSET (1 .. NFILE), F \subseteq Ofile(proc[p]),
         DOMAIN files' = 1 .. NFILE,
         \A f \in 1 .. NFILE : files'[f] = IF f \in F THEN Closed(f) ELSE files[f],
         NEW n, Is(p, n), Calm(n), Locks(n) = {}, Settled(n) = {}, UNCHANGED <<inode, icache>>,
         \A v \in Variables : n.fds[v] = IF proc[p].fds[v] \in F THEN 0 ELSE proc[p].fds[v],
         \A i \in Inums : Has(n, i) = Is01(proc[p].cwd, i) + Count(Puts(F), i)
  PROVE  IInv'
<1> DEFINE k == proc[p]
<1>1. /\ ProcType(k) /\ Place(k) /\ Inodes1(inode) /\ Slots(icache) /\ Files1(files)
      /\ Types /\ DOMAIN proc = Procs /\ k.put = "lock" /\ k.at = "user" /\ k.puts = <<>>
  BY Before
<1>2. \A f \in F : files[f].ref > 0 /\ f \in 1 .. NFILE
  BY OpenFiles
<1>3. Files1(files')
  <2>1. \A f \in 1 .. NFILE : FileType(files'[f])
    BY <1>1, <1>2, ClosedOne DEF Files1
  <2> QED
    BY <2>1 DEF Files1
<1>4. Slots(icache') /\ Gentle(p) /\ \A j \in Inums : icache'[j].ref = icache[j].ref
  BY <1>1, CacheSame
<1>5. Inodes1(inode') /\ LinksKept(n)
  BY <1>1, InodesSame, LinksSame
<1>6. Secures(p, n)
  BY DEF Secures
<1>7. DOMAIN proc' = Procs /\ proc'[p] = n /\ \A q \in Procs \ {p} : proc'[q] = proc[q]
  BY <1>1 DEF Is
<1>8. FdsInv'
  <2>1. Types'
    <3>1. \A q \in Procs : ProcType(proc'[q])
      BY <1>1, <1>7 DEF Calm, Types
    <3> QED
      BY <1>3, <1>4, <1>5, <1>7, <3>1, TypesNext
  <2>2. FdsInv
    BY DEF IInv
  <2>3. \A v \in Variables :
           proc'[p].fds[v] = IF proc[p].fds[v] \in F THEN 0 ELSE proc[p].fds[v]
    BY <1>7
  <2>4. \A q \in Procs \ {p} : proc'[q].fds = proc[q].fds
    BY <1>7
  <2> QED
    BY <1>1, <2>1, <2>2, <2>3, <2>4, FdsClosed
<1>9. ASSUME NEW i \in Inums
      PROVE  icache'[i].ref + Has(k, i) + Cardinality(For(files, i)) =
             icache[i].ref + Has(n, i) + Cardinality(For(files', i))
  <2>1. /\ Puts(F) \in Seq(Inums)
        /\ Cardinality(For(files, i)) = Cardinality(For(files', i)) + Count(Puts(F), i)
    BY <1>1, <1>2, FilesClosed
  <2>2. Has(k, i) = Is01(k.cwd, i)
    BY <1>1, InProgram
  <2>3. Puts(F) \in Seq(Nat) /\ Count(Puts(F), i) \in Nat
    BY <2>1, PutsAreNumbers, OccursFinite
  <2>4. /\ Is01(k.cwd, i) \in Nat /\ icache[i].ref \in Nat
        /\ Cardinality(For(files', i)) \in Nat
    BY <1>1, Is01Nat, ForFinite DEF Slots, SlotType
  <2>5. icache'[i].ref = icache[i].ref /\ Has(n, i) = Is01(k.cwd, i) + Count(Puts(F), i)
    BY <1>4
  <2> QED
    BY <2>1, <2>2, <2>3, <2>4, <2>5
<1> QED
  BY <1>1, <1>3, <1>4, <1>5, <1>6, <1>8, <1>9, OneKeeps

\* close gives the inode up with the last descriptor of the file.
LEMMA CloseStep ==
  ASSUME IInv, NEW p \in Procs, close(p)
  PROVE  IInv'
<1> DEFINE k == proc[p]  f == k.fds[Op(k).fd]  F == {f}
           m == Ret(k, "ok", Puts(F))  n == [m EXCEPT !.fds[Op(k).fd] = 0]
<1>1. /\ ProcType(k) /\ Place(k) /\ k.at = "user" /\ k.puts = <<>> /\ Op(k).op = "close"
      /\ Inodes1(inode) /\ Slots(icache) /\ Files1(files) /\ Types /\ FdsInv /\ k.put = "lock"
  BY Before DEF close, Calls, At, IInv
<1>2. k.prog \in DOMAIN Programs /\ Op(k).fd \in Variables
  BY <1>1, Arguments DEF ProcType
<1>3. /\ \/ Is(p, Ret(k, "fail", <<>>)) /\ UNCHANGED files
         \/ f # 0 /\ files' = [files EXCEPT ![f] = Closed(f)] /\ Is(p, n)
      /\ UNCHANGED <<inode, icache>>
  BY DEF close, Open
<1>4. CASE Is(p, Ret(k, "fail", <<>>)) /\ UNCHANGED files
  <2>1. Inodes1(inode') /\ \A x : LinksKept(x)
    BY <1>1, <1>3, InodesSame, LinksSame
  <2>2. Slots(icache') /\ Gentle(p) /\ \A j \in Inums : icache'[j].ref = icache[j].ref
    BY <1>1, <1>3, CacheSame
  <2> QED
    BY <1>1, <1>4, <2>1, <2>2, FileCallKeeps
<1>5. CASE f # 0 /\ files' = [files EXCEPT ![f] = Closed(f)] /\ Is(p, n)
  <2>1. f \in 1 .. NFILE /\ files[f].ref > 0
    BY <1>2, <1>5, OpenFile
  <2>2. f \in Ofile(k) /\ f # 0 /\ files' = [files EXCEPT ![f] = Closed(f)] /\ Is(p, n)
    BY <1>1, <1>2, <1>5 DEF Ofile, ProcType
  <2>3. \A v \in Variables : v # Op(k).fd => k.fds[v] # f
    <3>1. LET d == k.fds IN d["fd"] # 0 => d["fd"] # d["fd1"]
      BY <1>1 DEF FdsInv
    <3> QED
      BY <1>2, <2>2, <3>1 DEF Variables
  <2>4. k.fds[Op(k).fd] = f
    OBVIOUS
  <2> HIDE DEF k, f
  <2>5. /\ F \in SUBSET (1 .. NFILE) /\ F \subseteq Ofile(k) /\ DOMAIN files' = 1 .. NFILE
        /\ \A g \in 1 .. NFILE : files'[g] = IF g \in F THEN Closed(g) ELSE files[g]
    BY <1>1, <2>1, <2>2 DEF Files1
  <2>6. Puts(F) \in Seq(Inums)
    BY <1>1, <2>1, <2>5, FilesClosed
  <2> HIDE DEF F
  <2>7. Returns(k, m, Puts(F))
    <3>1. k.cwd # 0 /\ k.at \notin {"unused", "exited"}
      BY <1>1, InProgram
    <3> QED
      BY <1>1, <2>6, <3>1, Returned, Zenon
  <2> HIDE DEF m
  <2>8. /\ ProcType(m) /\ Place(m) /\ m.put = "lock" /\ m.at = "user" /\ m.cwd = k.cwd /\ m.ip = 0
        /\ m.dp = 0 /\ m.old = 0 /\ m.puts = Puts(F) /\ m.fds = k.fds
    BY <1>1, <2>7 DEF Returns, Calm
  <2>9. DOMAIN m = ProcFields /\ m.fds \in [Variables -> 0 .. NFILE]
    BY <2>8 DEF ProcType
  <2>10. /\ DOMAIN n = ProcFields /\ n.at = "user" /\ n.ip = 0 /\ n.dp = 0 /\ n.old = 0
         /\ n.cwd = k.cwd /\ n.puts = Puts(F) /\ n.put = "lock" /\ n.kids = m.kids
         /\ n.prog = m.prog /\ n.path = m.path /\ n.fds = [m.fds EXCEPT ![Op(k).fd] = 0]
    BY <2>8, <2>9 DEF ProcFields
  <2> HIDE DEF n
  <2>11. n.fds \in [Variables -> 0 .. NFILE]
    <3>1. 0 \in 0 .. NFILE
      BY NamesAssumption
    <3> QED
      BY <2>9, <2>10, <3>1
  <2>12. \A v \in Variables : n.fds[v] = IF k.fds[v] \in F THEN 0 ELSE k.fds[v]
    BY <1>2, <2>3, <2>4, <2>8, <2>9, <2>10 DEF F
  <2>13. Calm(n)
    <3>1. ProcType(n)
      BY <2>8, <2>10, <2>11 DEF ProcType
    <3>2. Place(n)
      BY <2>8, <2>10 DEF Place, HasIp, HasDp, HasOld, Waiting
    <3> QED
      BY <2>10, <3>1, <3>2 DEF Calm
  <2>14. Locks(n) = {} /\ Settled(n) = {}
    BY <2>10 DEF Locks, Settled
  <2>15. \A i \in Inums : Has(n, i) = Is01(k.cwd, i) + Count(Puts(F), i)
    <3>1. \A i \in Inums : Has(n, i) = Has(m, i)
      BY <2>8, <2>10 DEF Has
    <3> QED
      BY <2>7, <3>1 DEF Returns
  <2> QED
    BY <1>1, <1>3, <2>2, <2>5, <2>12, <2>13, <2>14, <2>15, ClosingKeeps DEF k
<1> QED
  BY <1>3, <1>4, <1>5

\* exit gives up every file, and the cwd.
LEMMA ExitStep ==
  ASSUME IInv, NEW p \in Procs, exit(p)
  PROVE  IInv'
<1> DEFINE k == proc[p]  F == Ofile(k)  w == Append(Puts(F), k.cwd)
           n == [k EXCEPT !.at = "exited", !.fds = Unused.fds, !.cwd = 0, !.puts = w]
<1>1. /\ ProcType(k) /\ Place(k) /\ k.at = "user" /\ k.puts = <<>>
      /\ Inodes1(inode) /\ Slots(icache) /\ Files1(files) /\ Types /\ k.put = "lock"
  BY Before DEF exit, Calls, At
<1>2. /\ files' = [f \in DOMAIN files |-> IF f \in F THEN Closed(f) ELSE files[f]]
      /\ Is(p, n) /\ UNCHANGED <<inode, icache>>
  BY DEF exit
<1>3. /\ k.ip = 0 /\ k.dp = 0 /\ k.old = 0 /\ k.cwd \in Inums /\ DOMAIN k = ProcFields
  BY <1>1, InProgram DEF ProcType
<1>4. F \in SUBSET (1 .. NFILE) /\ \A f \in F : files[f].ref > 0
  BY OpenFiles
<1> HIDE DEF k
<1>5. Puts(F) \in Seq(Inums)
  <2>1. \A f \in 1 .. NFILE : files'[f] = IF f \in F THEN Closed(f) ELSE files[f]
    BY <1>1, <1>2 DEF Files1
  <2> HIDE DEF F
  <2> QED
    BY <1>1, <1>4, <2>1, FilesClosed
<1>6. DOMAIN files' = 1 .. NFILE /\ \A f \in 1 .. NFILE : files'[f] = IF f \in F THEN Closed(f) ELSE files[f]
  BY <1>1, <1>2 DEF Files1
<1>7. /\ w \in Seq(Inums) /\ w # <<>>
  BY <1>3, <1>5
<1>8. /\ DOMAIN n = ProcFields /\ n.at = "exited" /\ n.ip = 0 /\ n.dp = 0 /\ n.old = 0
      /\ n.cwd = 0 /\ n.puts = w /\ n.put = "lock" /\ n.kids = k.kids
      /\ n.prog = k.prog /\ n.path = k.path /\ n.fds = Unused.fds
  BY <1>1, <1>3 DEF ProcFields
<1> HIDE DEF n
<1>9. Unused.fds = [v \in Variables |-> 0] /\ 0 \in 0 .. NFILE
  BY NamesAssumption DEF Unused
<1>10. Calm(n)
  <2>1. ProcType(n)
    <3>1. n.fds \in [Variables -> 0 .. NFILE]
      BY <1>8, <1>9
    <3> QED
      BY <1>1, <1>7, <1>8, <3>1, NamesAssumption DEF ProcType
  <2>2. Place(n)
    BY <1>8 DEF Place, HasIp, HasDp, HasOld, Waiting
  <2> QED
    BY <1>8, <2>1, <2>2 DEF Calm
<1>11. Locks(n) = {} /\ Settled(n) = {}
  BY <1>8 DEF Locks, Settled
<1>12. \A v \in Variables : n.fds[v] = IF k.fds[v] \in F THEN 0 ELSE k.fds[v]
  <2>1. \A v \in Variables : k.fds[v] \notin F => k.fds[v] = 0
    BY <1>1 DEF Ofile, ProcType
  <2> HIDE DEF F
  <2> QED
    BY <1>8, <1>9, <2>1
<1>13. \A i \in Inums : Has(n, i) = Is01(k.cwd, i) + Count(Puts(F), i)
  <2>1. ASSUME NEW i \in Inums PROVE Has(n, i) = Is01(k.cwd, i) + Count(Puts(F), i)
    <3>1. Puts(F) \in Seq(Nat) /\ k.cwd \in Nat
      BY <1>3, <1>5, PutsAreNumbers, Tables
    <3> HIDE DEF F
    <3>2. Count(w, i) = Count(Puts(F), i) + Is01(k.cwd, i)
      BY <3>1, Counts
    <3>3. Count(Puts(F), i) \in Nat /\ Is01(k.cwd, i) \in Nat /\ Is01(0, i) = 0
      BY <3>1, OccursFinite, Is01Nat, Zero
    <3> HIDE DEF w
    <3> QED
      BY <1>8, <3>2, <3>3 DEF Has
  <2> QED
    BY <2>1
<1>14. F \subseteq Ofile(proc[p])
  BY DEF k
<1> HIDE DEF F
<1> QED
  BY <1>1, <1>2, <1>4, <1>6, <1>10, <1>11, <1>12, <1>13, <1>14, ClosingKeeps DEF k

----------------------------------------------------------------------------
(* fork, where two processes change, and wait.                              *)

\* The count stays right when what two processes hold changes with it, and no file does.
LEMMA RefsKeptTwo ==
  ASSUME Types, Types', RefsRight, NEW p \in Procs, NEW q \in Procs, p # q,
         \A r \in Procs \ {p, q} : proc'[r] = proc[r],
         \A f \in 1 .. NFILE : /\ files[f].ref > 0 <=> files'[f].ref > 0
                               /\ files[f].ref > 0 => files'[f].ip = files[f].ip,
         \A i \in Inums :
           icache'[i].ref + Has(proc[p], i) + Has(proc[q], i) =
           icache[i].ref + Has(proc'[p], i) + Has(proc'[q], i)
  PROVE  RefsRight'
<1> DEFINE pm == [proc EXCEPT ![p] = proc'[p]]
<1>1. /\ \A r \in Procs : ProcType(proc[r]) /\ ProcType(proc'[r])
      /\ DOMAIN proc = Procs /\ DOMAIN proc' = Procs
  BY TypesNow, TypesNext
<1>2. /\ pm[p] = proc'[p] /\ pm[q] = proc[q]
      /\ \A r \in Procs \ {p} : pm[r] = proc[r]
      /\ \A r \in Procs \ {q} : pm[r] = proc'[r]
  BY <1>1
<1> HIDE DEF pm
<1>3. \A r \in Procs : ProcType(pm[r])
  BY <1>1, <1>2
<1>4. ASSUME NEW i \in Inums
      PROVE  icache'[i].ref = Cardinality(Pairs(proc', i)) + Cardinality(For(files', i))
  <2>1. /\ Cardinality(Pairs(proc, i)) \in Nat /\ Cardinality(Pairs(pm, i)) \in Nat
        /\ Cardinality(Pairs(pm, i)) =
             Cardinality(Pairs(proc, i)) + Has(pm[p], i) - Has(proc[p], i)
    <3>1. \A r \in Procs \ {p} : Held(pm[r]) = Held(proc[r])
      BY <1>2
    <3> QED
      BY <1>1, <1>3, <3>1, PairsChange
  <2>2. /\ Cardinality(Pairs(proc', i)) \in Nat
        /\ Cardinality(Pairs(proc', i)) =
             Cardinality(Pairs(pm, i)) + Has(proc'[q], i) - Has(pm[q], i)
    <3>1. \A r \in Procs \ {q} : Held(proc'[r]) = Held(pm[r])
      BY <1>2
    <3> QED
      BY <1>1, <1>3, <3>1, PairsChange
  <2>3. For(files', i) = For(files, i) /\ Cardinality(For(files, i)) \in Nat
    BY FilesKept, ForFinite
  <2>4. /\ Has(proc[p], i) \in Nat /\ Has(proc'[p], i) \in Nat
        /\ Has(proc[q], i) \in Nat /\ Has(proc'[q], i) \in Nat
    BY <1>1, HoldsCounted
  <2>5. icache[i].ref \in Nat /\ icache'[i].ref \in Nat
    BY DEF Types, SlotType
  <2>6. icache[i].ref = Cardinality(Pairs(proc, i)) + Cardinality(For(files, i))
    BY RefsCounted DEF RefsRight
  <2>7. icache'[i].ref + Has(proc[p], i) + Has(proc[q], i) =
        icache[i].ref + Has(proc'[p], i) + Has(proc'[q], i)
    OBVIOUS
  <2> DEFINE a == Cardinality(Pairs(proc, i))  b == Cardinality(Pairs(pm, i))
             c == Cardinality(Pairs(proc', i))  d == Cardinality(For(files, i))
             h1 == Has(proc[p], i)  h2 == Has(proc[q], i)  g1 == Has(proc'[p], i)
             g2 == Has(proc'[q], i)  r == icache[i].ref  s == icache'[i].ref
  <2>8. s = c + d
    <3>1. /\ a \in Nat /\ b \in Nat /\ c \in Nat /\ d \in Nat /\ h1 \in Nat /\ h2 \in Nat
          /\ g1 \in Nat /\ g2 \in Nat /\ r \in Nat /\ s \in Nat
      BY <2>1, <2>2, <2>3, <2>4, <2>5
    <3>2. b = a + g1 - h1 /\ c = b + g2 - h2 /\ r = a + d /\ s + h1 + h2 = r + g1 + g2
      BY <1>2, <2>1, <2>2, <2>6, <2>7
    <3> HIDE DEF a, b, c, d, h1, h2, g1, g2, r, s
    <3> QED
      BY <3>1, <3>2
  <2> QED
    BY <2>3, <2>8
<1> QED
  BY <1>4, RefsCountedNext DEF RefsRight

\* A slot that no process has, or that wait may take, holds nothing.
LEMMA HoldsNothing ==
  ASSUME NEW k, ProcType(k), Place(k), k.at \in {"unused", "exited"}, k.puts = <<>>
  PROVE  /\ k.put = "lock" /\ k.fds = Unused.fds
         /\ \A i \in Inums : Has(k, i) = 0
<1>1. k.ip = 0 /\ k.dp = 0 /\ k.old = 0 /\ k.cwd = 0
  BY DEF Place, HasIp, HasDp, HasOld
<1>2. k.put = "lock" /\ k.fds = Unused.fds
  BY DEF Place
<1>3. ASSUME NEW i \in Inums PROVE Has(k, i) = 0
  <2>1. Has(k, i) = Is01(0, i) + Is01(0, i) + Is01(0, i) + Is01(0, i)
    BY <1>1, HasNone
  <2>2. Is01(0, i) = 0
    BY Zero
  <2> QED
    BY <2>1, <2>2
<1> QED
  BY <1>2, <1>3

\* The child has what the parent has, and each file counts it.
LEMMA FdsForked ==
  ASSUME Types, Types', FdsInv, NEW p \in Procs, NEW q \in Procs, p # q,
         \A r \in Procs \ {q} : proc'[r].fds = proc[r].fds, proc'[q].fds = proc[p].fds,
         \A f \in 1 .. NFILE :
           files'[f].ref = IF f \in Ofile(proc[p]) THEN files[f].ref + 1 ELSE files[f].ref
  PROVE  FdsInv'
<1>1. \A r \in Procs : DOMAIN proc[r].fds = Variables /\ DOMAIN proc'[r].fds = Variables
  BY DEF Types, ProcType
<1>2. \A g \in 1 .. NFILE : /\ IsFiniteSet(HaveFile(g)) /\ Cardinality(HaveFile(g)) \in Nat
                            /\ Cardinality(HaveFile(g)) <= files[g].ref /\ files[g].ref \in Nat
  <2>1. ASSUME NEW g \in 1 .. NFILE
        PROVE  IsFiniteSet(HaveFile(g)) /\ Cardinality(HaveFile(g)) \in Nat
    <3>1. HaveFile(g) \subseteq Procs
      BY DEF HaveFile
    <3> QED
      BY <3>1, Tables, FS_Subset, FS_CardinalityType
  <2> QED
    BY <2>1 DEF FdsInv, Types, FileType
<1>3. \A r \in Procs : LET d == proc'[r].fds IN d["fd"] # 0 => d["fd"] # d["fd1"]
  BY DEF FdsInv
<1>4. ASSUME NEW g \in 1 .. NFILE PROVE Cardinality(HaveFile(g)') <= files'[g].ref
  <2>1. CASE g \in Ofile(proc[p])
    <3>1. HaveFile(g)' \subseteq HaveFile(g) \cup {q}
      BY DEF HaveFile, Ofile
    <3>2. /\ IsFiniteSet(HaveFile(g) \cup {q})
          /\ Cardinality(HaveFile(g) \cup {q}) \in Nat
          /\ Cardinality(HaveFile(g) \cup {q}) <= Cardinality(HaveFile(g)) + 1
      <4> DEFINE H == HaveFile(g)
      <4>1. IsFiniteSet(H) /\ Cardinality(H) \in Nat
        BY <1>2
      <4> HIDE DEF H
      <4>2. /\ IsFiniteSet(H \cup {q})
            /\ Cardinality(H \cup {q}) = IF q \in H THEN Cardinality(H) ELSE Cardinality(H) + 1
        BY <4>1, FS_AddElement
      <4>3. Cardinality(H \cup {q}) \in Nat /\ Cardinality(H \cup {q}) <= Cardinality(H) + 1
        BY <4>1, <4>2
      <4> QED
        BY <4>2, <4>3 DEF H
    <3>3. Cardinality(HaveFile(g)') <= Cardinality(HaveFile(g) \cup {q})
      BY <3>1, <3>2, FS_Subset
    <3>4. Cardinality(HaveFile(g)') \in Nat
      BY <3>1, <3>2, FS_Subset, FS_CardinalityType
    <3> QED
      BY <1>2, <2>1, <3>2, <3>3, <3>4
  <2>2. CASE g \notin Ofile(proc[p])
    <3>1. HaveFile(g)' \subseteq HaveFile(g)
      BY <2>2 DEF HaveFile, Ofile
    <3>2. Cardinality(HaveFile(g)') <= Cardinality(HaveFile(g))
      BY <1>2, <3>1, FS_Subset
    <3>3. Cardinality(HaveFile(g)') \in Nat
      BY <1>2, <3>1, FS_Subset, FS_CardinalityType
    <3> QED
      BY <1>2, <2>2, <3>2, <3>3
  <2> QED
    BY <2>1, <2>2
<1> QED
  BY <1>3, <1>4 DEF FdsInv

\* Processes p and q, which have nothing to put, become n and c.
TwoBecome(p, q, n, c) ==
  /\ proc[p].put = "lock" /\ proc[q].put = "lock" /\ p # q
  /\ Calm(n) /\ Calm(c) /\ proc' = [proc EXCEPT ![p] = n, ![q] = c]
  /\ Locks(n) = {} /\ Settled(n) = {} /\ Locks(c) = {} /\ Settled(c) = {}
  /\ UNCHANGED inode /\ Slots(icache') /\ Files1(files') /\ (Types' => FdsInv')
  /\ \A i \in Inums : /\ icache'[i].lock = icache[i].lock /\ icache'[i].valid = icache[i].valid
                      /\ icache'[i].lost = icache[i].lost /\ icache'[i].ref >= icache[i].ref
  /\ \A f \in 1 .. NFILE : /\ files[f].ref > 0 <=> files'[f].ref > 0
                           /\ files[f].ref > 0 => files'[f].ip = files[f].ip
  /\ \A i \in Inums :
       icache'[i].ref + Has(proc[p], i) + Has(proc[q], i) =
       icache[i].ref + Has(n, i) + Has(c, i)

\* Such a step keeps the invariant.
LEMMA TwoKeep ==
  ASSUME IInv, NEW p \in Procs, NEW q \in Procs, NEW n, NEW c, TwoBecome(p, q, n, c)
  PROVE  IInv'
<1>1. /\ Types /\ PlaceInv /\ RefsRight /\ DOMAIN proc = Procs /\ Inodes1(inode)
      /\ \A r \in Procs : ProcType(proc[r]) /\ Place(proc[r])
  BY TypesNow DEF IInv, PlaceInv
<1>0. TwoBecome(p, q, n, c)
  OBVIOUS
<1> USE DEF TwoBecome
<1>2. /\ DOMAIN proc' = Procs /\ proc'[p] = n /\ proc'[q] = c
      /\ \A r \in Procs \ {p, q} : proc'[r] = proc[r]
  BY <1>1
<1>3. \A r \in Procs : ProcType(proc'[r]) /\ Place(proc'[r])
  BY <1>1, <1>2 DEF Calm
<1>4. Types'
  <2>1. Inodes1(inode')
    BY <1>1
  <2> QED
    BY <1>2, <1>3, <2>1, TypesNext
<1>5. PlaceInv'
  <2>1. \A r \in Procs : Place(proc[r])'
    BY <1>3 DEF Place, Op
  <2> QED
    BY <2>1 DEF PlaceInv
<1>6. RefsRight'
  BY <1>1, <1>2, <1>4, RefsKeptTwo
<1>7. FdsInv'
  BY <1>4
<1> DEFINE P == {p, q}
<1>8. /\ \A r \in Procs \ P : /\ proc'[r].puts = proc[r].puts /\ proc'[r].put = proc[r].put
                              /\ Locks(proc'[r]) = Locks(proc[r])
                              /\ Settled(proc'[r]) = Settled(proc[r])
      /\ \A r \in P : /\ proc[r].put = "lock" /\ proc'[r].put = "lock"
                      /\ \A i \in Locks(proc'[r]) : icache'[i].lock = r
                      /\ \A i \in Settled(proc'[r]) :
                           i \in Settled(proc[r]) \/ (icache'[i].valid /\ icache[i].lock = 0)
      /\ P \in SUBSET Procs
  BY <1>2 DEF Calm
<1>9. \A i \in Inums :
        /\ icache[i].lock \notin {0} \cup P => icache'[i].lock = icache[i].lock
        /\ icache[i].valid => icache'[i].valid
        /\ icache[i].lost => icache'[i].lost
        /\ icache'[i].ref >= icache[i].ref
        /\ inode'[i].type # "none" /\ inode'[i].nlink = 0 =>
             \/ inode[i].type # "none" /\ inode[i].nlink = 0
             \/ icache'[i].valid /\ \E r \in P : Has(proc'[r], i) > 0
  OBVIOUS
<1> HIDE DEF P
<1> QED
  BY <1>4, <1>5, <1>6, <1>7, <1>8, <1>9, Keeps

\* The process that fork or wait returns in: it holds its cwd only.
LEMMA KidsChange ==
  ASSUME NEW p \in Procs, NEW k, ProcType(k), Place(k), k.at = "user", k.puts = <<>>,
         Op(k).op # "open", NEW K \in SUBSET Procs
  PROVE  LET n == [Ret(k, "ok", <<>>) EXCEPT !.kids = K] IN
         /\ Calm(n) /\ Locks(n) = {} /\ Settled(n) = {} /\ n.fds = k.fds
         /\ \A i \in Inums : Has(n, i) = Has(k, i)
<1> DEFINE m == Ret(k, "ok", <<>>)  n == [m EXCEPT !.kids = K]
<1>1. k.cwd # 0 /\ k.at \notin {"unused", "exited"} /\ <<>> \in Seq(Inums) /\ k.put = "lock"
  BY InProgram
<1>2. Returns(k, m, <<>>)
  BY <1>1, Returned, Zenon
<1> HIDE DEF m
<1>3. /\ ProcType(m) /\ Place(m) /\ m.put = "lock" /\ m.at = "user" /\ m.cwd = k.cwd /\ m.ip = 0
      /\ m.dp = 0 /\ m.old = 0 /\ m.puts = <<>> /\ m.fds = k.fds
      /\ \A i \in Inums : Has(m, i) = Is01(k.cwd, i) + Count(<<>>, i)
  BY <1>2 DEF Returns, Calm
<1>4. DOMAIN m = ProcFields
  BY <1>3 DEF ProcType
<1>5. /\ DOMAIN n = ProcFields /\ n.at = "user" /\ n.ip = 0 /\ n.dp = 0 /\ n.old = 0
      /\ n.cwd = k.cwd /\ n.puts = <<>> /\ n.put = "lock" /\ n.kids = K
      /\ n.prog = m.prog /\ n.path = m.path /\ n.fds = m.fds
  BY <1>3, <1>4 DEF ProcFields
<1> HIDE DEF n
<1>6. ProcType(n)
  BY <1>3, <1>5 DEF ProcType
<1>7. Place(n)
  BY <1>1, <1>5 DEF Place, HasIp, HasDp, HasOld, Waiting
<1>8. Locks(n) = {} /\ Settled(n) = {}
  BY <1>5 DEF Locks, Settled
<1>9. \A i \in Inums : Has(n, i) = Has(k, i)
  <2>1. ASSUME NEW i \in Inums PROVE Has(n, i) = Has(k, i)
    <3>1. Has(k, i) = Is01(k.cwd, i) /\ Is01(k.cwd, i) \in Nat /\ Count(<<>>, i) = 0
      BY InProgram, Is01Nat, Zero
    <3>2. Has(n, i) = Has(m, i)
      BY <1>3, <1>5 DEF Has
    <3> QED
      BY <1>3, <3>1, <3>2
  <2> QED
    BY <2>1
<1> QED
  BY <1>3, <1>5, <1>6, <1>7, <1>8, <1>9 DEF Calm, n, m

\* fork: the child holds the cwd once more, and shares the files.
LEMMA ForkStep ==
  ASSUME IInv, NEW p \in Procs, fork(p)
  PROVE  IInv'
<1> DEFINE k == proc[p]  unused == {j \in Procs : proc[j].at = "unused"}  q == Min(unused)
           K == k.kids \cup {q}
           n == [Ret(k, "ok", <<>>) EXCEPT !.kids = K]
           c == [Unused EXCEPT !.prog = Op(k).child, !.at = "user", !.cwd = k.cwd, !.fds = k.fds]
<1>1. /\ ProcType(k) /\ Place(k) /\ k.at = "user" /\ k.puts = <<>> /\ k.put = "lock"
      /\ Op(k).op = "fork" /\ Inodes1(inode) /\ Slots(icache) /\ Files1(files) /\ Types
  BY Before DEF fork, Calls, At
<1>2. /\ k.cwd \in Inums /\ k.prog \in DOMAIN Programs /\ DOMAIN k = ProcFields
      /\ \A i \in Inums : Has(k, i) = Is01(k.cwd, i)
  BY <1>1, InProgram DEF ProcType
<1>3. Op(k).child \in DOMAIN Programs
  BY <1>1, <1>2, Arguments
<1>4. /\ \/ Is(p, Ret(k, "fail", <<>>)) /\ UNCHANGED <<icache, files>>
         \/ /\ unused # {}
            /\ proc' = [proc EXCEPT ![p] = [Ret(k, "ok", <<>>) EXCEPT !.kids = @ \cup {q}], ![q] = c]
            /\ files' = [f \in DOMAIN files |->
                 IF f \in Ofile(k) THEN [files[f] EXCEPT !.ref = @ + 1] ELSE files[f]]
            /\ icache' = iget(icache, k.cwd)
      /\ UNCHANGED inode
  BY DEF fork
<1>5. CASE Is(p, Ret(k, "fail", <<>>)) /\ UNCHANGED <<icache, files>>
  <2>1. Inodes1(inode') /\ \A x : LinksKept(x)
    BY <1>1, <1>4, InodesSame, LinksSame
  <2>2. Slots(icache') /\ Gentle(p) /\ \A j \in Inums : icache'[j].ref = icache[j].ref
    BY <1>1, <1>5, CacheSame
  <2> QED
    BY <1>1, <1>5, <2>1, <2>2, FileCallKeeps
<1>6. CASE /\ unused # {}
           /\ proc' = [proc EXCEPT ![p] = [Ret(k, "ok", <<>>) EXCEPT !.kids = @ \cup {q}], ![q] = c]
           /\ files' = [f \in DOMAIN files |->
                IF f \in Ofile(k) THEN [files[f] EXCEPT !.ref = @ + 1] ELSE files[f]]
           /\ icache' = iget(icache, k.cwd)
  <2>1. q \in Procs /\ proc[q].at = "unused"
    <3>1. unused \in SUBSET Nat /\ unused # {}
      BY <1>6, Tables
    <3>2. q \in unused
      <4> HIDE DEF unused
      <4> QED
        BY <3>1, Least
    <3> HIDE DEF q
    <3> QED
      BY <3>2
  <2>2. ProcType(proc[q]) /\ Place(proc[q])
    BY <2>1, Before
  <2>3. proc[q].puts = <<>>
    BY <2>1, <2>2 DEF Place
  <2>4. /\ proc[q].put = "lock" /\ \A i \in Inums : Has(proc[q], i) = 0
    BY <2>1, <2>2, <2>3, HoldsNothing
  <2>5. p # q
    BY <1>1, <2>1
  <2>6. proc' = [proc EXCEPT ![p] = n, ![q] = c]
    <3>1. [Ret(k, "ok", <<>>) EXCEPT !.kids = @ \cup {q}] = n
      BY <1>1 DEF Ret, ProcType, ProcFields
    <3> HIDE DEF n, c
    <3> QED
      BY <1>6, <3>1
  <2>7. /\ files' = [f \in DOMAIN files |->
             IF f \in Ofile(k) THEN [files[f] EXCEPT !.ref = @ + 1] ELSE files[f]]
        /\ icache' = iget(icache, k.cwd)
    BY <1>6
  <2> HIDE DEF q
  <2>8. K \in SUBSET Procs
    BY <1>1, <2>1 DEF ProcType
  <2>9. /\ Calm(n) /\ Locks(n) = {} /\ Settled(n) = {} /\ n.fds = k.fds
        /\ \A i \in Inums : Has(n, i) = Has(k, i)
    <3> HIDE DEF k, K
    <3> QED
      BY <1>1, <2>8, KidsChange
  <2> HIDE DEF n
  <2>10. /\ DOMAIN c = ProcFields /\ c.at = "user" /\ c.ip = 0 /\ c.dp = 0 /\ c.old = 0
         /\ c.cwd = k.cwd /\ c.puts = <<>> /\ c.put = "lock" /\ c.kids = {}
         /\ c.prog = Op(k).child /\ c.path = <<>> /\ c.fds = k.fds
    BY DEF Unused, ProcFields
  <2> HIDE DEF c
  <2>11. Calm(c)
    <3>1. Sequence(<<>>) /\ <<>> \in Seq(Inums)
      BY DEF Sequence
    <3>2. ProcType(c)
      BY <1>1, <1>2, <1>3, <2>10, <3>1, NamesAssumption DEF ProcType, Inums
    <3>3. Place(c)
      BY <1>2, <2>10, Tables DEF Place, HasIp, HasDp, HasOld, Waiting
    <3> QED
      BY <2>10, <3>2, <3>3 DEF Calm
  <2>12. Locks(c) = {} /\ Settled(c) = {}
    BY <2>10 DEF Locks, Settled
  <2>13. \A i \in Inums : Has(c, i) = Is01(k.cwd, i)
    <3>1. ASSUME NEW i \in Inums PROVE Has(c, i) = Is01(k.cwd, i)
      <4>1. Has(c, i) = Is01(k.cwd, i) + Is01(0, i) + Is01(0, i) + Is01(0, i)
        BY <2>10, HasNone
      <4>2. Is01(0, i) = 0 /\ Is01(k.cwd, i) \in Nat
        BY Zero, Is01Nat
      <4> QED
        BY <4>1, <4>2
    <3> QED
      BY <3>1
  <2>14. /\ Slots(icache')
         /\ \A i \in Inums :
              /\ icache'[i].ref = icache[i].ref + Is01(k.cwd, i) /\ icache'[i].ref >= icache[i].ref
              /\ icache'[i].lock = icache[i].lock /\ icache'[i].valid = icache[i].valid
              /\ icache'[i].lost = icache[i].lost
    BY <1>1, <1>2, <2>7, SlotsGot
  <2>15. \A f \in Ofile(k) : f \in 1 .. NFILE /\ files[f].ref > 0
    BY OpenFiles
  <2>16. DOMAIN files' = 1 .. NFILE
         /\ \A f \in 1 .. NFILE :
              /\ FileType(files'[f]) /\ files'[f].ip = files[f].ip
              /\ files'[f].ref = IF f \in Ofile(k) THEN files[f].ref + 1 ELSE files[f].ref
    <3>1. ASSUME NEW f \in 1 .. NFILE
          PROVE  /\ FileType(files'[f]) /\ files'[f].ip = files[f].ip
                 /\ files'[f].ref = IF f \in Ofile(k) THEN files[f].ref + 1 ELSE files[f].ref
      <4>1. FileType(files[f])
        BY <1>1 DEF Files1
      <4>2. CASE f \in Ofile(k)
        <5>1. files'[f] = [files[f] EXCEPT !.ref = @ + 1] /\ files[f].ref > 0
          BY <1>1, <2>7, <2>15, <4>2 DEF Files1
        <5> QED
          BY <4>1, <4>2, <5>1 DEF FileType
      <4>3. CASE f \notin Ofile(k)
        <5>1. files'[f] = files[f]
          BY <1>1, <2>7, <4>3 DEF Files1
        <5> QED
          BY <4>1, <4>3, <5>1
      <4> QED
        BY <4>2, <4>3
    <3> QED
      BY <1>1, <2>7, <3>1 DEF Files1
  <2>17. Files1(files')
    BY <2>16 DEF Files1
  <2>18. \A f \in 1 .. NFILE : /\ files[f].ref > 0 <=> files'[f].ref > 0
                               /\ files[f].ref > 0 => files'[f].ip = files[f].ip
    <3>1. \A f \in 1 .. NFILE : files[f].ref \in Nat
      BY <1>1 DEF Files1, FileType
    <3> QED
      BY <2>15, <2>16, <3>1
  <2>19. Types' => FdsInv'
    <3>1. /\ \A r \in Procs \ {q} : proc'[r].fds = proc[r].fds
          /\ proc'[q].fds = proc[p].fds
      BY <1>1, <2>1, <2>5, <2>6, <2>9, <2>10, TypesNow DEF k
    <3>2. FdsInv
      BY DEF IInv
    <3>3. \A f \in 1 .. NFILE :
            files'[f].ref = IF f \in Ofile(proc[p]) THEN files[f].ref + 1 ELSE files[f].ref
      BY <2>16 DEF k
    <3> QED
      BY <1>1, <2>1, <2>5, <3>1, <3>2, <3>3, FdsForked
  <2>20. \A i \in Inums :
           icache'[i].ref + Has(proc[p], i) + Has(proc[q], i) =
           icache[i].ref + Has(n, i) + Has(c, i)
    <3>1. ASSUME NEW i \in Inums
          PROVE  icache'[i].ref + Has(k, i) + Has(proc[q], i) =
                 icache[i].ref + Has(n, i) + Has(c, i)
      <4>1. icache[i].ref \in Nat /\ Is01(k.cwd, i) \in Nat
        BY <1>1, Is01Nat DEF Slots, SlotType
      <4>2. /\ icache'[i].ref = icache[i].ref + Is01(k.cwd, i) /\ Has(k, i) = Is01(k.cwd, i)
            /\ Has(proc[q], i) = 0 /\ Has(n, i) = Is01(k.cwd, i) /\ Has(c, i) = Is01(k.cwd, i)
        BY <1>2, <2>4, <2>9, <2>13, <2>14
      <4> QED
        BY <4>1, <4>2
    <3> QED
      BY <3>1 DEF k
  <2>21. UNCHANGED inode /\ proc[p].put = "lock"
    BY <1>1, <1>4
  <2>22. TwoBecome(p, q, n, c)
    BY <2>4, <2>5, <2>6, <2>9, <2>11, <2>12, <2>14, <2>17, <2>18, <2>19, <2>20, <2>21 DEF TwoBecome
  <2> QED
    BY <2>1, <2>22, TwoKeep
<1> QED
  BY <1>4, <1>5, <1>6

\* wait frees the slot of a child that has given everything up.
LEMMA WaitStep ==
  ASSUME IInv, NEW p \in Procs, wait(p)
  PROVE  IInv'
<1> DEFINE k == proc[p]
<1>1. /\ ProcType(k) /\ Place(k) /\ k.at = "user" /\ k.puts = <<>> /\ k.put = "lock"
      /\ Op(k).op = "wait" /\ Inodes1(inode) /\ Slots(icache) /\ Files1(files) /\ Types
  BY Before DEF wait, Calls, At
<1>2. /\ \/ Is(p, Ret(k, "fail", <<>>))
         \/ \E q \in k.kids :
              /\ At(q, "exited")
              /\ proc' = [proc EXCEPT ![q] = Unused,
                                      ![p] = [Ret(k, "ok", <<>>) EXCEPT !.kids = @ \ {q}]]
      /\ UNCHANGED <<inode, icache, files>>
  BY DEF wait
<1>3. CASE Is(p, Ret(k, "fail", <<>>))
  <2>1. Inodes1(inode') /\ \A x : LinksKept(x)
    BY <1>1, <1>2, InodesSame, LinksSame
  <2>2. Slots(icache') /\ Gentle(p) /\ \A j \in Inums : icache'[j].ref = icache[j].ref
    BY <1>1, <1>2, CacheSame
  <2> QED
    BY <1>1, <1>2, <1>3, <2>1, <2>2, FileCallKeeps
<1>4. CASE \E q \in k.kids :
              /\ At(q, "exited")
              /\ proc' = [proc EXCEPT ![q] = Unused,
                                      ![p] = [Ret(k, "ok", <<>>) EXCEPT !.kids = @ \ {q}]]
  <2>1. PICK q \in k.kids :
              /\ At(q, "exited")
              /\ proc' = [proc EXCEPT ![q] = Unused,
                                      ![p] = [Ret(k, "ok", <<>>) EXCEPT !.kids = @ \ {q}]]
    BY <1>4
  <2>2. q \in Procs /\ proc[q].at = "exited" /\ proc[q].puts = <<>>
    BY <1>1, <2>1 DEF ProcType, At
  <2>3. p # q
    BY <1>1, <2>2
  <2>4. ProcType(proc[q]) /\ Place(proc[q])
    BY <2>2, Before
  <2>5. /\ proc[q].put = "lock" /\ \A i \in Inums : Has(proc[q], i) = 0
    BY <2>2, <2>4, HoldsNothing
  <2> DEFINE K == k.kids \ {q}  n == [Ret(k, "ok", <<>>) EXCEPT !.kids = K]
  <2>6. proc' = [proc EXCEPT ![p] = n, ![q] = Unused]
    <3>1. [Ret(k, "ok", <<>>) EXCEPT !.kids = @ \ {q}] = n
      BY <1>1 DEF Ret, ProcType, ProcFields
    <3>2. proc' = [proc EXCEPT ![q] = Unused, ![p] = n]
      <4> HIDE DEF n
      <4> QED
        BY <2>1, <3>1
    <3> HIDE DEF n
    <3>3. DOMAIN proc = Procs
      BY <1>1 DEF Types
    <3> QED
      BY <2>3, <3>2, <3>3
  <2>7. K \in SUBSET Procs
    BY <1>1 DEF ProcType
  <2>8. /\ Calm(n) /\ Locks(n) = {} /\ Settled(n) = {} /\ n.fds = k.fds
        /\ \A i \in Inums : Has(n, i) = Has(k, i)
    <3> HIDE DEF k, K
    <3> QED
      BY <1>1, <2>7, KidsChange
  <2> HIDE DEF n
  <2>9. /\ DOMAIN Unused = ProcFields /\ Unused.at = "unused" /\ Unused.ip = 0 /\ Unused.dp = 0
        /\ Unused.old = 0 /\ Unused.cwd = 0 /\ Unused.puts = <<>> /\ Unused.put = "lock"
        /\ Unused.kids = {} /\ Unused.path = <<>> /\ Unused.fds = [v \in Variables |-> 0]
    BY DEF Unused, ProcFields
  <2>10. Calm(Unused)
    <3>1. Sequence(<<>>) /\ <<>> \in Seq(Inums)
      BY DEF Sequence
    <3>2. ProcType(Unused)
      BY <2>9, <3>1, NamesAssumption DEF ProcType
    <3>3. Place(Unused)
      BY <2>9 DEF Place, HasIp, HasDp, HasOld, Waiting
    <3> QED
      BY <2>9, <3>2, <3>3 DEF Calm
  <2>11. Locks(Unused) = {} /\ Settled(Unused) = {}
    BY <2>9 DEF Locks, Settled
  <2>12. \A i \in Inums : Has(Unused, i) = 0
    BY <2>9, <2>10, HoldsNothing DEF Calm
  <2>13. /\ Slots(icache') /\ UNCHANGED inode /\ Files1(files')
         /\ \A i \in Inums : /\ icache'[i].lock = icache[i].lock /\ icache'[i].valid = icache[i].valid
                             /\ icache'[i].lost = icache[i].lost /\ icache'[i].ref >= icache[i].ref
                             /\ icache'[i].ref = icache[i].ref /\ icache[i].ref \in Nat
    BY <1>1, <1>2 DEF Slots, SlotType
  <2>14. \A f \in 1 .. NFILE : /\ files[f].ref > 0 <=> files'[f].ref > 0
                               /\ files[f].ref > 0 => files'[f].ip = files[f].ip
    BY <1>2
  <2>15. Types' => FdsInv'
    <3>1. \A r \in Procs : \A v \in Variables : proc'[r].fds[v] \in {0, proc[r].fds[v]}
      <4>1. \A r \in Procs \ {q} : proc'[r].fds = proc[r].fds
        BY <1>1, <2>2, <2>3, <2>6, <2>8, TypesNow
      <4>2. proc'[q] = Unused
        BY <1>1, <2>2, <2>6, TypesNow
      <4>3. \A v \in Variables : Unused.fds[v] = 0
        BY <2>9
      <4> QED
        BY <4>1, <4>2, <4>3
    <3>2. FdsInv
      BY DEF IInv
    <3> QED
      BY <1>1, <1>2, <3>1, <3>2, FdsKept
  <2>16. \A i \in Inums :
           icache'[i].ref + Has(proc[p], i) + Has(proc[q], i) =
           icache[i].ref + Has(n, i) + Has(Unused, i)
    BY <2>5, <2>8, <2>12, <2>13
  <2>17. TwoBecome(p, q, n, Unused)
    BY <1>1, <2>3, <2>5, <2>6, <2>8, <2>10, <2>11, <2>13, <2>14, <2>15, <2>16 DEF TwoBecome
  <2> QED
    BY <2>2, <2>17, TwoKeep
<1> QED
  BY <1>2, <1>3, <1>4

\* A key wakes the reader, or does not.
LEMMA ConsoleintrStep ==
  ASSUME IInv, consoleintr
  PROVE  IInv'
<1> DEFINE Up(k) == [k EXCEPT !.at = IF @ = "console_sleep" THEN "consoleread" ELSE @]
<1>1. /\ Types /\ PlaceInv /\ FdsInv /\ RefsRight /\ DOMAIN proc = Procs /\ Inodes1(inode)
      /\ Slots(icache) /\ Files1(files)
      /\ \A r \in Procs : ProcType(proc[r]) /\ Place(proc[r])
  BY TypesNow DEF IInv, PlaceInv
<1>2. UNCHANGED <<inode, icache, files>> /\ (proc' = proc \/ proc' = [p \in Procs |-> Up(proc[p])])
  BY DEF consoleintr
<1>3. CASE proc' = proc
  BY <1>2, <1>3, StillStep
<1>4. CASE proc' = [p \in Procs |-> Up(proc[p])]
  <2>1. ASSUME NEW k, ProcType(k), Place(k)
        PROVE  /\ ProcType(Up(k)) /\ Place(Up(k)) /\ Up(k).puts = k.puts /\ Up(k).put = k.put
               /\ Locks(Up(k)) = Locks(k) /\ Settled(Up(k)) = Settled(k)
               /\ Held(Up(k)) = Held(k) /\ Up(k).fds = k.fds
    <3> DEFINE n == Up(k)
    <3>1. DOMAIN k = ProcFields
      BY <2>1 DEF ProcType
    <3>2. /\ DOMAIN n = ProcFields /\ n.ip = k.ip /\ n.dp = k.dp /\ n.old = k.old
          /\ n.at = IF k.at = "console_sleep" THEN "consoleread" ELSE k.at
          /\ n.cwd = k.cwd /\ n.puts = k.puts /\ n.put = k.put /\ n.kids = k.kids /\ n.pc = k.pc
          /\ n.prog = k.prog /\ n.path = k.path /\ n.fds = k.fds
      BY <3>1 DEF ProcFields
    <3> HIDE DEF n
    <3>3. ProcType(n)
      BY <2>1, <3>2 DEF ProcType
    <3>4. Op(n) = Op(k)
      BY <3>2 DEF Op
    <3>5. Place(n)
      BY <2>1, <3>2, <3>4 DEF Place, HasIp, HasDp, HasOld, Waiting
    <3>6. Locks(n) = Locks(k) /\ Settled(n) = Settled(k) /\ Held(n) = Held(k)
      BY <3>2 DEF Locks, Settled, Held
    <3> QED
      BY <3>2, <3>3, <3>5, <3>6 DEF n
  <2>2. DOMAIN proc' = Procs /\ \A r \in Procs : proc'[r] = Up(proc[r])
    BY <1>4
  <2> HIDE DEF Up
  <2>3. \A r \in Procs :
          /\ ProcType(proc'[r]) /\ Place(proc'[r]) /\ proc'[r].puts = proc[r].puts
          /\ proc'[r].put = proc[r].put /\ Locks(proc'[r]) = Locks(proc[r])
          /\ Settled(proc'[r]) = Settled(proc[r]) /\ Held(proc'[r]) = Held(proc[r])
          /\ proc'[r].fds = proc[r].fds
    BY <1>1, <2>1, <2>2
  <2>4. Types'
    <3>1. Inodes1(inode') /\ Slots(icache') /\ Files1(files')
      BY <1>1, <1>2
    <3> QED
      BY <2>2, <2>3, <3>1, TypesNext
  <2>5. PlaceInv'
    <3>1. \A r \in Procs : Place(proc[r])'
      BY <2>3 DEF Place, Op
    <3> QED
      BY <3>1 DEF PlaceInv
  <2>6. FdsInv'
    <3>1. \A r \in Procs : \A v \in Variables : proc'[r].fds[v] \in {0, proc[r].fds[v]}
      BY <2>3
    <3> QED
      BY <1>1, <1>2, <2>4, <3>1, FdsKept
  <2>7. RefsRight'
    <3>1. \A i \in Inums : Pairs(proc', i) = Pairs(proc, i)
      BY <2>3, PairsSame
    <3>2. \A i \in Inums : icache[i].ref = Cardinality(Pairs(proc, i)) + Cardinality(For(files, i))
      BY <1>1, RefsCounted DEF RefsRight
    <3>3. \A i \in Inums : icache'[i].ref = Cardinality(Pairs(proc', i)) + Cardinality(For(files', i))
      BY <1>2, <3>1, <3>2
    <3> QED
      BY <2>4, <3>3, RefsCountedNext DEF RefsRight
  <2> DEFINE P == {}
  <2>8. /\ \A r \in Procs \ P : /\ proc'[r].puts = proc[r].puts /\ proc'[r].put = proc[r].put
                                /\ Locks(proc'[r]) = Locks(proc[r])
                                /\ Settled(proc'[r]) = Settled(proc[r])
        /\ \A r \in P : /\ proc[r].put = "lock" /\ proc'[r].put = "lock"
                        /\ \A i \in Locks(proc'[r]) : icache'[i].lock = r
                        /\ \A i \in Settled(proc'[r]) :
                             i \in Settled(proc[r]) \/ (icache'[i].valid /\ icache[i].lock = 0)
        /\ P \in SUBSET Procs
    BY <2>3
  <2>9. \A i \in Inums :
          /\ icache[i].lock \notin {0} \cup P => icache'[i].lock = icache[i].lock
          /\ icache[i].valid => icache'[i].valid
          /\ icache[i].lost => icache'[i].lost
          /\ icache'[i].ref >= icache[i].ref
          /\ inode'[i].type # "none" /\ inode'[i].nlink = 0 =>
               \/ inode[i].type # "none" /\ inode[i].nlink = 0
               \/ icache'[i].valid /\ \E r \in P : Has(proc'[r], i) > 0
    BY <1>1, <1>2 DEF Slots, SlotType
  <2> HIDE DEF P
  <2> QED
    BY <2>4, <2>5, <2>6, <2>7, <2>8, <2>9, Keeps
<1> QED
  BY <1>2, <1>3, <1>4

----------------------------------------------------------------------------
(* The three steps of iput.                                                 *)

\* Where a process is in an iput says nothing else about it.
LEMMA PutChanged ==
  ASSUME NEW k, ProcType(k), Place(k), k.puts # <<>>, NEW s \in {"lock", "free", "deref"}
  PROVE  LET n == [k EXCEPT !.put = s] IN
         /\ ProcType(n) /\ Place(n) /\ n.put = s /\ n.puts = k.puts /\ n.fds = k.fds
         /\ Held(n) = Held(k) /\ Locks(n) = Locks(k) /\ Settled(n) = Settled(k)
<1> DEFINE n == [k EXCEPT !.put = s]
<1>1. DOMAIN k = ProcFields
  BY DEF ProcType
<1>2. /\ DOMAIN n = ProcFields /\ n.ip = k.ip /\ n.dp = k.dp /\ n.old = k.old /\ n.at = k.at
      /\ n.cwd = k.cwd /\ n.puts = k.puts /\ n.put = s /\ n.kids = k.kids /\ n.pc = k.pc
      /\ n.prog = k.prog /\ n.path = k.path /\ n.fds = k.fds
  BY <1>1 DEF ProcFields
<1> HIDE DEF n
<1>3. ProcType(n)
  BY <1>2 DEF ProcType
<1>4. Op(n) = Op(k)
  BY <1>2 DEF Op
<1>5. Place(n)
  BY <1>2, <1>4 DEF Place
<1>6. Held(n) = Held(k) /\ Locks(n) = Locks(k) /\ Settled(n) = Settled(k)
  BY <1>2 DEF Held, Locks, Settled
<1> QED
  BY <1>2, <1>3, <1>5, <1>6 DEF n

\* The inode that is put next.
LEMMA PutsHead ==
  ASSUME NEW k, ProcType(k), Place(k), k.puts # <<>>
  PROVE  LET i == Head(k.puts) IN
         /\ i \in Inums /\ Has(k, i) > 0 /\ (i \in Settled(k) => Has(k, i) > 1)
         /\ Tail(k.puts) \in Seq(Inums)
         /\ \A j \in Inums : Count(k.puts, j) = Is01(i, j) + Count(Tail(k.puts), j)
<1> DEFINE i == Head(k.puts)  t == Tail(k.puts)
<1>1. k.puts \in Seq(Inums) /\ k.puts \in Seq(Nat)
  BY PutsAreNumbers DEF ProcType
<1>2. i \in Inums /\ t \in Seq(Inums) /\ t \in Seq(Nat)
  BY <1>1
<1>3. \A j \in Inums : Count(k.puts, j) = Is01(i, j) + Count(t, j)
  BY <1>1, Counts
<1> HIDE DEF i, t
<1>4. Count(k.puts, i) > 0 /\ Count(k.puts, i) \in Nat
  <2>1. Count(t, i) \in Nat /\ Is01(i, i) = 1
    BY <1>2, OccursFinite, Is01Nat
  <2> QED
    BY <1>2, <1>3, <2>1
<1>5. /\ Is01(k.cwd, i) \in Nat /\ Is01(k.ip, i) \in Nat /\ Is01(k.dp, i) \in Nat /\ Is01(k.old, i) \in Nat
  BY Is01Nat
<1>6. Has(k, i) > 0
  BY <1>4, <1>5 DEF Has
<1>7. ASSUME i \in Settled(k) PROVE Has(k, i) > 1
  <2>1. i \in {k.ip, k.dp, k.old}
    BY <1>7 DEF Settled
  <2>2. Is01(k.ip, i) = 1 \/ Is01(k.dp, i) = 1 \/ Is01(k.old, i) = 1
    BY <2>1, Is01Nat
  <2> QED
    BY <1>4, <1>5, <2>2 DEF Has
<1> QED
  BY <1>2, <1>3, <1>6, <1>7 DEF i, t

\* It is referenced; more than once if somebody may take a link from it.
LEMMA PutsShared ==
  ASSUME IInv, NEW p \in Procs, proc[p].puts # <<>>
  PROVE  LET i == Head(proc[p].puts) IN
         /\ i \in Inums /\ icache[i].ref \in Nat /\ icache[i].ref > 0
         /\ \A q \in Procs : i \in Settled(proc[q]) => icache[i].ref > 1
<1> DEFINE i == Head(proc[p].puts)
<1>1. /\ Types /\ RefsRight /\ Slots(icache)
      /\ \A q \in Procs : ProcType(proc[q]) /\ Place(proc[q])
  BY TypesNow DEF IInv, PlaceInv
<1>2. /\ i \in Inums /\ Has(proc[p], i) > 0 /\ (i \in Settled(proc[p]) => Has(proc[p], i) > 1)
  BY <1>1, PutsHead
<1> HIDE DEF i
<1>3. /\ icache[i].ref = Cardinality(Pairs(proc, i)) + Cardinality(For(files, i))
      /\ Cardinality(For(files, i)) \in Nat /\ icache[i].ref \in Nat
  BY <1>1, <1>2, RefsCounted, ForFinite DEF RefsRight, Slots, SlotType
<1>4. /\ Cardinality(Pairs(proc, i)) \in Nat /\ Cardinality(Pairs(proc, i)) >= Has(proc[p], i)
      /\ \A q \in Procs \ {p} : Cardinality(Pairs(proc, i)) >= Has(proc[p], i) + Has(proc[q], i)
  BY <1>1, TwoHold
<1>5. \A q \in Procs : Has(proc[q], i) \in Nat /\ (i \in Settled(proc[q]) => Has(proc[q], i) > 0)
  BY <1>1, HoldsCounted, Inodes
<1>6. ASSUME NEW q \in Procs, i \in Settled(proc[q]) PROVE icache[i].ref > 1
  <2>1. CASE q = p
    BY <1>2, <1>3, <1>4, <1>5, <1>6, <2>1
  <2>2. CASE q # p
    <3>1. Cardinality(Pairs(proc, i)) >= Has(proc[p], i) + Has(proc[q], i)
      BY <1>4, <2>2
    <3>2. Has(proc[q], i) > 0 /\ Has(proc[q], i) \in Nat /\ Has(proc[p], i) \in Nat
      BY <1>5, <1>6
    <3> QED
      BY <1>2, <1>3, <1>4, <3>1, <3>2
  <2> QED
    BY <2>1, <2>2
<1>7. icache[i].ref > 0
  BY <1>2, <1>3, <1>4, <1>5
<1> QED
  BY <1>2, <1>3, <1>6, <1>7 DEF i

\* Process p goes on to place s of its iput, and holds what it held.
LEMMA PutKeeps ==
  ASSUME IInv, NEW p \in Procs, proc[p].puts # <<>>, NEW s \in {"lock", "free", "deref"},
         Is(p, [proc[p] EXCEPT !.put = s]), Inodes1(inode'), Slots(icache'), UNCHANGED files,
         \A i \in Inums : icache'[i].ref = icache[i].ref
  PROVE  /\ Types' /\ PlaceInv' /\ FdsInv' /\ RefsRight'
         /\ \A q \in Procs : /\ Locks(proc'[q]) = Locks(proc[q]) /\ Settled(proc'[q]) = Settled(proc[q])
                             /\ Locks(proc[q]) \subseteq Inums /\ Settled(proc[q]) \subseteq Inums
         /\ \A q \in Procs : proc'[q].puts = proc[q].puts
         /\ \A q \in Procs : proc'[q].put = IF q = p THEN s ELSE proc[q].put
<1> DEFINE n == [proc[p] EXCEPT !.put = s]
<1>1. /\ Types /\ RefsRight /\ FdsInv /\ DOMAIN proc = Procs /\ Files1(files)
      /\ \A q \in Procs : ProcType(proc[q]) /\ Place(proc[q])
  BY TypesNow DEF IInv, PlaceInv
<1>2. /\ ProcType(n) /\ Place(n) /\ n.put = s /\ n.puts = proc[p].puts /\ n.fds = proc[p].fds
      /\ Held(n) = Held(proc[p]) /\ Locks(n) = Locks(proc[p]) /\ Settled(n) = Settled(proc[p])
  BY <1>1, PutChanged
<1>3. DOMAIN proc' = Procs /\ proc'[p] = n /\ \A q \in Procs \ {p} : proc'[q] = proc[q]
  BY <1>1 DEF Is
<1> HIDE DEF n
<1>4. \A q \in Procs :
        /\ ProcType(proc'[q]) /\ Place(proc'[q]) /\ proc'[q].puts = proc[q].puts
        /\ proc'[q].put = IF q = p THEN s ELSE proc[q].put
        /\ Locks(proc'[q]) = Locks(proc[q]) /\ Settled(proc'[q]) = Settled(proc[q])
        /\ Held(proc'[q]) = Held(proc[q]) /\ proc'[q].fds = proc[q].fds
  BY <1>1, <1>2, <1>3
<1>5. Types'
  <2>1. Files1(files')
    BY <1>1
  <2> QED
    BY <1>3, <1>4, <2>1, TypesNext
<1>6. PlaceInv'
  <2>1. \A q \in Procs : Place(proc[q])'
    BY <1>4 DEF Place, Op
  <2> QED
    BY <2>1 DEF PlaceInv
<1>7. FdsInv'
  <2>1. \A q \in Procs : \A v \in Variables : proc'[q].fds[v] \in {0, proc[q].fds[v]}
    BY <1>4
  <2> QED
    BY <1>1, <1>5, <2>1, FdsKept
<1>8. RefsRight'
  <2>1. \A i \in Inums : Pairs(proc', i) = Pairs(proc, i)
    BY <1>4, PairsSame
  <2>2. \A i \in Inums : icache[i].ref = Cardinality(Pairs(proc, i)) + Cardinality(For(files, i))
    BY <1>1, RefsCounted DEF RefsRight
  <2>3. \A i \in Inums : icache'[i].ref = Cardinality(Pairs(proc', i)) + Cardinality(For(files', i))
    BY <2>1, <2>2
  <2> QED
    BY <1>5, <2>3, RefsCountedNext DEF RefsRight
<1>9. \A q \in Procs : Locks(proc[q]) \subseteq Inums /\ Settled(proc[q]) \subseteq Inums
  BY <1>1, Inodes
<1> QED
  BY <1>4, <1>5, <1>6, <1>7, <1>8, <1>9

\* How many processes are about to give inode i up.
LEMMA LeavingFinite ==
  ASSUME NEW i
  PROVE  IsFiniteSet(Leaving(i)) /\ Cardinality(Leaving(i)) \in Nat
<1>1. Leaving(i) \subseteq Procs
  BY DEF Leaving
<1> QED
  BY <1>1, Tables, FS_Subset, FS_CardinalityType

\* iput finds the last reference to an inode without links: it keeps the lock, to free it.
LEMMA IputLast ==
  ASSUME IInv, NEW p \in Procs, proc[p].puts # <<>>, proc[p].put = "lock",
         NEW i, i = Head(proc[p].puts), Unlocked(i), LastRef(i),
         icache' = [icache EXCEPT ![i].lock = p], Is(p, [proc[p] EXCEPT !.put = "free"]),
         UNCHANGED <<inode, files>>
  PROVE  IInv'
<1>1. /\ Inodes1(inode) /\ Slots(icache) /\ LockInv /\ SettledInv /\ OrphanInv /\ Types
  BY Before DEF IInv
<1>2. /\ i \in Inums /\ \A q \in Procs : i \notin Settled(proc[q])
  <2>1. icache[i].ref = 1
    BY DEF LastRef
  <2> QED
    BY <2>1, PutsShared
<1>3. /\ Slots(icache')
      /\ \A j \in Inums : /\ icache'[j].ref = icache[j].ref /\ icache'[j].valid = icache[j].valid
                          /\ icache'[j].lost = icache[j].lost
                          /\ icache'[j].lock = IF j = i THEN p ELSE icache[j].lock
  <2>1. DOMAIN icache' = Inums /\ \A j \in Inums : icache'[j] = IF j = i THEN [icache[i] EXCEPT !.lock = p] ELSE icache[j]
    BY <1>1, <1>2 DEF Slots
  <2>2. \A j \in Inums : /\ SlotType(icache'[j])
                         /\ icache'[j].ref = icache[j].ref /\ icache'[j].valid = icache[j].valid
                         /\ icache'[j].lost = icache[j].lost
                         /\ icache'[j].lock = IF j = i THEN p ELSE icache[j].lock
    BY <1>1, <2>1 DEF Slots, SlotType
  <2> QED
    BY <2>1, <2>2 DEF Slots
<1>4. Inodes1(inode')
  BY <1>1
<1>5. /\ Types' /\ PlaceInv' /\ FdsInv' /\ RefsRight'
      /\ \A q \in Procs : /\ Locks(proc'[q]) = Locks(proc[q]) /\ Settled(proc'[q]) = Settled(proc[q])
                          /\ Locks(proc[q]) \subseteq Inums /\ Settled(proc[q]) \subseteq Inums
      /\ \A q \in Procs : proc'[q].puts = proc[q].puts
      /\ \A q \in Procs : proc'[q].put = IF q = p THEN "free" ELSE proc[q].put
  BY <1>3, <1>4, PutKeeps
<1>6. \A q \in Procs, j \in Inums : Freeing(q, j)' <=> Freeing(q, j) \/ (q = p /\ j = i)
  BY <1>5 DEF Freeing
<1>7. icache[i].lock = 0 /\ 0 \notin Procs
  BY Tables DEF Unlocked
<1>8. LockInv'
  <2>1. ASSUME NEW q \in Procs, NEW j \in Locks(proc'[q])
        PROVE  icache'[j].lock = q /\ ~ Freeing(q, j)'
    <3>1. j \in Inums /\ icache[j].lock = q /\ ~ Freeing(q, j)
      BY <1>1, <1>5 DEF LockInv
    <3>2. j # i
      BY <1>7, <3>1
    <3> QED
      BY <1>3, <1>6, <3>1, <3>2
  <2>2. ASSUME NEW q \in Procs, NEW j \in Inums, Freeing(q, j)' PROVE icache'[j].lock = q
    <3>1. CASE Freeing(q, j)
      <4>1. icache[j].lock = q
        BY <1>1, <3>1 DEF LockInv
      <4> QED
        BY <1>3, <1>7, <4>1
    <3>2. CASE q = p /\ j = i
      BY <1>3, <3>2
    <3> QED
      BY <1>6, <2>2, <3>1, <3>2
  <2> QED
    BY <2>1, <2>2 DEF LockInv
<1>9. SettledInv'
  <2>1. ASSUME NEW q \in Procs, NEW j \in Settled(proc'[q])
        PROVE  icache'[j].valid /\ \A r \in Procs : ~ Freeing(r, j)'
    <3>1. j \in Inums /\ j # i /\ icache[j].valid /\ \A r \in Procs : ~ Freeing(r, j)
      BY <1>1, <1>2, <1>5 DEF SettledInv
    <3> QED
      BY <1>3, <1>6, <3>1
  <2> QED
    BY <2>1 DEF SettledInv
<1>10. OrphanInv'
  <2>1. \A j : Leaving(j)' = Leaving(j)
    BY <1>5 DEF Leaving
  <2> QED
    BY <1>1, <1>3, <2>1 DEF OrphanInv
<1> QED
  BY <1>5, <1>8, <1>9, <1>10 DEF IInv

\* iput decides to give its reference up.
LEMMA IputLeave ==
  ASSUME IInv, NEW p \in Procs, proc[p].puts # <<>>, proc[p].put = "lock",
         NEW i, i = Head(proc[p].puts), ~ (icache[i].valid /\ inode[i].nlink = 0 /\ LastRef(i)),
         icache' = [icache EXCEPT ![i].lost = @ \/ Late(i)],
         Is(p, [proc[p] EXCEPT !.put = "deref"]), UNCHANGED <<inode, files>>
  PROVE  IInv'
<1>1. /\ Inodes1(inode) /\ Slots(icache) /\ LockInv /\ SettledInv /\ OrphanInv /\ Types
  BY Before DEF IInv
<1>2. i \in Inums /\ icache[i].ref \in Nat /\ icache[i].ref > 0
  BY PutsShared
<1>3. /\ Slots(icache')
      /\ \A j \in Inums : /\ icache'[j].ref = icache[j].ref /\ icache'[j].valid = icache[j].valid
                          /\ icache'[j].lock = icache[j].lock
                          /\ (icache'[j].lost <=> icache[j].lost \/ (j = i /\ Late(i)))
  <2>1. DOMAIN icache' = Inums /\ \A j \in Inums : icache'[j] = IF j = i THEN [icache[i] EXCEPT !.lost = @ \/ Late(i)] ELSE icache[j]
    BY <1>1, <1>2 DEF Slots
  <2>2. \A j \in Inums : /\ SlotType(icache'[j])
                         /\ icache'[j].ref = icache[j].ref /\ icache'[j].valid = icache[j].valid
                         /\ icache'[j].lock = icache[j].lock
                         /\ (icache'[j].lost <=> icache[j].lost \/ (j = i /\ Late(i)))
    <3>1. ASSUME NEW j \in Inums
          PROVE  /\ SlotType(icache'[j])
                 /\ icache'[j].ref = icache[j].ref /\ icache'[j].valid = icache[j].valid
                 /\ icache'[j].lock = icache[j].lock
                 /\ (icache'[j].lost <=> icache[j].lost \/ (j = i /\ Late(i)))
      <4>1. SlotType(icache[j])
        BY <1>1 DEF Slots
      <4>2. CASE j = i
        <5>1. icache'[i] = [icache[i] EXCEPT !.lost = @ \/ Late(i)]
          BY <1>2, <2>1
        <5>2. Late(i) \in BOOLEAN
          BY DEF Late
        <5> QED
          BY <4>1, <4>2, <5>1, <5>2 DEF SlotType
      <4>3. CASE j # i
        BY <2>1, <4>1, <4>3
      <4> QED
        BY <4>2, <4>3
    <3> QED
      BY <3>1
  <2> QED
    BY <2>1, <2>2 DEF Slots
<1>4. Inodes1(inode')
  BY <1>1
<1>5. /\ Types' /\ PlaceInv' /\ FdsInv' /\ RefsRight'
      /\ \A q \in Procs : /\ Locks(proc'[q]) = Locks(proc[q]) /\ Settled(proc'[q]) = Settled(proc[q])
                          /\ Locks(proc[q]) \subseteq Inums /\ Settled(proc[q]) \subseteq Inums
      /\ \A q \in Procs : proc'[q].puts = proc[q].puts
      /\ \A q \in Procs : proc'[q].put = IF q = p THEN "deref" ELSE proc[q].put
  BY <1>3, <1>4, PutKeeps
<1>6. \A q \in Procs, j \in Inums : Freeing(q, j)' <=> Freeing(q, j)
  BY <1>5 DEF Freeing
<1>7. LockInv'
  <2>1. ASSUME NEW q \in Procs, NEW j \in Inums, j \in Locks(proc'[q])
        PROVE  icache'[j].lock = q /\ ~ Freeing(q, j)'
    <3>1. icache[j].lock = q /\ ~ Freeing(q, j)
      BY <1>1, <1>5, <2>1 DEF LockInv
    <3> QED
      BY <1>3, <1>6, <3>1
  <2>2. ASSUME NEW q \in Procs, NEW j \in Inums, Freeing(q, j)'
        PROVE  icache'[j].lock = q
    <3>1. Freeing(q, j)
      BY <1>6, <2>2
    <3>2. icache[j].lock = q
      BY <1>1, <3>1 DEF LockInv
    <3> QED
      BY <1>3, <3>2
  <2>3. \A q \in Procs : Locks(proc'[q]) \subseteq Inums
    BY <1>5
  <2> QED
    BY <2>1, <2>2, <2>3 DEF LockInv
<1>8. SettledInv'
  BY <1>1, <1>3, <1>5, <1>6 DEF SettledInv
<1>9. OrphanInv'
  <2>1. ASSUME NEW j \in Inums, inode'[j].type # "none", inode'[j].nlink = 0
        PROVE  icache'[j].lost \/ (icache'[j].valid /\ icache'[j].ref > Cardinality(Leaving(j)'))
    <3>1. icache[j].lost \/ (icache[j].valid /\ icache[j].ref > Cardinality(Leaving(j)))
      BY <1>1, <2>1 DEF OrphanInv
    <3>2. CASE j = i
      <4>1. Leaving(i)' = Leaving(i) \cup {p} /\ p \notin Leaving(i)
        BY <1>5 DEF Leaving
      <4>2. Cardinality(Leaving(i)') = Cardinality(Leaving(i)) + 1
        BY <4>1, LeavingFinite, FS_AddElement
      <4>3. Cardinality(Leaving(i)) \in Nat
        BY LeavingFinite
      <4>4. CASE icache[i].lost
        BY <1>3, <3>2, <4>4
      <4>5. CASE icache[i].valid /\ icache[i].ref > Cardinality(Leaving(i))
        <5>1. inode[i].nlink = 0
          BY <2>1, <3>2
        <5>2. icache[i].ref # 1
          BY <4>5, <5>1 DEF LastRef
        <5>3. CASE icache[i].ref = 1 + Cardinality(Leaving(i))
          <6>1. Late(i)
            BY <1>2, <4>5, <5>1, <5>2, <5>3 DEF Late
          <6> QED
            BY <1>2, <1>3, <3>2, <6>1
        <5>4. CASE icache[i].ref # 1 + Cardinality(Leaving(i))
          <6>1. icache[i].ref > Cardinality(Leaving(i)) + 1
            BY <1>2, <4>3, <4>5, <5>4
          <6> QED
            BY <1>2, <1>3, <3>2, <4>2, <4>5, <6>1
        <5> QED
          BY <5>3, <5>4
      <4> QED
        BY <3>1, <3>2, <4>4, <4>5
    <3>3. CASE j # i
      <4>1. Leaving(j)' = Leaving(j)
        BY <1>5, <3>3 DEF Leaving
      <4> QED
        BY <1>3, <3>1, <4>1
    <3> QED
      BY <3>2, <3>3
  <2> QED
    BY <2>1 DEF OrphanInv
<1> QED
  BY <1>5, <1>7, <1>8, <1>9 DEF IInv

\* The first step of iput: the last one to hold an inode without links starts to free it,
\* everybody else only puts the reference back.
LEMMA IputStep ==
  ASSUME IInv, NEW p \in Procs, iput(p)
  PROVE  IInv'
<1> DEFINE i == Head(proc[p].puts)
<1>1. proc[p].puts # <<>> /\ proc[p].put = "lock" /\ Unlocked(i) /\ UNCHANGED <<inode, files>>
  BY DEF iput
<1>2. CASE icache[i].valid /\ inode[i].nlink = 0 /\ LastRef(i)
  <2>1. icache' = [icache EXCEPT ![i].lock = p] /\ Is(p, [proc[p] EXCEPT !.put = "free"])
    BY <1>2 DEF iput
  <2> QED
    BY <1>1, <1>2, <2>1, IputLast
<1>3. CASE ~ (icache[i].valid /\ inode[i].nlink = 0 /\ LastRef(i))
  <2>1. /\ icache' = [icache EXCEPT ![i].lost = @ \/ Late(i)]
        /\ Is(p, [proc[p] EXCEPT !.put = "deref"])
    BY <1>3 DEF iput
  <2> QED
    BY <1>1, <1>3, <2>1, IputLeave
<1> QED
  BY <1>2, <1>3

\* iput frees the inode, which nobody else holds.
LEMMA IputFreeStep ==
  ASSUME IInv, NEW p \in Procs, iput_free(p)
  PROVE  IInv'
<1> DEFINE i == Head(proc[p].puts)
<1>1. /\ Inodes1(inode) /\ Slots(icache) /\ LockInv /\ SettledInv /\ OrphanInv /\ Types
      /\ proc[p].put = "free" /\ proc[p].puts # <<>> /\ UNCHANGED files
      /\ inode' = [inode EXCEPT ![i] = Free]
      /\ icache' = [icache EXCEPT ![i].valid = FALSE, ![i].lock = 0]
      /\ Is(p, [proc[p] EXCEPT !.put = "deref"])
  BY Before DEF IInv, iput_free, Place
<1>2. i \in Inums
  BY <1>1, PutsShared
<1>3. Freeing(p, i)
  BY <1>1 DEF Freeing
<1> HIDE DEF i
<1>4. /\ Slots(icache')
      /\ \A j \in Inums : /\ icache'[j].ref = icache[j].ref /\ icache'[j].lost = icache[j].lost
                          /\ j # i => icache'[j].valid = icache[j].valid
                                      /\ icache'[j].lock = icache[j].lock
  <2>1. DOMAIN icache' = Inums /\ \A j \in Inums : icache'[j] = IF j = i THEN [icache[i] EXCEPT !.valid = FALSE, !.lock = 0] ELSE icache[j]
    BY <1>1, <1>2 DEF Slots
  <2>2. \A j \in Inums : /\ SlotType(icache'[j])
                         /\ icache'[j].ref = icache[j].ref /\ icache'[j].lost = icache[j].lost
    BY <1>1, <2>1 DEF Slots, SlotType
  <2> QED
    BY <2>1, <2>2 DEF Slots
<1>5. Inodes1(inode') /\ inode'[i] = Free /\ \A j \in Inums \ {i} : inode'[j] = inode[j]
  <2>1. DOMAIN inode' = Inums /\ \A j \in Inums : inode'[j] = IF j = i THEN Free ELSE inode[j]
    BY <1>1, <1>2 DEF Inodes1
  <2>2. InodeType(Free)
    BY DEF Free, InodeType
  <2> QED
    BY <1>1, <1>2, <2>1, <2>2 DEF Inodes1
<1>6. /\ Types' /\ PlaceInv' /\ FdsInv' /\ RefsRight'
      /\ \A q \in Procs : /\ Locks(proc'[q]) = Locks(proc[q]) /\ Settled(proc'[q]) = Settled(proc[q])
                          /\ Locks(proc[q]) \subseteq Inums /\ Settled(proc[q]) \subseteq Inums
      /\ \A q \in Procs : proc'[q].puts = proc[q].puts
      /\ \A q \in Procs : proc'[q].put = IF q = p THEN "deref" ELSE proc[q].put
  BY <1>1, <1>4, <1>5, PutKeeps
<1>7. \A q \in Procs, j \in Inums : Freeing(q, j)' <=> Freeing(q, j) /\ q # p
  BY <1>6 DEF Freeing
<1>8. \A q \in Procs, j \in Inums : Freeing(q, j) /\ q # p => j # i /\ icache[j].lock = q
  BY <1>1, <1>3 DEF LockInv
<1>9. LockInv'
  <2>1. ASSUME NEW q \in Procs, NEW j \in Locks(proc'[q])
        PROVE  icache'[j].lock = q /\ ~ Freeing(q, j)'
    <3>1. j \in Inums /\ icache[j].lock = q /\ ~ Freeing(q, j)
      BY <1>1, <1>6 DEF LockInv
    <3>2. j # i
      <4>1. icache[i].lock = p
        BY <1>1, <1>2, <1>3 DEF LockInv
      <4> QED
        BY <1>3, <3>1, <4>1
    <3> QED
      BY <1>4, <1>7, <3>1, <3>2
  <2>2. ASSUME NEW q \in Procs, NEW j \in Inums, Freeing(q, j)' PROVE icache'[j].lock = q
    BY <1>4, <1>7, <1>8, <2>2
  <2> QED
    BY <2>1, <2>2 DEF LockInv
<1>10. SettledInv'
  <2>1. ASSUME NEW q \in Procs, NEW j \in Settled(proc'[q])
        PROVE  icache'[j].valid /\ \A r \in Procs : ~ Freeing(r, j)'
    <3>1. j \in Inums /\ icache[j].valid /\ \A r \in Procs : ~ Freeing(r, j)
      BY <1>1, <1>6 DEF SettledInv
    <3>2. j # i
      BY <1>3, <3>1
    <3> QED
      BY <1>4, <1>7, <3>1, <3>2
  <2> QED
    BY <2>1 DEF SettledInv
<1>11. OrphanInv'
  <2>1. ASSUME NEW j \in Inums, inode'[j].type # "none", inode'[j].nlink = 0
        PROVE  icache'[j].lost \/ (icache'[j].valid /\ icache'[j].ref > Cardinality(Leaving(j)'))
    <3>1. j # i
      BY <1>5, <2>1 DEF Free
    <3>2. icache[j].lost \/ (icache[j].valid /\ icache[j].ref > Cardinality(Leaving(j)))
      BY <1>1, <1>5, <2>1, <3>1 DEF OrphanInv
    <3>3. Leaving(j)' = Leaving(j)
      BY <1>1, <1>6, <3>1 DEF Leaving, i
    <3> QED
      BY <1>4, <3>1, <3>2, <3>3
  <2> QED
    BY <2>1 DEF OrphanInv
<1> QED
  BY <1>6, <1>9, <1>10, <1>11 DEF IInv

\* iput gives one reference up.
LEMMA IputDerefStep ==
  ASSUME IInv, NEW p \in Procs, iput_deref(p)
  PROVE  IInv'
<1> DEFINE k == proc[p]  i == Head(k.puts)  t == Tail(k.puts)
           n == [k EXCEPT !.put = "lock", !.puts = t]
<1>1. /\ Inodes1(inode) /\ Slots(icache) /\ LockInv /\ SettledInv /\ OrphanInv /\ Types /\ RefsRight
      /\ FdsInv /\ Files1(files) /\ DOMAIN proc = Procs
      /\ \A q \in Procs : ProcType(proc[q]) /\ Place(proc[q])
      /\ k.put = "deref" /\ k.puts # <<>> /\ UNCHANGED <<inode, files>>
      /\ icache' = [icache EXCEPT ![i].ref = @ - 1, ![i].valid = @ /\ icache[i].ref > 1]
  BY Before DEF IInv, iput_deref, Place
<1>2. Is(p, n)
  BY <1>1 DEF iput_deref, ProcType, ProcFields
<1>3. /\ i \in Inums /\ t \in Seq(Inums)
      /\ \A j \in Inums : Count(k.puts, j) = Is01(i, j) + Count(t, j)
  BY <1>1, PutsHead
<1>4. /\ icache[i].ref \in Nat /\ icache[i].ref > 0
      /\ \A q \in Procs : i \in Settled(proc[q]) => icache[i].ref > 1
  BY <1>1, PutsShared
<1>5. p \in Leaving(i) /\ \A j : Leaving(j) = {q \in Procs : proc[q].put = "deref" /\ Head(proc[q].puts) = j}
  BY <1>1 DEF Leaving
<1>20. ProcType(k) /\ Place(k) /\ DOMAIN k = ProcFields
  BY <1>1 DEF ProcType
<1>21. \A j : p \in Leaving(j) => j = i
  BY <1>5
<1> HIDE DEF i, t, k
<1>6. /\ DOMAIN n = ProcFields /\ n.ip = k.ip /\ n.dp = k.dp /\ n.old = k.old /\ n.at = k.at
      /\ n.cwd = k.cwd /\ n.puts = t /\ n.put = "lock" /\ n.kids = k.kids /\ n.pc = k.pc
      /\ n.prog = k.prog /\ n.path = k.path /\ n.fds = k.fds
  BY <1>20 DEF ProcFields
<1> HIDE DEF n
<1>7. ProcType(n)
  BY <1>3, <1>6, <1>20 DEF ProcType
<1>8. Place(n)
  <2>1. Op(n) = Op(k)
    BY <1>6 DEF Op
  <2>2. k.at # "unused"
    BY <1>1, <1>20 DEF Place
  <2> QED
    BY <1>6, <1>20, <2>1, <2>2 DEF Place
<1>9. DOMAIN proc' = Procs /\ proc'[p] = n /\ \A q \in Procs \ {p} : proc'[q] = proc[q]
  BY <1>1, <1>2 DEF Is
<1>10. /\ Slots(icache')
       /\ \A j \in Inums : /\ icache'[j].ref + Is01(i, j) = icache[j].ref
                           /\ icache'[j].lost = icache[j].lost /\ icache'[j].lock = icache[j].lock
                           /\ icache[j].valid /\ (j = i => icache[j].ref > 1) => icache'[j].valid
  <2>1. ASSUME NEW j \in Inums
        PROVE  /\ SlotType(icache'[j]) /\ icache'[j].ref + Is01(i, j) = icache[j].ref
               /\ icache'[j].lost = icache[j].lost /\ icache'[j].lock = icache[j].lock
               /\ icache[j].valid /\ (j = i => icache[j].ref > 1) => icache'[j].valid
    <3>1. SlotType(icache[j])
      BY <1>1 DEF Slots
    <3>2. CASE j = i
      <4>1. icache'[i] = [icache[i] EXCEPT !.ref = @ - 1, !.valid = @ /\ icache[i].ref > 1]
        BY <1>1, <1>3 DEF Slots
      <4>2. /\ DOMAIN icache'[i] = {"ref", "valid", "lock", "lost"}
            /\ icache'[i].ref = icache[i].ref - 1
            /\ icache'[i].valid = (icache[i].valid /\ icache[i].ref > 1)
            /\ icache'[i].lost = icache[i].lost /\ icache'[i].lock = icache[i].lock
        BY <3>1, <3>2, <4>1 DEF SlotType
      <4>3. Is01(i, i) = 1
        BY Is01Nat
      <4>4. icache[i].ref \in Nat /\ icache[i].ref > 0 /\ icache[i].lost \in BOOLEAN
        BY <1>4, <3>1, <3>2 DEF SlotType
      <4>5. icache[i].ref - 1 \in Nat /\ icache[i].ref - 1 + 1 = icache[i].ref
        BY <4>4
      <4>6. SlotType(icache'[i])
        <5>1. icache'[i].valid \in BOOLEAN
          BY <4>2, Zenon
        <5> QED
          BY <4>2, <4>4, <4>5, <5>1 DEF SlotType
      <4>7. icache'[i].ref + Is01(i, i) = icache[i].ref
        BY <4>2, <4>3, <4>5
      <4>8. icache[i].valid /\ icache[i].ref > 1 => icache'[i].valid
        BY <4>2, Zenon
      <4> QED
        BY <3>2, <4>2, <4>6, <4>7, <4>8
    <3>3. CASE j # i
      <4>1. icache'[j] = icache[j]
        BY <1>1, <1>3, <3>3 DEF Slots
      <4>2. Is01(i, j) = 0
        BY <3>3 DEF Is01
      <4> QED
        BY <3>1, <3>3, <4>1, <4>2 DEF SlotType
    <3> QED
      BY <3>2, <3>3
  <2>2. DOMAIN icache' = Inums
    BY <1>1 DEF Slots
  <2> QED
    BY <2>1, <2>2 DEF Slots
<1>11. Types'
  <2>1. /\ Inodes1(inode') /\ Files1(files')
        /\ \A q \in Procs : ProcType(proc'[q])
    BY <1>1, <1>7, <1>9
  <2> QED
    BY <1>9, <1>10, <2>1, TypesNext
<1>12. PlaceInv'
  <2>1. \A q \in Procs : Place(proc'[q])
    BY <1>1, <1>8, <1>9
  <2>2. \A q \in Procs : Place(proc[q])'
    BY <2>1 DEF Place, Op
  <2> QED
    BY <2>2 DEF PlaceInv
<1>13. FdsInv'
  <2>1. \A q \in Procs : \A v \in Variables : proc'[q].fds[v] \in {0, proc[q].fds[v]}
    BY <1>6, <1>9 DEF k
  <2> QED
    BY <1>1, <1>11, <2>1, FdsKept
<1>14. RefsRight'
  <2>1. ASSUME NEW j \in Inums
        PROVE  icache'[j].ref + Has(k, j) + Cardinality(For(files, j)) =
               icache[j].ref + Has(n, j) + Cardinality(For(files', j))
    <3>1. /\ icache'[j].ref + Is01(i, j) = icache[j].ref
          /\ icache'[j].ref \in Nat /\ icache[j].ref \in Nat /\ Is01(i, j) \in Nat
      BY <1>1, <1>10, Is01Nat DEF Slots, SlotType
    <3>2. Has(k, j) = Has(n, j) + Is01(i, j) /\ Has(n, j) \in Nat
      <4>1. /\ Is01(k.cwd, j) \in Nat /\ Is01(k.ip, j) \in Nat /\ Is01(k.dp, j) \in Nat
            /\ Is01(k.old, j) \in Nat /\ Count(t, j) \in Nat /\ Is01(i, j) \in Nat
        BY <1>3, Is01Nat, PutsAreNumbers, OccursFinite
      <4>2. Count(k.puts, j) = Is01(i, j) + Count(t, j)
        BY <1>3
      <4> QED
        BY <1>6, <4>1, <4>2 DEF Has
    <3>3. For(files', j) = For(files, j) /\ Cardinality(For(files, j)) \in Nat
      BY <1>1, ForFinite
    <3> QED
      BY <3>1, <3>2, <3>3
  <2> QED
    BY <1>1, <1>9, <1>11, <2>1, RefsKept DEF k
<1>15. \A q \in Procs : /\ Locks(proc'[q]) = Locks(proc[q]) /\ Settled(proc'[q]) = Settled(proc[q])
                        /\ Locks(proc[q]) \subseteq Inums /\ Settled(proc[q]) \subseteq Inums
  <2>1. Locks(n) = Locks(k) /\ Settled(n) = Settled(k)
    BY <1>6 DEF Locks, Settled
  <2> QED
    BY <1>1, <1>9, <2>1, Inodes DEF k
<1>16. \A q \in Procs, j \in Inums : Freeing(q, j)' => Freeing(q, j)
  BY <1>6, <1>9 DEF Freeing
<1>17. LockInv'
  BY ZenonT(30), <1>1, <1>10, <1>15, <1>16 DEF LockInv
<1>18. SettledInv'
  <2>1. ASSUME NEW q \in Procs, NEW j \in Settled(proc'[q])
        PROVE  icache'[j].valid /\ \A r \in Procs : ~ Freeing(r, j)'
    <3>1. j \in Settled(proc[q]) /\ j \in Inums
      BY <1>15
    <3>2. icache[j].valid /\ \A r \in Procs : ~ Freeing(r, j)
      BY <1>1, <3>1 DEF SettledInv
    <3>3. j = i => icache[j].ref > 1
      BY <1>4, <3>1
    <3> QED
      BY <1>10, <1>16, <3>1, <3>2, <3>3
  <2> QED
    BY <2>1 DEF SettledInv
<1>19. OrphanInv'
  <2>1. ASSUME NEW j \in Inums, inode'[j].type # "none", inode'[j].nlink = 0
        PROVE  icache'[j].lost \/ (icache'[j].valid /\ icache'[j].ref > Cardinality(Leaving(j)'))
    <3>1. icache[j].lost \/ (icache[j].valid /\ icache[j].ref > Cardinality(Leaving(j)))
      BY <1>1, <2>1 DEF OrphanInv
    <3>2. Leaving(j)' = Leaving(j) \ {p}
      BY <1>6, <1>9 DEF Leaving
    <3>3. /\ IsFiniteSet(Leaving(j)) /\ Cardinality(Leaving(j)) \in Nat
          /\ icache[j].ref \in Nat /\ icache'[j].ref \in Nat
      BY <1>1, <1>10, LeavingFinite DEF Slots, SlotType
    <3>4. CASE j = i
      <4>1. Cardinality(Leaving(j)') = Cardinality(Leaving(j)) - 1
        <5>1. p \in Leaving(j)
          BY <1>5, <3>4
        <5>2. Cardinality(Leaving(j) \ {p}) = Cardinality(Leaving(j)) - 1
          BY <3>3, <5>1, FS_RemoveElement
        <5> QED
          BY <3>2, <5>2
      <4>2. Cardinality(Leaving(j)) # 0
        BY <1>5, <3>3, <3>4, FS_EmptySet
      <4>3. icache'[j].ref + 1 = icache[j].ref
        BY <1>10, <3>4, Is01Nat
      <4>4. CASE icache[j].valid /\ icache[j].ref > Cardinality(Leaving(j))
        <5>1. icache[j].ref > 1
          BY <3>3, <4>2, <4>4
        <5>2. icache'[j].valid
          BY <1>10, <4>4, <5>1
        <5> QED
          BY <3>3, <4>1, <4>3, <4>4, <5>2
      <4> QED
        BY <1>10, <3>1, <4>4
    <3>5. CASE j # i
      <4>1. Leaving(j)' = Leaving(j)
        BY <1>21, <3>2, <3>5
      <4>2. icache'[j].ref = icache[j].ref
        <5>1. Is01(i, j) = 0
          BY <3>5 DEF Is01
        <5> QED
          BY <1>10, <3>3, <5>1
      <4> QED
        BY <1>10, <3>1, <3>5, <4>1, <4>2
    <3> QED
      BY <3>4, <3>5
  <2> QED
    BY <2>1 DEF OrphanInv
<1> QED
  BY <1>11, <1>12, <1>13, <1>14, <1>17, <1>18, <1>19 DEF IInv

----------------------------------------------------------------------------
(* The initial state, and the theorems.                                     *)

\* The programs that run are at most NPROC, each one of Programs.
LEMMA ScriptFacts ==
  ASSUME NEW s, s \in Seq(DOMAIN Programs), Len(s) <= NPROC
  PROVE  /\ Len(s) \in Nat /\ DOMAIN s = 1 .. Len(s) /\ 1 .. Len(s) \subseteq Procs
         /\ \A p \in 1 .. Len(s) : s[p] \in DOMAIN Programs
<1>1. NPROC \in Nat
  BY NamesAssumption
<1>2. Len(s) \in Nat /\ DOMAIN s = 1 .. Len(s) /\ \A p \in 1 .. Len(s) : s[p] \in DOMAIN Programs
  OBVIOUS
<1>3. 1 .. Len(s) \subseteq 1 .. NPROC
  BY <1>1, <1>2
<1> QED
  BY <1>2, <1>3 DEF Procs

\* A process as Init has it: it has not started, or it holds the root as its cwd.
Fresh(k) ==
  /\ DOMAIN k = ProcFields /\ k.ip = 0 /\ k.dp = 0 /\ k.old = 0 /\ k.puts = <<>>
  /\ k.put = "lock" /\ k.kids = {} /\ k.path = <<>> /\ k.fds = [v \in Variables |-> 0]
  /\ \/ k.at = "unused" /\ k.cwd = 0
     \/ k.at = "user" /\ k.cwd = ROOTINO /\ k.prog \in DOMAIN Programs

\* The processes of Init are such.
LEMMA FreshProcs ==
  /\ Fresh(Unused) /\ Unused.cwd = 0
  /\ \A e \in DOMAIN Programs :
       LET k == [Unused EXCEPT !.prog = e, !.at = "user", !.cwd = ROOTINO]
       IN  Fresh(k) /\ k.cwd = ROOTINO
<1>1. /\ DOMAIN Unused = ProcFields /\ Unused.at = "unused" /\ Unused.ip = 0 /\ Unused.dp = 0
      /\ Unused.old = 0 /\ Unused.cwd = 0 /\ Unused.puts = <<>> /\ Unused.put = "lock"
      /\ Unused.kids = {} /\ Unused.path = <<>> /\ Unused.fds = [v \in Variables |-> 0]
  BY DEF Unused, ProcFields
<1>2. Fresh(Unused)
  <2> DEFINE k == Unused
  <2>1. /\ DOMAIN k = ProcFields /\ k.ip = 0 /\ k.dp = 0 /\ k.old = 0 /\ k.puts = <<>>
        /\ k.put = "lock" /\ k.kids = {} /\ k.path = <<>> /\ k.fds = [v \in Variables |-> 0]
        /\ k.at = "unused" /\ k.cwd = 0
    BY <1>1
  <2> HIDE DEF k
  <2>2. Fresh(k)
    BY <2>1 DEF Fresh
  <2> QED
    BY <2>2 DEF k
<1>3. ASSUME NEW e \in DOMAIN Programs
      PROVE  LET k == [Unused EXCEPT !.prog = e, !.at = "user", !.cwd = ROOTINO]
             IN  Fresh(k) /\ k.cwd = ROOTINO
  <2> DEFINE k == [Unused EXCEPT !.prog = e, !.at = "user", !.cwd = ROOTINO]
  <2>1. /\ DOMAIN k = ProcFields /\ k.ip = 0 /\ k.dp = 0 /\ k.old = 0 /\ k.puts = <<>>
        /\ k.put = "lock" /\ k.kids = {} /\ k.path = <<>> /\ k.fds = [v \in Variables |-> 0]
        /\ k.at = "user" /\ k.cwd = ROOTINO /\ k.prog = e
    BY <1>1 DEF ProcFields
  <2> HIDE DEF k
  <2>2. Fresh(k) /\ k.cwd = ROOTINO
    BY <2>1 DEF Fresh
  <2> QED
    BY <2>2 DEF k
<1> QED
  BY <1>1, <1>2, <1>3

\* Such a process has locked nothing, and its place is right.
LEMMA FreshCalm ==
  ASSUME NEW k, Fresh(k)
  PROVE  Calm(k) /\ Locks(k) = {} /\ Settled(k) = {}
<1>1. ProcType(k)
  <2>1. Sequence(<<>>) /\ <<>> \in Seq(Inums)
    BY DEF Sequence
  <2>2. 0 \in 0 .. NFILE /\ 0 \in 0 .. ninodes
    BY NamesAssumption
  <2>3. ROOTINO \in 0 .. ninodes
    BY Tables
  <2>4. k.fds \in [Variables -> 0 .. NFILE]
    BY <2>2 DEF Fresh
  <2> QED
    BY <2>1, <2>2, <2>3, <2>4 DEF ProcType, Fresh
<1>2. Unused.fds = [v \in Variables |-> 0]
  BY DEF Unused
<1>3. Place(k)
  BY <1>2, Tables DEF Place, HasIp, HasDp, HasOld, Waiting, Fresh
<1>4. Locks(k) = {} /\ Settled(k) = {}
  BY DEF Locks, Settled, Fresh
<1> QED
  BY <1>1, <1>3, <1>4 DEF Calm, Fresh

\* It holds its cwd once, and nothing else.
LEMMA FreshHolds ==
  ASSUME NEW k, Fresh(k), NEW i \in Inums
  PROVE  Holds(k, i) = IF k.cwd = i THEN {1} ELSE {}
<1> DEFINE u == <<k.cwd, 0, 0, 0>>
<1>1. Held(k) = u \o <<>>
  BY DEF Held, Fresh
<1>2. i # 0
  BY Tables
<1>3. u \in Seq({k.cwd, 0}) /\ Len(u) = 4 /\ u[1] = k.cwd /\ u[2] = 0 /\ u[3] = 0 /\ u[4] = 0
  OBVIOUS
<1> HIDE DEF u
<1>4. u \o <<>> = u /\ DOMAIN u = 1 .. 4
  BY <1>3
<1>5. Holds(k, i) = {j \in 1 .. 4 : u[j] = i}
  BY <1>1, <1>4 DEF Holds
<1>6. \A j \in 1 .. 4 : j = 1 \/ j = 2 \/ j = 3 \/ j = 4
  OBVIOUS
<1>7. \A j \in 1 .. 4 : u[j] = i <=> j = 1 /\ k.cwd = i
  BY <1>2, <1>3, <1>6
<1> QED
  BY <1>5, <1>7

\* In the beginning processes hold their cwd, the root.
LEMMA HeldInitially ==
  ASSUME NEW n \in Nat, 1 .. n \subseteq Procs,
         \A p \in Procs : Fresh(proc[p]) /\ proc[p].cwd = IF p \in 1 .. n THEN ROOTINO ELSE 0
  PROVE  /\ Cardinality(Holders(ROOTINO)) = n
         /\ \A i \in Inums : i # ROOTINO => Holders(i) = {}
<1>1. ROOTINO \in Inums /\ 0 \notin Inums
  BY Tables
<1>2. ASSUME NEW p \in Procs, NEW i \in Inums
      PROVE  Holds(proc[p], i) = IF p \in 1 .. n /\ i = ROOTINO THEN {1} ELSE {}
  <2>1. Holds(proc[p], i) = IF proc[p].cwd = i THEN {1} ELSE {}
    BY FreshHolds
  <2> QED
    BY <1>1, <2>1
<1>3. \A i \in Inums : i # ROOTINO => Holders(i) = {}
  BY <1>2 DEF Holders
<1>4. Holders(ROOTINO) = (1 .. n) \X {1}
  <2> DEFINE H(p) == Holds(proc[p], ROOTINO)
  <2>1. \A p \in Procs : H(p) = IF p \in 1 .. n THEN {1} ELSE {}
    BY <1>1, <1>2
  <2>2. Holders(ROOTINO) = UNION {{p} \X H(p) : p \in Procs}
    BY DEF Holders
  <2> HIDE DEF H
  <2> QED
    BY <2>1, <2>2
<1>5. Cardinality((1 .. n) \X {1}) = n
  <2>1. 1 \in Int /\ n \in Int
    OBVIOUS
  <2>2. IsFiniteSet(1 .. n) /\ Cardinality(1 .. n) = n
    BY <2>1, FS_Interval
  <2>3. IsFiniteSet({1}) /\ Cardinality({1}) = 1
    BY FS_Singleton
  <2>4. Cardinality((1 .. n) \X {1}) = n * 1
    BY ZenonT(30), <2>2, <2>3, FS_Product
  <2> QED
    BY <2>4
<1> QED
  BY <1>3, <1>4, <1>5

\* The file system of mkfs.
LEMMA InodesInitially ==
  ASSUME Init
  PROVE  /\ Inodes1(inode)
         /\ \A i \in Inums : inode[i].type # "none" => inode[i].nlink = 1
<1> DEFINE named == SetToSeq(Files)  c == Cardinality(Files)
           root == [type |-> "T_DIR", nlink |-> 1, data |-> <<>>,
                    entries |-> {<<".", ROOTINO>>, <<"..", ROOTINO>>} \cup
                                {<<named[j], j + 1>> : j \in DOMAIN named}]
           file == [Free EXCEPT !.type = "T_FILE", !.nlink = 1]
<1>1. c \in Nat /\ c < ninodes /\ ninodes \in Nat /\ DOMAIN named = 1 .. c
  <2>1. named \in Bijection(1 .. c, Files) /\ c \in Nat
    BY Enumerated, NamesAssumption
  <2>2. named \in [1 .. c -> Files]
    <3> HIDE DEF named, c
    <3> QED
      BY <2>1, Fun_BijectionProperties
  <2> QED
    BY <2>1, <2>2, NamesAssumption
<1>2. inode = [i \in Inums |-> IF i = ROOTINO THEN root
                               ELSE IF i - 1 \in DOMAIN named THEN file ELSE Free]
  BY DEF Init
<1> HIDE DEF named, c
<1>3. InodeType(root) /\ root.nlink = 1
  <2>1. \A j \in 1 .. c : j + 1 \in Inums
    BY <1>1 DEF Inums
  <2> QED
    BY <1>1, <2>1, Tables DEF InodeType
<1>4. InodeType(file) /\ file.nlink = 1 /\ InodeType(Free) /\ Free.type = "none"
  BY DEF InodeType, Free
<1> HIDE DEF root, file
<1>5. \A i \in Inums : inode[i] \in {root, file, Free}
  BY <1>2
<1> QED
  BY <1>2, <1>3, <1>4, <1>5 DEF Inodes1

\* The invariant holds in the beginning.
LEMMA InitInv ==
  ASSUME Init
  PROVE  IInv
<1>1. /\ Inodes1(inode) /\ \A i \in Inums : inode[i].type # "none" => inode[i].nlink = 1
  BY InodesInitially
<1>2. PICK s \in Scripts :
        /\ proc = [p \in Procs |->
             IF p \in DOMAIN s
             THEN [Unused EXCEPT !.prog = s[p], !.at = "user", !.cwd = ROOTINO] ELSE Unused]
        /\ icache = [i \in Inums |->
             [ref |-> IF i = ROOTINO THEN Len(s) ELSE 0, valid |-> FALSE, lock |-> 0, lost |-> FALSE]]
  BY DEF Init
<1>3. s \in Seq(DOMAIN Programs) /\ Len(s) <= NPROC /\ ROOTINO \in Inums /\ Len(s) \in Nat
  BY NamesAssumption, Tables
<1>4. /\ DOMAIN proc = Procs
      /\ \A p \in Procs : Calm(proc[p]) /\ Locks(proc[p]) = {} /\ Settled(proc[p]) = {}
                          /\ proc[p].fds = [v \in Variables |-> 0]
      /\ Cardinality(Holders(ROOTINO)) = Len(s)
      /\ \A i \in Inums : i # ROOTINO => Holders(i) = {}
  <2>1. /\ DOMAIN s = 1 .. Len(s) /\ 1 .. Len(s) \subseteq Procs
        /\ \A p \in 1 .. Len(s) : s[p] \in DOMAIN Programs
    BY <1>3, ScriptFacts
  <2>2. DOMAIN proc = Procs
    BY <1>2
  <2>3. ASSUME NEW p \in Procs
        PROVE  Fresh(proc[p]) /\ proc[p].cwd = IF p \in 1 .. Len(s) THEN ROOTINO ELSE 0
    <3>1. CASE p \in 1 .. Len(s)
      <4>1. proc[p] = [Unused EXCEPT !.prog = s[p], !.at = "user", !.cwd = ROOTINO]
        BY <1>2, <2>1, <3>1
      <4>2. s[p] \in DOMAIN Programs
        BY <2>1, <3>1
      <4> QED
        BY <3>1, <4>1, <4>2, FreshProcs
    <3>2. CASE p \notin 1 .. Len(s)
      <4>1. proc[p] = Unused
        BY <1>2, <2>1, <3>2
      <4> QED
        BY <3>2, <4>1, FreshProcs
    <3> QED
      BY <3>1, <3>2
  <2>4. \A p \in Procs : /\ Calm(proc[p]) /\ Locks(proc[p]) = {} /\ Settled(proc[p]) = {}
                         /\ proc[p].fds = [v \in Variables |-> 0]
    BY <2>3, FreshCalm DEF Fresh
  <2> DEFINE n == Len(s)
  <2>5. n \in Nat /\ 1 .. n \subseteq Procs
    BY <1>3, <2>1
  <2>6. \A p \in Procs : Fresh(proc[p]) /\ proc[p].cwd = IF p \in 1 .. n THEN ROOTINO ELSE 0
    BY <2>3
  <2> HIDE DEF n
  <2>7. Cardinality(Holders(ROOTINO)) = n /\ \A i \in Inums : i # ROOTINO => Holders(i) = {}
    BY <2>5, <2>6, HeldInitially
  <2> QED
    BY <2>2, <2>4, <2>7 DEF n
<1>5. /\ Slots(icache)
      /\ \A i \in Inums : icache[i].ref = IF i = ROOTINO THEN Len(s) ELSE 0
  <2>1. \A i \in Inums : /\ SlotType(icache[i])
                         /\ icache[i].ref = IF i = ROOTINO THEN Len(s) ELSE 0
    BY <1>2, <1>3 DEF SlotType
  <2> QED
    BY <1>2, <2>1 DEF Slots
<1>6. Files1(files) /\ \A f \in 1 .. NFILE : files[f].ref = 0
  <2>1. NoFile.ref = 0 /\ DOMAIN NoFile = {"ref", "ip", "off", "omode"}
    BY DEF NoFile
  <2>2. files = [f \in 1 .. NFILE |-> NoFile]
    BY DEF Init
  <2> QED
    BY <2>1, <2>2 DEF Files1, FileType
<1>7. Types
  BY <1>1, <1>4, <1>5, <1>6, TypesNow DEF Calm
<1>8. PlaceInv
  BY <1>4 DEF PlaceInv, Calm
<1>9. FdsInv
  <2>1. \A f \in 1 .. NFILE : HaveFile(f) = {}
    BY <1>4 DEF HaveFile, Ofile
  <2>2. Cardinality({}) = 0
    BY FS_EmptySet
  <2>3. \A p \in Procs : proc[p].fds["fd"] = 0
    BY <1>4 DEF Variables
  <2> QED
    BY <1>6, <2>1, <2>2, <2>3 DEF FdsInv
<1>10. RefsRight
  <2>1. \A i \in Inums : FilesOf(i) = {}
    BY <1>6 DEF FilesOf, Files1
  <2>2. Cardinality({}) = 0
    BY FS_EmptySet
  <2>3. ASSUME NEW i \in Inums PROVE icache[i].ref = Cardinality(Holders(i)) + Cardinality(FilesOf(i))
    <3>1. Cardinality(FilesOf(i)) = 0
      BY <2>1, <2>2
    <3>2. CASE i = ROOTINO
      BY <1>3, <1>4, <1>5, <3>1, <3>2
    <3>3. CASE i # ROOTINO
      <4>1. Cardinality(Holders(i)) = 0
        BY <1>4, <2>2, <3>3
      <4> QED
        BY <1>5, <3>1, <3>3, <4>1
    <3> QED
      BY <3>2, <3>3
  <2> QED
    BY <2>3 DEF RefsRight
<1>11. LockInv
  BY <1>4 DEF LockInv, Freeing, Calm
<1>12. SettledInv
  BY <1>4 DEF SettledInv
<1>13. OrphanInv
  BY <1>1 DEF OrphanInv
<1> QED
  BY <1>7, <1>8, <1>9, <1>10, <1>11, <1>12, <1>13 DEF IInv

\* Every step keeps the invariant.
LEMMA NextInv ==
  ASSUME IInv, [Next]_vars
  PROVE  IInv'
<1>1. CASE UNCHANGED vars
  BY <1>1, StillStep DEF vars
<1>2. ASSUME NEW p \in Procs, Step(p) PROVE IInv'
  <2>1. CASE iput(p) \/ iput_free(p) \/ iput_deref(p)
    BY <2>1, IputStep, IputFreeStep, IputDerefStep
  <2>2. CASE begin(p) \/ namex(p)
    BY <2>2, BeginStep, NamexStep
  <2>3. CASE link(p) \/ link_dir(p) \/ link_exists(p) \/ link_bad(p)
    BY <2>3, LinkStep, LinkDirStep, LinkExistsStep, LinkBadStep
  <2>4. CASE unlink(p) \/ unlink_ip(p) \/ unlink_bad(p) \/ unlink_last(p)
    BY <2>4, UnlinkStep, UnlinkIpStep, UnlinkBadStep, UnlinkLastStep
  <2>5. CASE create(p) \/ created(p) \/ create_found(p) \/ open(p) \/ chdir(p)
    BY <2>5, CreateStep, CreatedStep, CreateFoundStep, OpenStep, ChdirStep
  <2>6. CASE close(p) \/ read(p) \/ write(p)
    BY <2>6, CloseStep, ReadStep, WriteStep
  <2>7. CASE console(p) \/ console_end(p) \/ consoleread(p)
    BY <2>7, ConsoleStep, ConsoleEndStep, ConsolereadStep
  <2>8. CASE fork(p) \/ exit(p) \/ wait(p)
    BY <2>8, ForkStep, ExitStep, WaitStep
  <2> QED
    BY <1>2, <2>1, <2>2, <2>3, <2>4, <2>5, <2>6, <2>7, <2>8 DEF Step
<1>3. CASE consoleintr
  BY <1>3, ConsoleintrStep
<1> QED
  BY <1>1, <1>2, <1>3 DEF Next

\* Whatever the programs do and however the tables are sized, the invariant of NamesInv holds.
THEOREM NamesInvariant == Spec => []IInv
<1>1. Init => IInv
  BY InitInv
<1>2. IInv /\ [Next]_vars => IInv'
  BY NextInv
<1> QED
  BY <1>1, <1>2, PTL DEF Spec

\* In every state, in the middle of every call and on each of its error paths, the count of
\* references of an inode in the cache (iget, idup, iput) is what processes and open files hold.
THEOREM NamesRefsRight == Spec => []RefsRight
<1>1. IInv => RefsRight
  BY DEF IInv
<1> QED
  BY <1>1, NamesInvariant, PTL

\* An inode whose last link is gone stays allocated only while somebody holds it, who will free
\* it (iput), or after two processes have missed that together: no other call leaks an inode.
THEOREM NamesNoOrphan == Spec => []NoOrphan
<1>1. IInv => NoOrphan
  <2> SUFFICES ASSUME IInv PROVE NoOrphan
    OBVIOUS
  <2>1. ASSUME NEW i \in Inums, inode[i].type # "none", inode[i].nlink = 0
        PROVE  icache[i].ref > 0 \/ icache[i].lost
    <3>1. icache[i].lost \/ (icache[i].valid /\ icache[i].ref > Cardinality(Leaving(i)))
      BY <2>1 DEF IInv, OrphanInv
    <3>2. icache[i].ref \in Nat /\ Cardinality(Leaving(i)) \in Nat
      BY LeavingFinite DEF IInv, Types, SlotType
    <3> QED
      BY <3>1, <3>2
  <2> QED
    BY <2>1 DEF NoOrphan
<1> QED
  BY <1>1, NamesInvariant, PTL
=============================================================================
