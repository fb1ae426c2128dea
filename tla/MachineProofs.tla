---------------------------- MODULE MachineProofs ----------------------------
(***************************************************************************)
(* Proof that MachineInv!IInv is an invariant of Machine, and of what       *)
(* follows from it.                                                        *)
(***************************************************************************)
EXTENDS MachineInv, FiniteSetTheorems, WellFoundedInduction, SequenceTheorems, TLAPS

\* The least of some numbers is one of them.
LEMMA Least ==
  ASSUME NEW S \in SUBSET Nat, S # {}
  PROVE  Min(S) \in S
<1>1. PICK x \in S : \A y \in S : ~ (<<y, x>> \in OpToRel(<, Nat))
  <2>1. IsWellFoundedOn(OpToRel(<, Nat), Nat)
    BY NatLessThanWellFounded
  <2> QED BY <2>1, WFMin
<1>2. ASSUME NEW y \in S PROVE x <= y
  <2>1. <<y, x>> \in Nat \X Nat /\ x \in Nat /\ y \in Nat
    OBVIOUS
  <2>2. y < x => <<y, x>> \in OpToRel(<, Nat)
    BY <2>1 DEF OpToRel
  <2>3. ~ (<<y, x>> \in OpToRel(<, Nat))
    BY <1>1
  <2>4. ~ (y < x)
    BY <2>2, <2>3
  <2> QED BY <2>1, <2>4
<1>3. \E z \in S : \A y \in S : z <= y
  BY <1>2
<1> QED BY <1>3 DEF Min

----------------------------------------------------------------------------
(* Instructions.                                                           *)

LEMMA FieldsOn ==
  ASSUME NEW op, NEW n
  PROVE  On(op, n).op = op /\ On(op, n).n = n
  BY DEF On

LEMMA FieldsLock ==
  ASSUME NEW l
  PROVE  /\ acquire(l).op = "acquire" /\ acquire(l).on = l
         /\ release(l).op = "release" /\ release(l).on = l
  BY DEF acquire, release

LEMMA TypeOfDo ==
  ASSUME NEW X, NEW op \in X, op \notin {"acquire", "release"}
  PROVE  Do(op) \in Instructions(X) /\ \A n \in Int : On(op, n) \in Instructions(X)
<1>1. ASSUME NEW n \in Int PROVE On(op, n) \in Instructions(X)
  <2>1. "none" \in LockNames
    BY DEF LockNames
  <2>2. On(op, n) \in [op : X, on : LockNames, n : Int, since : Int]
    BY <2>1 DEF On
  <2> QED BY <2>2, FieldsOn DEF Instructions
<1>2. Do(op) \in Instructions(X)
  BY <1>1 DEF Do
<1> QED BY <1>1, <1>2

LEMMA TypeOfLock ==
  ASSUME NEW X, {"acquire", "release"} \subseteq X, NEW l \in Locks
  PROVE  acquire(l) \in Instructions(X) /\ release(l) \in Instructions(X)
<1>1. l \in LockNames
  BY DEF LockNames
<1>2. acquire(l) \in [op : X, on : LockNames, n : Int, since : Int]
  BY <1>1 DEF acquire
<1>3. release(l) \in [op : X, on : LockNames, n : Int, since : Int]
  BY <1>1 DEF release
<1> QED BY <1>2, <1>3, FieldsLock DEF Instructions

LEMMA MoreOps ==
  ASSUME NEW X, NEW Y, X \subseteq Y
  PROVE  Seq(Instructions(X)) \subseteq Seq(Instructions(Y))
<1>1. Instructions(X) \subseteq Instructions(Y)
  BY DEF Instructions
<1> QED BY <1>1, SeqMonotonic

----------------------------------------------------------------------------
(* Paths.                                                                  *)

LEMMA PathEmpty ==
  ASSUME NEW h \in SUBSET Tokens
  PROVE  Path(<<>>, h, h)
<1>1. PICK f : f = [i \in 1 .. Len(<<>>) + 1 |-> h]
  OBVIOUS
<1>2. Len(<<>>) = 0
  OBVIOUS
<1>3. f \in [1 .. Len(<<>>) + 1 -> SUBSET Tokens] /\ f[1] = h /\ f[Len(<<>>) + 1] = h
  BY <1>1, <1>2
<1>4. \A i \in 1 .. Len(<<>>) : Leads(f[i], <<>>[i], f[i + 1])
  BY <1>2
<1> QED BY <1>3, <1>4 DEF Path

LEMMA PathNil ==
  ASSUME NEW h, NEW k, Path(<<>>, h, k)
  PROVE  h = k
  BY DEF Path

LEMMA PathEnds ==
  ASSUME NEW S, NEW s \in Seq(S), NEW h, NEW k, Path(s, h, k)
  PROVE  h \in SUBSET Tokens /\ k \in SUBSET Tokens
<1>1. PICK f \in [1 .. Len(s) + 1 -> SUBSET Tokens] : f[1] = h /\ f[Len(s) + 1] = k
  BY DEF Path
<1>2. Len(s) \in Nat
  BY LenProperties
<1>3. 1 \in 1 .. Len(s) + 1 /\ Len(s) + 1 \in 1 .. Len(s) + 1
  BY <1>2
<1> QED BY <1>1, <1>3

LEMMA PathOne ==
  ASSUME NEW S, NEW i \in S, NEW h \in SUBSET Tokens, NEW k \in SUBSET Tokens, Leads(h, i, k)
  PROVE  Path(<<i>>, h, k)
<1>1. PICK f : f = [j \in 1 .. 2 |-> IF j = 1 THEN h ELSE k]
  OBVIOUS
<1>2. f \in [1 .. 2 -> SUBSET Tokens] /\ f[1] = h /\ f[2] = k
  BY <1>1
<1>3. Len(<<i>>) = 1 /\ <<i>>[1] = i
  OBVIOUS
<1>4. \A j \in 1 .. Len(<<i>>) : j = 1
  BY <1>3
<1>5. f \in [1 .. Len(<<i>>) + 1 -> SUBSET Tokens] /\ f[Len(<<i>>) + 1] = k
  BY <1>2, <1>3
<1>6. \A j \in 1 .. Len(<<i>>) : Leads(f[j], <<i>>[j], f[j + 1])
  <2>1. ASSUME NEW j \in 1 .. Len(<<i>>) PROVE f[j] = h /\ <<i>>[j] = i /\ f[j + 1] = k
    BY <1>2, <1>3, <1>4
  <2> QED BY <2>1
<1> QED BY <1>2, <1>5, <1>6 DEF Path

LEMMA PathConcat ==
  ASSUME NEW S, NEW s \in Seq(S), NEW u \in Seq(S), NEW h, NEW k, NEW m, Path(s, h, k), Path(u, k, m)
  PROVE  Path(s \o u, h, m)
<1>1. PICK f \in [1 .. Len(s) + 1 -> SUBSET Tokens] :
        f[1] = h /\ f[Len(s) + 1] = k /\ \A i \in 1 .. Len(s) : Leads(f[i], s[i], f[i + 1])
  BY DEF Path
<1>2. PICK g \in [1 .. Len(u) + 1 -> SUBSET Tokens] :
        g[1] = k /\ g[Len(u) + 1] = m /\ \A i \in 1 .. Len(u) : Leads(g[i], u[i], g[i + 1])
  BY DEF Path
<1>3. PICK a \in Nat, b \in Nat : a = Len(s) /\ b = Len(u)
  BY LenProperties
<1>4. Len(s \o u) = a + b /\ \A i \in 1 .. a + b : (s \o u)[i] = IF i <= a THEN s[i] ELSE u[i - a]
  BY <1>3, ConcatProperties
<1>5. PICK r : r = [i \in 1 .. a + b + 1 |-> IF i <= a THEN f[i] ELSE g[i - a]]
  OBVIOUS
<1>6. r \in [1 .. a + b + 1 -> SUBSET Tokens]
  <2>1. ASSUME NEW i \in 1 .. a + b + 1 PROVE (IF i <= a THEN f[i] ELSE g[i - a]) \in SUBSET Tokens
    <3>1. CASE i <= a
      <4>1. i \in 1 .. Len(s) + 1
        BY <1>3, <3>1
      <4>2. f[i] \in SUBSET Tokens
        BY <4>1
      <4> QED BY <3>1, <4>2
    <3>2. CASE ~ (i <= a)
      <4>1. i - a \in 1 .. b + 1
        BY <3>2
      <4> QED BY <1>3, <3>2, <4>1
    <3> QED BY <3>1, <3>2
  <2> QED BY <1>5, <2>1
<1>7. r[1] = h
  <2>1. CASE a = 0
    <3>1. h = k
      BY <1>1, <1>3, <2>1
    <3> QED BY <1>2, <1>5, <2>1, <3>1
  <2>2. CASE a # 0
    BY <1>1, <1>5, <2>2
  <2> QED BY <2>1, <2>2
<1>8. r[a + b + 1] = m
  <2>1. a + b + 1 \in 1 .. a + b + 1 /\ ~ (a + b + 1 <= a) /\ (a + b + 1) - a = b + 1
    OBVIOUS
  <2> QED BY <1>2, <1>3, <1>5, <2>1
<1>9. ASSUME NEW i \in 1 .. a + b PROVE Leads(r[i], (s \o u)[i], r[i + 1])
  <2>1. CASE i < a
    <3>1. r[i] = f[i] /\ r[i + 1] = f[i + 1] /\ (s \o u)[i] = s[i] /\ i \in 1 .. a
      BY <1>4, <1>5, <2>1
    <3> QED BY <1>1, <1>3, <3>1
  <2>2. CASE i = a
    <3>1. r[i] = f[i] /\ r[i + 1] = g[1] /\ (s \o u)[i] = s[i] /\ i \in 1 .. a
      BY <1>4, <1>5, <2>2
    <3>2. r[i + 1] = f[i + 1]
      BY <1>1, <1>2, <1>3, <2>2, <3>1
    <3> QED BY <1>1, <1>3, <3>1, <3>2
  <2>3. CASE i > a
    <3>1. i - a \in 1 .. b /\ (i + 1) - a = (i - a) + 1 /\ ~ (i <= a) /\ ~ (i + 1 <= a) /\ i \in 1 .. a + b + 1 /\ i + 1 \in 1 .. a + b + 1
      BY <2>3
    <3>2. r[i] = g[i - a] /\ r[i + 1] = g[(i - a) + 1] /\ (s \o u)[i] = u[i - a]
      BY <1>4, <1>5, <3>1
    <3> QED BY <1>2, <1>3, <3>1, <3>2
  <2> QED BY <1>3, <2>1, <2>2, <2>3
<1> QED BY <1>4, <1>6, <1>7, <1>8, <1>9 DEF Path

LEMMA PathHead ==
  ASSUME NEW S, NEW s \in Seq(S), s # <<>>, NEW h, NEW m, Path(s, h, m)
  PROVE  \E k \in SUBSET Tokens : Leads(h, Head(s), k) /\ Path(Tail(s), k, m)
<1>1. PICK f \in [1 .. Len(s) + 1 -> SUBSET Tokens] :
        f[1] = h /\ f[Len(s) + 1] = m /\ \A i \in 1 .. Len(s) : Leads(f[i], s[i], f[i + 1])
  BY DEF Path
<1>2. PICK n \in Nat \ {0} : n = Len(s)
  BY EmptySeq
<1>3. Len(Tail(s)) = n - 1 /\ Head(s) = s[1] /\ \A i \in 1 .. n - 1 : Tail(s)[i] = s[i + 1]
  BY <1>2, HeadTailProperties
<1>4. PICK g : g = [i \in 1 .. n |-> f[i + 1]]
  OBVIOUS
<1>5. g \in [1 .. n -> SUBSET Tokens]
  <2>1. \A i \in 1 .. n : i + 1 \in 1 .. Len(s) + 1
    BY <1>2
  <2> QED BY <1>4, <2>1
<1>6. g[1] = f[2] /\ g[n] = m /\ (n - 1) + 1 = n
  BY <1>1, <1>2, <1>4
<1>7. ASSUME NEW i \in 1 .. n - 1 PROVE Leads(g[i], Tail(s)[i], g[i + 1])
  <2>1. g[i] = f[i + 1] /\ g[i + 1] = f[(i + 1) + 1] /\ Tail(s)[i] = s[i + 1] /\ i + 1 \in 1 .. Len(s)
    BY <1>2, <1>3, <1>4
  <2> QED BY <1>1, <2>1
<1>8. Path(Tail(s), f[2], m)
  BY <1>3, <1>5, <1>6, <1>7 DEF Path
<1>9. Leads(h, Head(s), f[2]) /\ f[2] \in SUBSET Tokens
  <2>1. 1 \in 1 .. Len(s) /\ 2 \in 1 .. Len(s) + 1 /\ 1 + 1 = 2
    BY <1>2
  <2> QED BY <1>1, <1>3, <2>1
<1> QED BY <1>8, <1>9

----------------------------------------------------------------------------
(* Code that is typed and leads somewhere.                                 *)

Good(s, X, h, k) == s \in Seq(Instructions(X)) /\ Path(s, h, k)

LEMMA GoodEmpty ==
  ASSUME NEW X, NEW h \in SUBSET Tokens
  PROVE  Good(<<>>, X, h, h)
  BY PathEmpty DEF Good

LEMMA GoodConcat ==
  ASSUME NEW X, NEW s, NEW u, NEW h, NEW k, NEW m, Good(s, X, h, k), Good(u, X, k, m)
  PROVE  Good(s \o u, X, h, m)
<1>1. s \in Seq(Instructions(X)) /\ u \in Seq(Instructions(X)) /\ Path(s, h, k) /\ Path(u, k, m)
  BY DEF Good
<1>2. Path(s \o u, h, m)
  BY <1>1, PathConcat
<1>3. s \o u \in Seq(Instructions(X))
  BY <1>1, ConcatProperties
<1> QED BY <1>2, <1>3 DEF Good

LEMMA GoodMore ==
  ASSUME NEW X, NEW Y, X \subseteq Y, NEW s, NEW h, NEW k, Good(s, X, h, k)
  PROVE  Good(s, Y, h, k)
  BY MoreOps DEF Good

LEMMA GoodOne ==
  ASSUME NEW X, NEW i \in Instructions(X), NEW h \in SUBSET Tokens, NEW k \in SUBSET Tokens, Leads(h, i, k)
  PROVE  Good(<<i>>, X, h, k)
<1>1. Path(<<i>>, h, k)
  BY PathOne
<1>2. <<i>> \in Seq(Instructions(X))
  OBVIOUS
<1> QED BY <1>1, <1>2 DEF Good

LEMMA Join2 ==
  ASSUME NEW i, NEW j
  PROVE  <<i>> \o <<j>> = <<i, j>>
<1>1. PICK S : S = {i, j}
  OBVIOUS
<1>2. <<i>> \in Seq(S) /\ <<j>> \in Seq(S) /\ <<i, j>> \in Seq(S)
  BY <1>1
<1>3. PICK s \in Seq(S), u \in Seq(S), r \in Seq(S) : s = <<i>> /\ u = <<j>> /\ r = <<i, j>>
  BY <1>2
<1>4. Len(s) = 1 /\ Len(u) = 1 /\ Len(r) = 2
  BY <1>3
<1>5. s \o u \in Seq(S) /\ Len(s \o u) = 2
      /\ \A x \in 1 .. 2 : (s \o u)[x] = IF x <= 1 THEN s[x] ELSE u[x - 1]
  BY <1>3, <1>4, ConcatProperties
<1>6. (s \o u)[1] = r[1] /\ (s \o u)[2] = r[2]
  BY <1>3, <1>5
<1>7. \A x \in 1 .. 2 : (s \o u)[x] = r[x]
  <2>1. \A x \in 1 .. 2 : x = 1 \/ x = 2
    OBVIOUS
  <2> QED BY <1>6, <2>1
<1>8. s \o u = r
  BY <1>3, <1>4, <1>5, <1>7, SeqEqual
<1> QED BY <1>3, <1>8

LEMMA Join3 ==
  ASSUME NEW i, NEW j, NEW l
  PROVE  <<i>> \o <<j, l>> = <<i, j, l>>
<1>1. PICK S : S = {i, j, l}
  OBVIOUS
<1>2. <<i>> \in Seq(S) /\ <<j, l>> \in Seq(S) /\ <<i, j, l>> \in Seq(S)
  BY <1>1
<1>3. PICK s \in Seq(S), u \in Seq(S), r \in Seq(S) : s = <<i>> /\ u = <<j, l>> /\ r = <<i, j, l>>
  BY <1>2
<1>4. Len(s) = 1 /\ Len(u) = 2 /\ Len(r) = 3
  BY <1>3
<1>5. s \o u \in Seq(S) /\ Len(s \o u) = 3
      /\ \A x \in 1 .. 3 : (s \o u)[x] = IF x <= 1 THEN s[x] ELSE u[x - 1]
  BY <1>3, <1>4, ConcatProperties
<1>6. (s \o u)[1] = r[1] /\ (s \o u)[2] = r[2] /\ (s \o u)[3] = r[3]
  BY <1>3, <1>5
<1>7. \A x \in 1 .. 3 : (s \o u)[x] = r[x]
  <2>1. \A x \in 1 .. 3 : x = 1 \/ x = 2 \/ x = 3
    OBVIOUS
  <2> QED BY <1>6, <2>1
<1>8. s \o u = r
  BY <1>3, <1>4, <1>5, <1>7, SeqEqual
<1> QED BY <1>3, <1>8

LEMMA Join4 ==
  ASSUME NEW i, NEW j, NEW l, NEW o
  PROVE  <<i>> \o <<j, l, o>> = <<i, j, l, o>>
<1>1. PICK S : S = {i, j, l, o}
  OBVIOUS
<1>2. <<i>> \in Seq(S) /\ <<j, l, o>> \in Seq(S) /\ <<i, j, l, o>> \in Seq(S)
  BY <1>1
<1>3. PICK s \in Seq(S), u \in Seq(S), r \in Seq(S) : s = <<i>> /\ u = <<j, l, o>> /\ r = <<i, j, l, o>>
  BY <1>2
<1>4. Len(s) = 1 /\ Len(u) = 3 /\ Len(r) = 4
  BY <1>3
<1>5. s \o u \in Seq(S) /\ Len(s \o u) = 4
      /\ \A x \in 1 .. 4 : (s \o u)[x] = IF x <= 1 THEN s[x] ELSE u[x - 1]
  BY <1>3, <1>4, ConcatProperties
<1>6. (s \o u)[1] = r[1] /\ (s \o u)[2] = r[2] /\ (s \o u)[3] = r[3] /\ (s \o u)[4] = r[4]
  BY <1>3, <1>5
<1>7. \A x \in 1 .. 4 : (s \o u)[x] = r[x]
  <2>1. \A x \in 1 .. 4 : x = 1 \/ x = 2 \/ x = 3 \/ x = 4
    OBVIOUS
  <2> QED BY <1>6, <2>1
<1>8. s \o u = r
  BY <1>3, <1>4, <1>5, <1>7, SeqEqual
<1> QED BY <1>3, <1>8

LEMMA Join33 ==
  ASSUME NEW i, NEW j, NEW l, NEW o, NEW p, NEW q
  PROVE  <<i, j, l>> \o <<o, p, q>> = <<i, j, l, o, p, q>>
<1>1. PICK S : S = {i, j, l, o, p, q}
  OBVIOUS
<1>2. <<i, j, l>> \in Seq(S) /\ <<o, p, q>> \in Seq(S) /\ <<i, j, l, o, p, q>> \in Seq(S)
  BY <1>1
<1>3. PICK s \in Seq(S), u \in Seq(S), r \in Seq(S) : s = <<i, j, l>> /\ u = <<o, p, q>> /\ r = <<i, j, l, o, p, q>>
  BY <1>2
<1>4. Len(s) = 3 /\ Len(u) = 3 /\ Len(r) = 6
  BY <1>3
<1>5. s \o u \in Seq(S) /\ Len(s \o u) = 6
      /\ \A x \in 1 .. 6 : (s \o u)[x] = IF x <= 3 THEN s[x] ELSE u[x - 3]
  BY <1>3, <1>4, ConcatProperties
<1>6. (s \o u)[1] = r[1] /\ (s \o u)[2] = r[2] /\ (s \o u)[3] = r[3] /\ (s \o u)[4] = r[4] /\ (s \o u)[5] = r[5] /\ (s \o u)[6] = r[6]
  BY <1>3, <1>5
<1>7. \A x \in 1 .. 6 : (s \o u)[x] = r[x]
  <2>1. \A x \in 1 .. 6 : x = 1 \/ x = 2 \/ x = 3 \/ x = 4 \/ x = 5 \/ x = 6
    OBVIOUS
  <2> QED BY <1>6, <2>1
<1>8. s \o u = r
  BY <1>3, <1>4, <1>5, <1>7, SeqEqual
<1> QED BY <1>3, <1>8

LEMMA Join63 ==
  ASSUME NEW i, NEW j, NEW l, NEW o, NEW p, NEW q, NEW v, NEW w, NEW y
  PROVE  <<i, j, l, o, p, q>> \o <<v, w, y>> = <<i, j, l, o, p, q, v, w, y>>
<1>1. PICK S : S = {i, j, l, o, p, q, v, w, y}
  OBVIOUS
<1>2. <<i, j, l, o, p, q>> \in Seq(S) /\ <<v, w, y>> \in Seq(S) /\ <<i, j, l, o, p, q, v, w, y>> \in Seq(S)
  BY <1>1
<1>3. PICK s \in Seq(S), u \in Seq(S), r \in Seq(S) : s = <<i, j, l, o, p, q>> /\ u = <<v, w, y>> /\ r = <<i, j, l, o, p, q, v, w, y>>
  BY <1>2
<1>4. Len(s) = 6 /\ Len(u) = 3 /\ Len(r) = 9
  BY <1>3
<1>5. s \o u \in Seq(S) /\ Len(s \o u) = 9
      /\ \A x \in 1 .. 9 : (s \o u)[x] = IF x <= 6 THEN s[x] ELSE u[x - 6]
  BY <1>3, <1>4, ConcatProperties
<1>6. (s \o u)[1] = r[1] /\ (s \o u)[2] = r[2] /\ (s \o u)[3] = r[3] /\ (s \o u)[4] = r[4] /\ (s \o u)[5] = r[5] /\ (s \o u)[6] = r[6] /\ (s \o u)[7] = r[7] /\ (s \o u)[8] = r[8] /\ (s \o u)[9] = r[9]
  BY <1>3, <1>5
<1>7. \A x \in 1 .. 9 : (s \o u)[x] = r[x]
  <2>1. \A x \in 1 .. 9 : x = 1 \/ x = 2 \/ x = 3 \/ x = 4 \/ x = 5 \/ x = 6 \/ x = 7 \/ x = 8 \/ x = 9
    OBVIOUS
  <2> QED BY <1>6, <2>1
<1>8. s \o u = r
  BY <1>3, <1>4, <1>5, <1>7, SeqEqual
<1> QED BY <1>3, <1>8

LEMMA Good2 ==
  ASSUME NEW X, NEW i, NEW j, NEW h, NEW k, NEW m, Good(<<i>>, X, h, k), Good(<<j>>, X, k, m)
  PROVE  Good(<<i, j>>, X, h, m)
<1>1. Good(<<i>> \o <<j>>, X, h, m)
  BY GoodConcat
<1> QED BY <1>1, Join2

LEMMA Good3 ==
  ASSUME NEW X, NEW i, NEW j, NEW l, NEW h, NEW k, NEW m, NEW n,
         Good(<<i>>, X, h, k), Good(<<j>>, X, k, m), Good(<<l>>, X, m, n)
  PROVE  Good(<<i, j, l>>, X, h, n)
<1>1. Good(<<j, l>>, X, k, n)
  BY Good2
<1>2. Good(<<i>> \o <<j, l>>, X, h, n)
  BY <1>1, GoodConcat
<1> QED BY <1>2, Join3

LEMMA Good4 ==
  ASSUME NEW X, NEW i, NEW j, NEW l, NEW o, NEW h, NEW k, NEW m, NEW n, NEW q,
         Good(<<i>>, X, h, k), Good(<<j>>, X, k, m), Good(<<l>>, X, m, n), Good(<<o>>, X, n, q)
  PROVE  Good(<<i, j, l, o>>, X, h, q)
<1>1. Good(<<j, l, o>>, X, k, q)
  BY Good3
<1>2. Good(<<i>> \o <<j, l, o>>, X, h, q)
  BY <1>1, GoodConcat
<1> QED BY <1>2, Join4

LEMMA GoodLock ==
  ASSUME NEW X, {"acquire", "release"} \subseteq X, NEW l \in Locks, NEW h \in SUBSET Tokens
  PROVE  /\ h \subseteq Below(l) => Good(<<acquire(l)>>, X, h, h \cup {l})
         /\ l \in h /\ "off" \notin h => Good(<<release(l)>>, X, h, h \ {l})
<1>1. acquire(l) \in Instructions(X) /\ release(l) \in Instructions(X)
  BY TypeOfLock
<1>2. h \cup {l} \in SUBSET Tokens /\ h \ {l} \in SUBSET Tokens
  BY DEF Tokens
<1>3. h \subseteq Below(l) => Leads(h, acquire(l), h \cup {l})
  BY FieldsLock DEF Leads
<1>4. l \in h /\ "off" \notin h => Leads(h, release(l), h \ {l})
  BY FieldsLock DEF Leads
<1>5. h \subseteq Below(l) => Good(<<acquire(l)>>, X, h, h \cup {l})
  BY <1>1, <1>2, <1>3, GoodOne
<1>6. l \in h /\ "off" \notin h => Good(<<release(l)>>, X, h, h \ {l})
  BY <1>1, <1>2, <1>4, GoodOne
<1> QED BY <1>5, <1>6

LEMMA GoodUnder ==
  ASSUME NEW X, NEW l, NEW h, NEW k, NEW s,
         Good(<<acquire(l)>>, X, h, k), Good(s, X, k, k), Good(<<release(l)>>, X, k, h)
  PROVE  Good(Under(l, s), X, h, h)
<1>1. Good(<<acquire(l)>> \o s, X, h, k)
  BY GoodConcat
<1>2. Good((<<acquire(l)>> \o s) \o <<release(l)>>, X, h, h)
  BY <1>1, GoodConcat
<1> QED BY <1>2 DEF Under

LEMMA TokenSets ==
  /\ {} \in SUBSET Tokens /\ {"early"} \in SUBSET Tokens
  /\ \A l \in Locks : {l} \in SUBSET Tokens /\ {"ptable", l} \in SUBSET Tokens
  /\ {"ptable", "off"} \in SUBSET Tokens
  BY DEF Tokens, Locks

LEMMA GoodOn ==
  ASSUME NEW X, NEW op \in X, op \notin {"acquire", "release"}, NEW n \in Int,
         NEW h \in SUBSET Tokens, NEW k \in SUBSET Tokens, Leads(h, On(op, n), k)
  PROVE  Good(<<On(op, n)>>, X, h, k)
  BY TypeOfDo, GoodOne

LEMMA GoodOps ==
  ASSUME NEW X, NEW n \in Int
  PROVE  /\ \A op \in {"block", "runnable", "zombie"} \cap X : Good(<<On(op, n)>>, X, {"ptable"}, {"ptable", "off"})
         /\ \A op \in {"sched"} \cap X : Good(<<On(op, n)>>, X, {"ptable", "off"}, {"ptable"})
         /\ \A op \in {"scan", "back", "find", "reap", "zombie exit"} \cap X : Good(<<On(op, n)>>, X, {"ptable"}, {})
         /\ \A op \in {"since", "doze"} \cap X : Good(<<On(op, n)>>, X, {"tickslock"}, {})
         /\ \A op \in {"ideintr", "await"} \cap X : Good(<<On(op, n)>>, X, {"idelock"}, {})
         /\ \A op \in {"tidy", "intena", "kill", "start", "unused", "wakeup1"} \cap X : Good(<<On(op, n)>>, X, {"ptable"}, {"ptable"})
         /\ \A op \in {"wakeup1"} \cap X : Good(<<On(op, n)>>, X, {"ptable", "tickslock"}, {"ptable", "tickslock"})
         /\ \A op \in {"wakeup1"} \cap X : Good(<<On(op, n)>>, X, {"ptable", "idelock"}, {"ptable", "idelock"})
         /\ \A op \in {"request", "idestart"} \cap X : Good(<<On(op, n)>>, X, {"idelock"}, {"idelock"})
         /\ \A op \in {"tick"} \cap X : Good(<<On(op, n)>>, X, {"tickslock"}, {"tickslock"})
         /\ \A op \in {"peek", "take"} \cap X : Good(<<On(op, n)>>, X, {"kmem"}, {"kmem"})
         /\ \A op \in {"kfree"} \cap X : Good(<<On(op, n)>>, X, {"ptable", "kmem"}, {"ptable", "kmem"})
         /\ \A op \in {"peek", "take"} \cap X : Good(<<On(op, n)>>, X, {"early"}, {"early"})
         /\ \A op \in {"kalloc", "lapicinit"} \cap X : Good(<<On(op, n)>>, X, {}, {})
         /\ \A op \in {"kalloc", "lapicinit"} \cap X : Good(<<On(op, n)>>, X, {"early"}, {"early"})
         /\ \A op \in {"sti", "iret", "quit", "preempt", "started", "cprintf", "forkret", "kstack", "entry", "idtinit"} \cap X : Good(<<On(op, n)>>, X, {}, {})
         /\ \A op \in {"kinit1", "mpinit", "consoleinit", "ideinit", "startothers", "lapicstartap", "wait", "freerange"} \cap X : Good(<<On(op, n)>>, X, {"early"}, {"early"})
         /\ \A op \in {"use_lock"} \cap X : Good(<<On(op, n)>>, X, {"early"}, {})
<1>1. ASSUME NEW op \in X, op \notin {"acquire", "release"}, NEW h \in SUBSET Tokens, NEW k \in SUBSET Tokens, Leads(h, On(op, n), k)
      PROVE  Good(<<On(op, n)>>, X, h, k)
  BY <1>1, GoodOn
<1>2. \A op \in {"block", "runnable", "zombie"} \cap X : Good(<<On(op, n)>>, X, {"ptable"}, {"ptable", "off"})
  <2>1. ASSUME NEW op \in {"block", "runnable", "zombie"} \cap X PROVE op \in X /\ op \notin {"acquire", "release"} /\ Leads({"ptable"}, On(op, n), {"ptable", "off"})
    BY <2>1, FieldsOn DEF Leads
  <2>2. {"ptable"} \in SUBSET Tokens /\ {"ptable", "off"} \in SUBSET Tokens
    BY DEF Tokens, Locks
  <2> QED BY <1>1, <2>1, <2>2
<1>3. \A op \in {"sched"} \cap X : Good(<<On(op, n)>>, X, {"ptable", "off"}, {"ptable"})
  <2>1. ASSUME NEW op \in {"sched"} \cap X PROVE op \in X /\ op \notin {"acquire", "release"} /\ Leads({"ptable", "off"}, On(op, n), {"ptable"})
    BY <2>1, FieldsOn DEF Leads
  <2>2. {"ptable", "off"} \in SUBSET Tokens /\ {"ptable"} \in SUBSET Tokens
    BY DEF Tokens, Locks
  <2> QED BY <1>1, <2>1, <2>2
<1>4. \A op \in {"scan", "back", "find", "reap", "zombie exit"} \cap X : Good(<<On(op, n)>>, X, {"ptable"}, {})
  <2>1. ASSUME NEW op \in {"scan", "back", "find", "reap", "zombie exit"} \cap X PROVE op \in X /\ op \notin {"acquire", "release"} /\ Leads({"ptable"}, On(op, n), {})
    BY <2>1, FieldsOn DEF Leads
  <2>2. {"ptable"} \in SUBSET Tokens /\ {} \in SUBSET Tokens
    BY DEF Tokens, Locks
  <2> QED BY <1>1, <2>1, <2>2
<1>5. \A op \in {"since", "doze"} \cap X : Good(<<On(op, n)>>, X, {"tickslock"}, {})
  <2>1. ASSUME NEW op \in {"since", "doze"} \cap X PROVE op \in X /\ op \notin {"acquire", "release"} /\ Leads({"tickslock"}, On(op, n), {})
    BY <2>1, FieldsOn DEF Leads
  <2>2. {"tickslock"} \in SUBSET Tokens /\ {} \in SUBSET Tokens
    BY DEF Tokens, Locks
  <2> QED BY <1>1, <2>1, <2>2
<1>6. \A op \in {"ideintr", "await"} \cap X : Good(<<On(op, n)>>, X, {"idelock"}, {})
  <2>1. ASSUME NEW op \in {"ideintr", "await"} \cap X PROVE op \in X /\ op \notin {"acquire", "release"} /\ Leads({"idelock"}, On(op, n), {})
    BY <2>1, FieldsOn DEF Leads
  <2>2. {"idelock"} \in SUBSET Tokens /\ {} \in SUBSET Tokens
    BY DEF Tokens, Locks
  <2> QED BY <1>1, <2>1, <2>2
<1>7. \A op \in {"tidy", "intena", "kill", "start", "unused", "wakeup1"} \cap X : Good(<<On(op, n)>>, X, {"ptable"}, {"ptable"})
  <2>1. ASSUME NEW op \in {"tidy", "intena", "kill", "start", "unused", "wakeup1"} \cap X PROVE op \in X /\ op \notin {"acquire", "release"} /\ Leads({"ptable"}, On(op, n), {"ptable"})
    BY <2>1, FieldsOn DEF Leads
  <2>2. {"ptable"} \in SUBSET Tokens /\ {"ptable"} \in SUBSET Tokens
    BY DEF Tokens, Locks
  <2> QED BY <1>1, <2>1, <2>2
<1>8. \A op \in {"wakeup1"} \cap X : Good(<<On(op, n)>>, X, {"ptable", "tickslock"}, {"ptable", "tickslock"})
  <2>1. ASSUME NEW op \in {"wakeup1"} \cap X PROVE op \in X /\ op \notin {"acquire", "release"} /\ Leads({"ptable", "tickslock"}, On(op, n), {"ptable", "tickslock"})
    BY <2>1, FieldsOn DEF Leads
  <2>2. {"ptable", "tickslock"} \in SUBSET Tokens /\ {"ptable", "tickslock"} \in SUBSET Tokens
    BY DEF Tokens, Locks
  <2> QED BY <1>1, <2>1, <2>2
<1>9. \A op \in {"wakeup1"} \cap X : Good(<<On(op, n)>>, X, {"ptable", "idelock"}, {"ptable", "idelock"})
  <2>1. ASSUME NEW op \in {"wakeup1"} \cap X PROVE op \in X /\ op \notin {"acquire", "release"} /\ Leads({"ptable", "idelock"}, On(op, n), {"ptable", "idelock"})
    BY <2>1, FieldsOn DEF Leads
  <2>2. {"ptable", "idelock"} \in SUBSET Tokens /\ {"ptable", "idelock"} \in SUBSET Tokens
    BY DEF Tokens, Locks
  <2> QED BY <1>1, <2>1, <2>2
<1>10. \A op \in {"request", "idestart"} \cap X : Good(<<On(op, n)>>, X, {"idelock"}, {"idelock"})
  <2>1. ASSUME NEW op \in {"request", "idestart"} \cap X PROVE op \in X /\ op \notin {"acquire", "release"} /\ Leads({"idelock"}, On(op, n), {"idelock"})
    BY <2>1, FieldsOn DEF Leads
  <2>2. {"idelock"} \in SUBSET Tokens /\ {"idelock"} \in SUBSET Tokens
    BY DEF Tokens, Locks
  <2> QED BY <1>1, <2>1, <2>2
<1>11. \A op \in {"tick"} \cap X : Good(<<On(op, n)>>, X, {"tickslock"}, {"tickslock"})
  <2>1. ASSUME NEW op \in {"tick"} \cap X PROVE op \in X /\ op \notin {"acquire", "release"} /\ Leads({"tickslock"}, On(op, n), {"tickslock"})
    BY <2>1, FieldsOn DEF Leads
  <2>2. {"tickslock"} \in SUBSET Tokens /\ {"tickslock"} \in SUBSET Tokens
    BY DEF Tokens, Locks
  <2> QED BY <1>1, <2>1, <2>2
<1>12. \A op \in {"peek", "take"} \cap X : Good(<<On(op, n)>>, X, {"kmem"}, {"kmem"})
  <2>1. ASSUME NEW op \in {"peek", "take"} \cap X PROVE op \in X /\ op \notin {"acquire", "release"} /\ Leads({"kmem"}, On(op, n), {"kmem"})
    BY <2>1, FieldsOn DEF Leads
  <2>2. {"kmem"} \in SUBSET Tokens /\ {"kmem"} \in SUBSET Tokens
    BY DEF Tokens, Locks
  <2> QED BY <1>1, <2>1, <2>2
<1>13. \A op \in {"kfree"} \cap X : Good(<<On(op, n)>>, X, {"ptable", "kmem"}, {"ptable", "kmem"})
  <2>1. ASSUME NEW op \in {"kfree"} \cap X PROVE op \in X /\ op \notin {"acquire", "release"} /\ Leads({"ptable", "kmem"}, On(op, n), {"ptable", "kmem"})
    BY <2>1, FieldsOn DEF Leads
  <2>2. {"ptable", "kmem"} \in SUBSET Tokens /\ {"ptable", "kmem"} \in SUBSET Tokens
    BY DEF Tokens, Locks
  <2> QED BY <1>1, <2>1, <2>2
<1>14. \A op \in {"peek", "take"} \cap X : Good(<<On(op, n)>>, X, {"early"}, {"early"})
  <2>1. ASSUME NEW op \in {"peek", "take"} \cap X PROVE op \in X /\ op \notin {"acquire", "release"} /\ Leads({"early"}, On(op, n), {"early"})
    BY <2>1, FieldsOn DEF Leads
  <2>2. {"early"} \in SUBSET Tokens /\ {"early"} \in SUBSET Tokens
    BY DEF Tokens, Locks
  <2> QED BY <1>1, <2>1, <2>2
<1>15. \A op \in {"kalloc", "lapicinit"} \cap X : Good(<<On(op, n)>>, X, {}, {})
  <2>1. ASSUME NEW op \in {"kalloc", "lapicinit"} \cap X PROVE op \in X /\ op \notin {"acquire", "release"} /\ Leads({}, On(op, n), {})
    BY <2>1, FieldsOn DEF Leads
  <2>2. {} \in SUBSET Tokens /\ {} \in SUBSET Tokens
    BY DEF Tokens, Locks
  <2> QED BY <1>1, <2>1, <2>2
<1>16. \A op \in {"kalloc", "lapicinit"} \cap X : Good(<<On(op, n)>>, X, {"early"}, {"early"})
  <2>1. ASSUME NEW op \in {"kalloc", "lapicinit"} \cap X PROVE op \in X /\ op \notin {"acquire", "release"} /\ Leads({"early"}, On(op, n), {"early"})
    BY <2>1, FieldsOn DEF Leads
  <2>2. {"early"} \in SUBSET Tokens /\ {"early"} \in SUBSET Tokens
    BY DEF Tokens, Locks
  <2> QED BY <1>1, <2>1, <2>2
<1>17. \A op \in {"sti", "iret", "quit", "preempt", "started", "cprintf", "forkret", "kstack", "entry", "idtinit"} \cap X : Good(<<On(op, n)>>, X, {}, {})
  <2>1. ASSUME NEW op \in {"sti", "iret", "quit", "preempt", "started", "cprintf", "forkret", "kstack", "entry", "idtinit"} \cap X PROVE op \in X /\ op \notin {"acquire", "release"} /\ Leads({}, On(op, n), {})
    BY <2>1, FieldsOn DEF Leads
  <2>2. {} \in SUBSET Tokens /\ {} \in SUBSET Tokens
    BY DEF Tokens, Locks
  <2> QED BY <1>1, <2>1, <2>2
<1>18. \A op \in {"kinit1", "mpinit", "consoleinit", "ideinit", "startothers", "lapicstartap", "wait", "freerange"} \cap X : Good(<<On(op, n)>>, X, {"early"}, {"early"})
  <2>1. ASSUME NEW op \in {"kinit1", "mpinit", "consoleinit", "ideinit", "startothers", "lapicstartap", "wait", "freerange"} \cap X PROVE op \in X /\ op \notin {"acquire", "release"} /\ Leads({"early"}, On(op, n), {"early"})
    BY <2>1, FieldsOn DEF Leads
  <2>2. {"early"} \in SUBSET Tokens /\ {"early"} \in SUBSET Tokens
    BY DEF Tokens, Locks
  <2> QED BY <1>1, <2>1, <2>2
<1>19. \A op \in {"use_lock"} \cap X : Good(<<On(op, n)>>, X, {"early"}, {})
  <2>1. ASSUME NEW op \in {"use_lock"} \cap X PROVE op \in X /\ op \notin {"acquire", "release"} /\ Leads({"early"}, On(op, n), {})
    BY <2>1, FieldsOn DEF Leads
  <2>2. {"early"} \in SUBSET Tokens /\ {} \in SUBSET Tokens
    BY DEF Tokens, Locks
  <2> QED BY <1>1, <2>1, <2>2
<1> QED BY <1>2, <1>3, <1>4, <1>5, <1>6, <1>7, <1>8, <1>9, <1>10, <1>11, <1>12, <1>13, <1>14, <1>15, <1>16, <1>17, <1>18, <1>19

LEMMA GoodDo ==
  ASSUME NEW X
  PROVE  /\ \A op \in {"block", "runnable", "zombie"} \cap X : Good(<<Do(op)>>, X, {"ptable"}, {"ptable", "off"})
         /\ \A op \in {"sched"} \cap X : Good(<<Do(op)>>, X, {"ptable", "off"}, {"ptable"})
         /\ \A op \in {"scan", "back", "find", "reap", "zombie exit"} \cap X : Good(<<Do(op)>>, X, {"ptable"}, {})
         /\ \A op \in {"since", "doze"} \cap X : Good(<<Do(op)>>, X, {"tickslock"}, {})
         /\ \A op \in {"ideintr", "await"} \cap X : Good(<<Do(op)>>, X, {"idelock"}, {})
         /\ \A op \in {"tidy", "intena", "kill", "start", "unused", "wakeup1"} \cap X : Good(<<Do(op)>>, X, {"ptable"}, {"ptable"})
         /\ \A op \in {"wakeup1"} \cap X : Good(<<Do(op)>>, X, {"ptable", "tickslock"}, {"ptable", "tickslock"})
         /\ \A op \in {"wakeup1"} \cap X : Good(<<Do(op)>>, X, {"ptable", "idelock"}, {"ptable", "idelock"})
         /\ \A op \in {"request", "idestart"} \cap X : Good(<<Do(op)>>, X, {"idelock"}, {"idelock"})
         /\ \A op \in {"tick"} \cap X : Good(<<Do(op)>>, X, {"tickslock"}, {"tickslock"})
         /\ \A op \in {"peek", "take"} \cap X : Good(<<Do(op)>>, X, {"kmem"}, {"kmem"})
         /\ \A op \in {"kfree"} \cap X : Good(<<Do(op)>>, X, {"ptable", "kmem"}, {"ptable", "kmem"})
         /\ \A op \in {"peek", "take"} \cap X : Good(<<Do(op)>>, X, {"early"}, {"early"})
         /\ \A op \in {"kalloc", "lapicinit"} \cap X : Good(<<Do(op)>>, X, {}, {})
         /\ \A op \in {"kalloc", "lapicinit"} \cap X : Good(<<Do(op)>>, X, {"early"}, {"early"})
         /\ \A op \in {"sti", "iret", "quit", "preempt", "started", "cprintf", "forkret", "kstack", "entry", "idtinit"} \cap X : Good(<<Do(op)>>, X, {}, {})
         /\ \A op \in {"kinit1", "mpinit", "consoleinit", "ideinit", "startothers", "lapicstartap", "wait", "freerange"} \cap X : Good(<<Do(op)>>, X, {"early"}, {"early"})
         /\ \A op \in {"use_lock"} \cap X : Good(<<Do(op)>>, X, {"early"}, {})
<1>1. 0 \in Int
  OBVIOUS
<1>2. \A op : Do(op) = On(op, 0)
  BY DEF Do
<1>3. \A op \in {"block", "runnable", "zombie"} \cap X : Good(<<Do(op)>>, X, {"ptable"}, {"ptable", "off"})
  <2>1. \A op \in {"block", "runnable", "zombie"} \cap X : Good(<<On(op, 0)>>, X, {"ptable"}, {"ptable", "off"})
    BY <1>1, GoodOps
  <2> QED BY <1>2, <2>1
<1>4. \A op \in {"sched"} \cap X : Good(<<Do(op)>>, X, {"ptable", "off"}, {"ptable"})
  <2>1. \A op \in {"sched"} \cap X : Good(<<On(op, 0)>>, X, {"ptable", "off"}, {"ptable"})
    BY <1>1, GoodOps
  <2> QED BY <1>2, <2>1
<1>5. \A op \in {"scan", "back", "find", "reap", "zombie exit"} \cap X : Good(<<Do(op)>>, X, {"ptable"}, {})
  <2>1. \A op \in {"scan", "back", "find", "reap", "zombie exit"} \cap X : Good(<<On(op, 0)>>, X, {"ptable"}, {})
    BY <1>1, GoodOps
  <2> QED BY <1>2, <2>1
<1>6. \A op \in {"since", "doze"} \cap X : Good(<<Do(op)>>, X, {"tickslock"}, {})
  <2>1. \A op \in {"since", "doze"} \cap X : Good(<<On(op, 0)>>, X, {"tickslock"}, {})
    BY <1>1, GoodOps
  <2> QED BY <1>2, <2>1
<1>7. \A op \in {"ideintr", "await"} \cap X : Good(<<Do(op)>>, X, {"idelock"}, {})
  <2>1. \A op \in {"ideintr", "await"} \cap X : Good(<<On(op, 0)>>, X, {"idelock"}, {})
    BY <1>1, GoodOps
  <2> QED BY <1>2, <2>1
<1>8. \A op \in {"tidy", "intena", "kill", "start", "unused", "wakeup1"} \cap X : Good(<<Do(op)>>, X, {"ptable"}, {"ptable"})
  <2>1. \A op \in {"tidy", "intena", "kill", "start", "unused", "wakeup1"} \cap X : Good(<<On(op, 0)>>, X, {"ptable"}, {"ptable"})
    BY <1>1, GoodOps
  <2> QED BY <1>2, <2>1
<1>9. \A op \in {"wakeup1"} \cap X : Good(<<Do(op)>>, X, {"ptable", "tickslock"}, {"ptable", "tickslock"})
  <2>1. \A op \in {"wakeup1"} \cap X : Good(<<On(op, 0)>>, X, {"ptable", "tickslock"}, {"ptable", "tickslock"})
    BY <1>1, GoodOps
  <2> QED BY <1>2, <2>1
<1>10. \A op \in {"wakeup1"} \cap X : Good(<<Do(op)>>, X, {"ptable", "idelock"}, {"ptable", "idelock"})
  <2>1. \A op \in {"wakeup1"} \cap X : Good(<<On(op, 0)>>, X, {"ptable", "idelock"}, {"ptable", "idelock"})
    BY <1>1, GoodOps
  <2> QED BY <1>2, <2>1
<1>11. \A op \in {"request", "idestart"} \cap X : Good(<<Do(op)>>, X, {"idelock"}, {"idelock"})
  <2>1. \A op \in {"request", "idestart"} \cap X : Good(<<On(op, 0)>>, X, {"idelock"}, {"idelock"})
    BY <1>1, GoodOps
  <2> QED BY <1>2, <2>1
<1>12. \A op \in {"tick"} \cap X : Good(<<Do(op)>>, X, {"tickslock"}, {"tickslock"})
  <2>1. \A op \in {"tick"} \cap X : Good(<<On(op, 0)>>, X, {"tickslock"}, {"tickslock"})
    BY <1>1, GoodOps
  <2> QED BY <1>2, <2>1
<1>13. \A op \in {"peek", "take"} \cap X : Good(<<Do(op)>>, X, {"kmem"}, {"kmem"})
  <2>1. \A op \in {"peek", "take"} \cap X : Good(<<On(op, 0)>>, X, {"kmem"}, {"kmem"})
    BY <1>1, GoodOps
  <2> QED BY <1>2, <2>1
<1>14. \A op \in {"kfree"} \cap X : Good(<<Do(op)>>, X, {"ptable", "kmem"}, {"ptable", "kmem"})
  <2>1. \A op \in {"kfree"} \cap X : Good(<<On(op, 0)>>, X, {"ptable", "kmem"}, {"ptable", "kmem"})
    BY <1>1, GoodOps
  <2> QED BY <1>2, <2>1
<1>15. \A op \in {"peek", "take"} \cap X : Good(<<Do(op)>>, X, {"early"}, {"early"})
  <2>1. \A op \in {"peek", "take"} \cap X : Good(<<On(op, 0)>>, X, {"early"}, {"early"})
    BY <1>1, GoodOps
  <2> QED BY <1>2, <2>1
<1>16. \A op \in {"kalloc", "lapicinit"} \cap X : Good(<<Do(op)>>, X, {}, {})
  <2>1. \A op \in {"kalloc", "lapicinit"} \cap X : Good(<<On(op, 0)>>, X, {}, {})
    BY <1>1, GoodOps
  <2> QED BY <1>2, <2>1
<1>17. \A op \in {"kalloc", "lapicinit"} \cap X : Good(<<Do(op)>>, X, {"early"}, {"early"})
  <2>1. \A op \in {"kalloc", "lapicinit"} \cap X : Good(<<On(op, 0)>>, X, {"early"}, {"early"})
    BY <1>1, GoodOps
  <2> QED BY <1>2, <2>1
<1>18. \A op \in {"sti", "iret", "quit", "preempt", "started", "cprintf", "forkret", "kstack", "entry", "idtinit"} \cap X : Good(<<Do(op)>>, X, {}, {})
  <2>1. \A op \in {"sti", "iret", "quit", "preempt", "started", "cprintf", "forkret", "kstack", "entry", "idtinit"} \cap X : Good(<<On(op, 0)>>, X, {}, {})
    BY <1>1, GoodOps
  <2> QED BY <1>2, <2>1
<1>19. \A op \in {"kinit1", "mpinit", "consoleinit", "ideinit", "startothers", "lapicstartap", "wait", "freerange"} \cap X : Good(<<Do(op)>>, X, {"early"}, {"early"})
  <2>1. \A op \in {"kinit1", "mpinit", "consoleinit", "ideinit", "startothers", "lapicstartap", "wait", "freerange"} \cap X : Good(<<On(op, 0)>>, X, {"early"}, {"early"})
    BY <1>1, GoodOps
  <2> QED BY <1>2, <2>1
<1>20. \A op \in {"use_lock"} \cap X : Good(<<Do(op)>>, X, {"early"}, {})
  <2>1. \A op \in {"use_lock"} \cap X : Good(<<On(op, 0)>>, X, {"early"}, {})
    BY <1>1, GoodOps
  <2> QED BY <1>2, <2>1
<1> QED BY <1>3, <1>4, <1>5, <1>6, <1>7, <1>8, <1>9, <1>10, <1>11, <1>12, <1>13, <1>14, <1>15, <1>16, <1>17, <1>18, <1>19, <1>20

LEMMA GoodLocks ==
  ASSUME NEW X, {"acquire", "release"} \subseteq X
  PROVE  /\ \A l \in Locks : Good(<<acquire(l)>>, X, {}, {l}) /\ Good(<<release(l)>>, X, {l}, {})
         /\ \A l \in {"tickslock", "idelock"} :
              /\ Good(<<acquire("ptable")>>, X, {l}, {"ptable", l})
              /\ Good(<<release(l)>>, X, {"ptable", l}, {"ptable"})
              /\ Good(<<release("ptable")>>, X, {"ptable", l}, {l})
         /\ Good(<<acquire("kmem")>>, X, {"ptable"}, {"ptable", "kmem"})
         /\ Good(<<release("kmem")>>, X, {"ptable", "kmem"}, {"ptable"})
<1>1. ASSUME NEW l \in Locks PROVE Good(<<acquire(l)>>, X, {}, {l}) /\ Good(<<release(l)>>, X, {l}, {})
  <2>1. {} \in SUBSET Tokens /\ {l} \in SUBSET Tokens /\ {} \subseteq Below(l) /\ l \in {l} /\ "off" \notin {l}
    BY TokenSets DEF Locks
  <2>2. {} \cup {l} = {l} /\ {l} \ {l} = {}
    OBVIOUS
  <2>3. Good(<<acquire(l)>>, X, {}, {} \cup {l}) /\ Good(<<release(l)>>, X, {l}, {l} \ {l})
    BY <2>1, GoodLock
  <2> QED BY <2>2, <2>3
<1>2. ASSUME NEW l \in {"tickslock", "idelock"}
      PROVE  /\ Good(<<acquire("ptable")>>, X, {l}, {"ptable", l})
             /\ Good(<<release(l)>>, X, {"ptable", l}, {"ptable"})
             /\ Good(<<release("ptable")>>, X, {"ptable", l}, {l})
  <2>1. PICK pt \in Locks : pt = "ptable"
    BY DEF Locks
  <2>2. l \in Locks /\ {l} \in SUBSET Tokens /\ {pt, l} \in SUBSET Tokens
    BY <2>1 DEF Locks, Tokens
  <2>3. {l} \subseteq Below(pt) /\ "off" \notin {pt, l} /\ l \in {pt, l} /\ pt \in {pt, l}
    BY <2>1 DEF Below
  <2>4. {l} \cup {pt} = {pt, l} /\ {pt, l} \ {l} = {pt} /\ {pt, l} \ {pt} = {l}
    BY <2>1
  <2>5. Good(<<acquire(pt)>>, X, {l}, {l} \cup {pt})
    BY <2>2, <2>3, GoodLock
  <2>6. Good(<<release(l)>>, X, {pt, l}, {pt, l} \ {l})
    BY <2>2, <2>3, GoodLock
  <2>7. Good(<<release(pt)>>, X, {pt, l}, {pt, l} \ {pt})
    BY <2>2, <2>3, GoodLock
  <2> QED BY <2>1, <2>4, <2>5, <2>6, <2>7
<1>3. Good(<<acquire("kmem")>>, X, {"ptable"}, {"ptable", "kmem"}) /\ Good(<<release("kmem")>>, X, {"ptable", "kmem"}, {"ptable"})
  <2>1. PICK pt \in Locks, km \in Locks : pt = "ptable" /\ km = "kmem"
    BY DEF Locks
  <2>2. {pt} \in SUBSET Tokens /\ {pt, km} \in SUBSET Tokens
    BY <2>1 DEF Locks, Tokens
  <2>3. {pt} \subseteq Below(km) /\ "off" \notin {pt, km} /\ km \in {pt, km}
    BY <2>1 DEF Below
  <2>4. {pt} \cup {km} = {pt, km} /\ {pt, km} \ {km} = {pt}
    BY <2>1
  <2>5. Good(<<acquire(km)>>, X, {pt}, {pt} \cup {km})
    BY <2>2, <2>3, GoodLock
  <2>6. Good(<<release(km)>>, X, {pt, km}, {pt, km} \ {km})
    BY <2>2, <2>3, GoodLock
  <2> QED BY <2>1, <2>4, <2>5, <2>6
<1> QED BY <1>1, <1>2, <1>3

\* The functions.  sleep gives its lock up, takes ptable.lock, and comes back with its lock.
LEMMA GoodSleep ==
  ASSUME NEW X, {"acquire", "release", "block", "sched", "tidy"} \subseteq X, NEW chan \in Int,
         NEW lk \in {"ptable", "tickslock", "idelock"}
  PROVE  Good(sleep(chan, lk), X, {lk}, {lk})
<1>1. PICK s : s = <<On("block", chan), Do("sched"), Do("tidy")>>
  OBVIOUS
<1>2. Good(s, X, {"ptable"}, {"ptable"})
  <2>1. Good(<<On("block", chan)>>, X, {"ptable"}, {"ptable", "off"})
    BY GoodOps
  <2>2. Good(<<Do("sched")>>, X, {"ptable", "off"}, {"ptable"}) /\ Good(<<Do("tidy")>>, X, {"ptable"}, {"ptable"})
    BY GoodDo
  <2> QED BY <1>1, <2>1, <2>2, Good3
<1>3. CASE lk = "ptable"
  <2>1. sleep(chan, lk) = (<<>> \o s) \o <<>>
    BY <1>1, <1>3 DEF sleep
  <2>2. s \in Seq(Instructions(X))
    BY <1>2 DEF Good
  <2>3. (<<>> \o s) \o <<>> = s
    BY <2>2
  <2> QED BY <1>2, <1>3, <2>1, <2>3
<1>4. CASE lk # "ptable"
  <2>1. lk \in {"tickslock", "idelock"}
    BY <1>4
  <2>2. sleep(chan, lk) = (<<acquire("ptable"), release(lk)>> \o s) \o <<release("ptable"), acquire(lk)>>
    BY <1>1, <1>4 DEF sleep
  <2>3. {"acquire", "release"} \subseteq X
    OBVIOUS
  <2>4. lk \in Locks
    BY DEF Locks
  <2>5. /\ Good(<<acquire("ptable")>>, X, {lk}, {"ptable", lk}) /\ Good(<<release(lk)>>, X, {"ptable", lk}, {"ptable"})
        /\ Good(<<release("ptable")>>, X, {"ptable"}, {}) /\ Good(<<acquire(lk)>>, X, {}, {lk})
    BY <2>1, <2>3, <2>4, GoodLocks DEF Locks
  <2>6. Good(<<acquire("ptable"), release(lk)>>, X, {lk}, {"ptable"}) /\ Good(<<release("ptable"), acquire(lk)>>, X, {"ptable"}, {lk})
    BY <2>5, Good2
  <2>7. Good(<<acquire("ptable"), release(lk)>> \o s, X, {lk}, {"ptable"})
    BY <1>2, <2>6, GoodConcat
  <2>8. Good((<<acquire("ptable"), release(lk)>> \o s) \o <<release("ptable"), acquire(lk)>>, X, {lk}, {lk})
    BY <2>6, <2>7, GoodConcat
  <2> QED BY <2>2, <2>8
<1> QED BY <1>3, <1>4

LEMMA GoodWakeup ==
  ASSUME NEW X, {"acquire", "release", "wakeup1"} \subseteq X, NEW chan \in Int
  PROVE  /\ Good(wakeup(chan), X, {}, {})
         /\ \A l \in {"tickslock", "idelock"} : Good(wakeup(chan), X, {l}, {l})
<1>1. {"acquire", "release"} \subseteq X
  OBVIOUS
<1>2. /\ Good(<<On("wakeup1", chan)>>, X, {"ptable"}, {"ptable"})
      /\ Good(<<On("wakeup1", chan)>>, X, {"ptable", "tickslock"}, {"ptable", "tickslock"})
      /\ Good(<<On("wakeup1", chan)>>, X, {"ptable", "idelock"}, {"ptable", "idelock"})
  BY GoodOps
<1>3. Good(wakeup(chan), X, {}, {})
  <2>1. Good(<<acquire("ptable")>>, X, {}, {"ptable"}) /\ Good(<<release("ptable")>>, X, {"ptable"}, {})
    BY <1>1, GoodLocks DEF Locks
  <2> QED BY <1>2, <2>1, GoodUnder DEF wakeup
<1>4. ASSUME NEW l \in {"tickslock", "idelock"} PROVE Good(wakeup(chan), X, {l}, {l})
  <2>1. Good(<<acquire("ptable")>>, X, {l}, {"ptable", l}) /\ Good(<<release("ptable")>>, X, {"ptable", l}, {l})
    BY <1>1, GoodLocks
  <2>2. Good(<<On("wakeup1", chan)>>, X, {"ptable", l}, {"ptable", l})
    BY <1>2
  <2> QED BY <2>1, <2>2, GoodUnder DEF wakeup
<1> QED BY <1>3, <1>4

LEMMA GoodSmall ==
  ASSUME NEW X, {"acquire", "release"} \subseteq X
  PROVE  /\ {"runnable", "sched"} \subseteq X => Good(yield, X, {}, {})
         /\ {"zombie", "sched", "zombie exit"} \subseteq X => Good(exit, X, {}, {})
         /\ "find" \in X => Good(allocproc, X, {}, {})
         /\ {"request", "await"} \subseteq X => Good(iderw, X, {}, {})
         /\ {"sti", "scan"} \subseteq X => Good(scheduler, X, {}, {})
         /\ {"forkret", "iret"} \subseteq X => Good(forkret, X, {"ptable"}, {})
         /\ {"cprintf", "idtinit", "started"} \subseteq X => Good(mpmain, X, {}, {})
<1>1. /\ Good(<<acquire("ptable")>>, X, {}, {"ptable"}) /\ Good(<<release("ptable")>>, X, {"ptable"}, {})
      /\ Good(<<acquire("idelock")>>, X, {}, {"idelock"})
  BY GoodLocks DEF Locks
<1>2. ASSUME {"runnable", "sched"} \subseteq X PROVE Good(yield, X, {}, {})
  <2>1. Good(<<Do("runnable")>>, X, {"ptable"}, {"ptable", "off"}) /\ Good(<<Do("sched")>>, X, {"ptable", "off"}, {"ptable"})
    BY <1>2, GoodDo
  <2>2. Good(<<Do("runnable"), Do("sched")>>, X, {"ptable"}, {"ptable"})
    BY <2>1, Good2
  <2> QED BY <1>1, <2>2, GoodUnder DEF yield
<1>3. ASSUME {"zombie", "sched", "zombie exit"} \subseteq X PROVE Good(exit, X, {}, {})
  <2>1. /\ Good(<<Do("zombie")>>, X, {"ptable"}, {"ptable", "off"}) /\ Good(<<Do("sched")>>, X, {"ptable", "off"}, {"ptable"})
        /\ Good(<<Do("zombie exit")>>, X, {"ptable"}, {})
    BY <1>3, GoodDo
  <2> QED BY <1>1, <2>1, Good4 DEF exit
<1>4. ASSUME "find" \in X PROVE Good(allocproc, X, {}, {})
  <2>1. Good(<<Do("find")>>, X, {"ptable"}, {})
    BY <1>4, GoodDo
  <2> QED BY <1>1, <2>1, Good2 DEF allocproc
<1>5. ASSUME {"request", "await"} \subseteq X PROVE Good(iderw, X, {}, {})
  <2>1. Good(<<Do("request")>>, X, {"idelock"}, {"idelock"}) /\ Good(<<Do("await")>>, X, {"idelock"}, {})
    BY <1>5, GoodDo
  <2> QED BY <1>1, <2>1, Good3 DEF iderw
<1>6. ASSUME {"sti", "scan"} \subseteq X PROVE Good(scheduler, X, {}, {})
  <2>1. Good(<<Do("sti")>>, X, {}, {})
    BY <1>6, GoodDo
  <2>2. Good(<<On("scan", 1)>>, X, {"ptable"}, {})
    <3>1. PICK op \in {"scan"} : TRUE
      OBVIOUS
    <3>2. op \in {"scan", "back", "find", "reap", "zombie exit"} \cap X
      BY <1>6
    <3>3. 1 \in Int
      OBVIOUS
    <3> QED BY <3>1, <3>2, <3>3, GoodOps
  <2> QED BY <1>1, <2>1, <2>2, Good3 DEF scheduler
<1>7. ASSUME {"forkret", "iret"} \subseteq X PROVE Good(forkret, X, {"ptable"}, {})
  <2>1. Good(<<Do("forkret")>>, X, {}, {})
    BY <1>7, GoodDo
  <2>2. Good(<<On("iret", 0)>>, X, {}, {})
    <3>1. PICK op \in {"iret"} : TRUE
      OBVIOUS
    <3>2. op \in {"sti", "iret", "quit", "preempt", "started", "cprintf", "forkret", "kstack", "entry", "idtinit"} \cap X
      BY <1>7
    <3>3. 0 \in Int
      OBVIOUS
    <3> QED BY <3>1, <3>2, <3>3, GoodOps
  <2> QED BY <1>1, <2>1, <2>2, Good3 DEF forkret
<1>8. ASSUME {"cprintf", "idtinit", "started"} \subseteq X PROVE Good(mpmain, X, {}, {})
  <2>1. Good(<<Do("cprintf")>>, X, {}, {}) /\ Good(<<Do("idtinit")>>, X, {}, {}) /\ Good(<<Do("started")>>, X, {}, {})
    BY <1>8, GoodDo
  <2> QED BY <2>1, Good3 DEF mpmain
<1> QED BY <1>2, <1>3, <1>4, <1>5, <1>6, <1>7, <1>8

LEMMA GoodStart ==
  ASSUME NEW X
  PROVE  /\ CpuOps \subseteq X => Good(mpenter, X, {}, {})
         /\ CpuOps \cup BootOps \subseteq X => Good(main, X, {"early"}, {})
<1>1. ASSUME CpuOps \subseteq X PROVE Good(mpenter, X, {}, {}) /\ Good(mpmain, X, {}, {})
  <2>1. Good(<<Do("entry")>>, X, {}, {}) /\ Good(<<Do("lapicinit")>>, X, {}, {})
    BY <1>1, GoodDo DEF CpuOps
  <2>2. Good(<<Do("entry"), Do("lapicinit")>>, X, {}, {})
    BY <2>1, Good2
  <2>3. {"acquire", "release"} \subseteq X /\ {"cprintf", "idtinit", "started"} \subseteq X
    BY <1>1 DEF CpuOps
  <2>4. Good(mpmain, X, {}, {})
    BY <2>3, GoodSmall
  <2> QED BY <2>2, <2>4, GoodConcat DEF mpenter
<1>2. ASSUME CpuOps \cup BootOps \subseteq X PROVE Good(main, X, {"early"}, {})
  <2>1. ASSUME NEW op \in {"kinit1", "mpinit", "consoleinit", "ideinit", "startothers", "freerange", "kalloc", "lapicinit"}, NEW n \in Int
        PROVE  Good(<<On(op, n)>>, X, {"early"}, {"early"})
    <3>1. op \in X
      BY <1>2 DEF CpuOps, BootOps
    <3>2. CASE op \in {"kalloc", "lapicinit"}
      <4>1. op \in {"kalloc", "lapicinit"} \cap X
        BY <3>1, <3>2
      <4> QED BY <4>1, GoodOps
    <3>3. CASE op \notin {"kalloc", "lapicinit"}
      <4>1. op \in {"kinit1", "mpinit", "consoleinit", "ideinit", "startothers", "lapicstartap", "wait", "freerange"} \cap X
        BY <3>1, <3>3
      <4> QED BY <4>1, GoodOps
    <3> QED BY <3>2, <3>3
  <2>2. 0 \in Int /\ 1 \in Int
    OBVIOUS
  <2>3. Good(<<Do("kinit1"), Do("kalloc"), On("mpinit", 1)>>, X, {"early"}, {"early"})
    <3>1. Good(<<Do("kinit1")>>, X, {"early"}, {"early"}) /\ Good(<<Do("kalloc")>>, X, {"early"}, {"early"})
          /\ Good(<<On("mpinit", 1)>>, X, {"early"}, {"early"})
      BY <2>1, <2>2 DEF Do
    <3> QED BY <3>1, Good3
  <2>4. Good(<<Do("lapicinit"), Do("consoleinit"), Do("ideinit")>>, X, {"early"}, {"early"})
    <3>1. Good(<<Do("lapicinit")>>, X, {"early"}, {"early"}) /\ Good(<<Do("consoleinit")>>, X, {"early"}, {"early"})
          /\ Good(<<Do("ideinit")>>, X, {"early"}, {"early"})
      BY <2>1, <2>2 DEF Do
    <3> QED BY <3>1, Good3
  <2>5. Good(<<On("startothers", 1), Do("freerange"), Do("use_lock")>>, X, {"early"}, {})
    <3>1. Good(<<On("startothers", 1)>>, X, {"early"}, {"early"}) /\ Good(<<Do("freerange")>>, X, {"early"}, {"early"})
      BY <2>1, <2>2 DEF Do
    <3>2. Good(<<Do("use_lock")>>, X, {"early"}, {})
      <4>1. "use_lock" \in X
        BY <1>2 DEF BootOps
      <4> QED BY <4>1, GoodDo
    <3> QED BY <3>1, <3>2, Good3
  <2>6. PICK a : a = <<Do("kinit1"), Do("kalloc"), On("mpinit", 1)>>
    OBVIOUS
  <2>7. PICK b : b = <<Do("lapicinit"), Do("consoleinit"), Do("ideinit")>>
    OBVIOUS
  <2>8. PICK d : d = <<On("startothers", 1), Do("freerange"), Do("use_lock")>>
    OBVIOUS
  <2>9. PICK s : s = <<Do("kinit1"), Do("kalloc"), On("mpinit", 1), Do("lapicinit"), Do("consoleinit"), Do("ideinit"),
          On("startothers", 1), Do("freerange"), Do("use_lock")>>
    OBVIOUS
  <2>10. Good(a \o b, X, {"early"}, {"early"}) /\ a \o b = <<Do("kinit1"), Do("kalloc"), On("mpinit", 1), Do("lapicinit"), Do("consoleinit"), Do("ideinit")>>
    BY <2>3, <2>4, <2>6, <2>7, GoodConcat, Join33
  <2>11. PICK ab : ab = a \o b
    OBVIOUS
  <2>12. ab \o d = s
    BY <2>8, <2>9, <2>10, <2>11, Join63
  <2>13. Good(s, X, {"early"}, {})
    BY <2>5, <2>8, <2>10, <2>11, <2>12, GoodConcat
  <2>14. Good(allocproc, X, {}, {})
    <3>1. {"acquire", "release"} \subseteq X /\ "find" \in X
      BY <1>2 DEF CpuOps, BootOps
    <3> QED BY <3>1, GoodSmall
  <2>15. Good(mpmain, X, {}, {})
    BY <1>1, <1>2
  <2>16. Good(s \o allocproc, X, {"early"}, {})
    BY <2>13, <2>14, GoodConcat
  <2>17. Good((s \o allocproc) \o mpmain, X, {"early"}, {})
    BY <2>15, <2>16, GoodConcat
  <2> QED BY <2>9, <2>17 DEF main
<1> QED BY <1>1, <1>2

----------------------------------------------------------------------------
(* Threads.                                                                *)

LEMMA Kinds ==
  ASSUME NEW t \in Threads
  PROVE  (\E d \in Apics : t = <<"cpu", d>>) \/ (\E p \in Procs : t = <<"proc", p>>)
  BY DEF Threads

LEMMA Names ==
  /\ \A d \in Apics : <<"cpu", d>> \in Threads /\ Code(<<"cpu", d>>) = todo[d] /\ Code(<<"cpu", d>>)' = todo'[d]
  /\ \A p \in Procs : <<"proc", p>> \in Threads /\ Code(<<"proc", p>>) = kern[p] /\ Code(<<"proc", p>>)' = kern'[p]
  /\ \A d \in Apics, p \in Procs : <<"cpu", d>> # <<"proc", p>>
  BY DEF Threads, Code

LEMMA Runs ==
  ASSUME DataTypes, CodeTypes, NEW c \in Apics
  PROVE  /\ Running(c) \in Threads /\ Code(Running(c)) = Todo(c)
         /\ Todo(c) \in Seq(Instructions(OpsOf(Running(c))))
         /\ cpu[c].run = 0 => Running(c) = <<"cpu", c>> /\ Todo(c) = todo[c]
         /\ cpu[c].run # 0 => cpu[c].run \in Procs /\ Running(c) = <<"proc", cpu[c].run>> /\ Todo(c) = kern[cpu[c].run]
<1>1. cpu[c].run \in Procs \cup {0}
  BY DEF DataTypes, CpuType
<1>2. CASE cpu[c].run = 0
  <2>1. Running(c) = <<"cpu", c>> /\ Todo(c) = todo[c]
    BY <1>2 DEF Running, Todo
  <2>2. Running(c) \in Threads /\ Code(Running(c)) = Todo(c)
    BY <2>1, Names
  <2> QED BY <1>2, <2>1, <2>2 DEF CodeTypes
<1>3. CASE cpu[c].run # 0
  <2>1. cpu[c].run \in Procs /\ Running(c) = <<"proc", cpu[c].run>> /\ Todo(c) = kern[cpu[c].run]
    BY <1>1, <1>3 DEF Running, Todo
  <2>2. Running(c) \in Threads /\ Code(Running(c)) = Todo(c)
    BY <2>1, Names
  <2> QED BY <1>3, <2>1, <2>2 DEF CodeTypes
<1> QED BY <1>2, <1>3

\* No two processors run one thread.
LEMMA Apart ==
  ASSUME RunInv, NEW c \in Apics, NEW d \in Apics, c # d
  PROVE  Running(c) # Running(d)
  BY DEF RunInv, Running

LEMMA GoesTo ==
  ASSUME DataTypes, CodeTypes, NEW c \in Apics, NEW S, Goto(c, S)
  PROVE  /\ DOMAIN todo' = Apics /\ DOMAIN kern' = Procs
         /\ \A r \in Threads : Code(r)' = IF r = Running(c) THEN S ELSE Code(r)
<1>1. DOMAIN todo = Apics /\ DOMAIN kern = Procs
  BY DEF DataTypes
<1>2. CASE cpu[c].run = 0
  <2>1. todo' = [todo EXCEPT ![c] = S] /\ kern' = kern
    BY <1>2 DEF Goto
  <2>2. Running(c) = <<"cpu", c>>
    BY <1>2 DEF Running
  <2>3. DOMAIN todo' = Apics /\ DOMAIN kern' = Procs /\ todo'[c] = S /\ \A d \in Apics \ {c} : todo'[d] = todo[d]
    BY <1>1, <2>1
  <2>4. ASSUME NEW r \in Threads PROVE Code(r)' = IF r = Running(c) THEN S ELSE Code(r)
    <3>1. CASE \E d \in Apics : r = <<"cpu", d>>
      <4>1. PICK d \in Apics : r = <<"cpu", d>>
        BY <3>1
      <4>2. r = Running(c) <=> d = c
        BY <2>2, <4>1
      <4> QED BY <2>3, <4>1, <4>2, Names
    <3>2. CASE \E p \in Procs : r = <<"proc", p>>
      <4>1. PICK p \in Procs : r = <<"proc", p>>
        BY <3>2
      <4>2. r # Running(c)
        BY <2>2, <4>1
      <4> QED BY <2>1, <4>1, <4>2, Names
    <3> QED BY <3>1, <3>2, Kinds
  <2> QED BY <2>3, <2>4
<1>3. CASE cpu[c].run # 0
  <2>1. PICK q \in Procs : q = cpu[c].run /\ Running(c) = <<"proc", q>>
    BY <1>3, Runs
  <2>2. kern' = [kern EXCEPT ![q] = S] /\ todo' = todo
    BY <1>3, <2>1 DEF Goto
  <2>3. DOMAIN todo' = Apics /\ DOMAIN kern' = Procs /\ kern'[q] = S /\ \A p \in Procs \ {q} : kern'[p] = kern[p]
    BY <1>1, <2>2
  <2>4. ASSUME NEW r \in Threads PROVE Code(r)' = IF r = Running(c) THEN S ELSE Code(r)
    <3>1. CASE \E d \in Apics : r = <<"cpu", d>>
      <4>1. PICK d \in Apics : r = <<"cpu", d>>
        BY <3>1
      <4>2. r # Running(c)
        BY <2>1, <4>1
      <4> QED BY <2>2, <4>1, <4>2, Names
    <3>2. CASE \E p \in Procs : r = <<"proc", p>>
      <4>1. PICK p \in Procs : r = <<"proc", p>>
        BY <3>2
      <4>2. r = Running(c) <=> p = q
        BY <2>1, <4>1
      <4> QED BY <2>1, <2>3, <4>1, <4>2, Names
    <3> QED BY <3>1, <3>2, Kinds
  <2> QED BY <2>3, <2>4
<1> QED BY <1>2, <1>3

----------------------------------------------------------------------------
(* A step of one thread.                                                   *)

\* Processor c, which runs t, goes on with S; only the thread u may get other code, U, and
\* only the processes of P another standing.
Turns(c, t, S, u, U, P) ==
  /\ t = Running(c) /\ ~ Asleep(c) /\ DataTypes' /\ given' = given
  /\ \A r \in Threads : Code(r)' = IF r = t THEN S ELSE IF r = u THEN U ELSE Code(r)
  /\ cpu[c].run = cpu'[c].run
  /\ \A d \in Apics \ {c} : cpu'[d] = cpu[d] /\ Mine(d)' = Mine(d)
  /\ Sane(c)'
  /\ IF cpu[c].run = 0 THEN cpu'[c].proc = 0 \/ (S # <<>> /\ Head(S).op = "back") ELSE cpu'[c].proc = cpu[c].proc
  /\ S \in Seq(Instructions(OpsOf(t))) /\ Ordered(S) /\ \A a \in 1 .. Len(S) : Fact(t, S[a])'
  /\ \A a \in 1 .. Len(S) : S[a].op \in {"kstack", "start"} =>
       \A r \in Threads \ {t} : \A b \in 1 .. Len(Code(r)) :
         Code(r)[b].op \in {"kstack", "start"} => Code(r)[b].n # S[a].n
  /\ boot'.cpus = boot.cpus \/ t = <<"cpu", BSP>>
  /\ \A j, k \in 1 .. Len(boot'.cpus) : boot'.cpus[j] = boot'.cpus[k] => j = k
  /\ boot'.use_lock = boot.use_lock \/ (c = BSP /\ boot'.use_lock)
  /\ ~ boot'.use_lock =>
       ~ cpu'[BSP].IF /\ cpu'[BSP].intena # TRUE /\ \A p \in Procs : proc'[p].state = "UNUSED"
  /\ P \subseteq Procs
  /\ \A p \in Procs \ P :
       /\ proc'[p].state = "RUNNING" <=> proc[p].state = "RUNNING"
       /\ proc[p].state = "EMBRYO" => proc'[p].state = "EMBRYO"
       /\ proc[p].state = "ZOMBIE" => proc'[p].state = "ZOMBIE"
       /\ proc'[p].state \in {"UNUSED", "EMBRYO"} <=> proc[p].state \in {"UNUSED", "EMBRYO"}
  /\ \A p \in P :
       /\ \A d \in Apics \ {c} : cpu[d].run # p
       /\ \A r \in Threads \ {t} : \A b \in 1 .. Len(Code(r)) :
            Code(r)[b].op \in {"kstack", "start", "unused"} => Code(r)[b].n # p
       /\ Idle(p) /\ proc'[p].state \notin {"UNUSED", "EMBRYO"} => Path(kern[p], {"ptable"}, {})
       /\ cpu[c].run = p => proc'[p].state \notin {"UNUSED", "EMBRYO"}
  /\ u \in Threads
  /\ u # t => U \in Seq(Instructions(OpsOf(u) \ Wild))
  /\ \A d \in Apics : u # t /\ u = <<"cpu", d>> =>
       t = <<"cpu", BSP>> /\ cpu[d].run = 0 /\ cpu[d].at = "run" /\ cpu[d].proc = 0 /\ Path(U, Held(d), {})
  /\ \A q \in Procs : u # t /\ u = <<"proc", q>> =>
       U = forkret /\ proc[q].state = "EMBRYO" /\ proc'[q].state = "EMBRYO"

LEMMA QuietFact ==
  ASSUME NEW t, NEW i, i.op \notin Wild
  PROVE  Fact(t, i)'
  BY DEF Fact, Wild, Special

LEMMA QuietOrder ==
  ASSUME NEW X, NEW s \in Seq(Instructions(X \ Wild))
  PROVE  Ordered(s) /\ \A a \in 1 .. Len(s) : s[a].op \notin Wild
<1>1. ASSUME NEW a \in 1 .. Len(s) PROVE s[a].op \notin Wild
  <2>1. s[a] \in Instructions(X \ Wild)
    BY ElementOfSeq
  <2> QED BY <2>1 DEF Instructions
<1>2. ASSUME NEW a \in 1 .. Len(s), NEW b \in 1 .. Len(s) PROVE ~ Clash(s[a], s[b])
  <2>1. s[a].op \notin Wild /\ s[b].op \notin Wild
    BY <1>1
  <2> QED BY <2>1 DEF Clash, Wild, Special
<1> QED BY <1>1, <1>2 DEF Ordered

LEMMA Turn ==
  ASSUME Core, NEW c \in Apics, NEW t, NEW S, NEW u, NEW U, NEW P, Turns(c, t, S, u, U, P)
  PROVE  Core'
<1> USE DEF Core
<1>1. /\ t \in Threads /\ t = Running(c) /\ Code(t) = Todo(c) /\ u \in Threads
      /\ cpu[c].run = 0 => t = <<"cpu", c>>
      /\ cpu[c].run # 0 => cpu[c].run \in Procs /\ t = <<"proc", cpu[c].run>>
  BY Runs DEF Turns
<1>2. DataTypes' /\ given' = given /\ cpu'[c].run = cpu[c].run /\ Sane(c)'
  BY DEF Turns
<1>3. \A r \in Threads : Code(r)' = IF r = t THEN S ELSE IF r = u THEN U ELSE Code(r)
  BY DEF Turns
<1>4. \A d \in Apics \ {c} : cpu'[d] = cpu[d] /\ Mine(d)' = Mine(d)
  BY DEF Turns
<1>5. \A d \in Apics : cpu'[d].run = cpu[d].run /\ Running(d)' = Running(d)
  BY <1>2, <1>4 DEF Running
<1>6. \A p \in Procs : Idle(p)' <=> Idle(p)
  BY <1>5 DEF Idle
<1>7. \A d \in Apics : u # t /\ u = <<"cpu", d>> =>
        t = <<"cpu", BSP>> /\ cpu[d].run = 0 /\ cpu[d].at = "run" /\ cpu[d].proc = 0 /\ Path(U, Held(d), {}) /\ d # c
  <2> SUFFICES ASSUME NEW d \in Apics, u # t, u = <<"cpu", d>>
               PROVE  t = <<"cpu", BSP>> /\ cpu[d].run = 0 /\ cpu[d].at = "run" /\ cpu[d].proc = 0 /\ Path(U, Held(d), {}) /\ d # c
    OBVIOUS
  <2>1. t = <<"cpu", BSP>> /\ cpu[d].run = 0 /\ cpu[d].at = "run" /\ cpu[d].proc = 0 /\ Path(U, Held(d), {})
    BY DEF Turns
  <2>2. d = c => t = <<"cpu", d>>
    BY <1>1, <2>1
  <2> QED BY <2>1, <2>2
<1>8. \A q \in Procs : u # t /\ u = <<"proc", q>> => U = forkret /\ proc[q].state = "EMBRYO" /\ proc'[q].state = "EMBRYO"
  BY DEF Turns
<1>9. u # t => U \in Seq(Instructions(OpsOf(u) \ Wild))
  BY DEF Turns
<1>10. u # t => Ordered(U) /\ \A a \in 1 .. Len(U) : U[a].op \notin Wild
  BY <1>9, QuietOrder
<1>11. /\ P \subseteq Procs
       /\ \A p \in Procs \ P :
            /\ proc'[p].state = "RUNNING" <=> proc[p].state = "RUNNING"
            /\ proc[p].state = "EMBRYO" => proc'[p].state = "EMBRYO"
            /\ proc[p].state = "ZOMBIE" => proc'[p].state = "ZOMBIE"
            /\ proc'[p].state \in {"UNUSED", "EMBRYO"} <=> proc[p].state \in {"UNUSED", "EMBRYO"}
       /\ \A p \in P :
            /\ \A d \in Apics \ {c} : cpu[d].run # p
            /\ \A r \in Threads \ {t} : \A b \in 1 .. Len(Code(r)) :
                 Code(r)[b].op \in {"kstack", "start", "unused"} => Code(r)[b].n # p
            /\ Idle(p) /\ proc'[p].state \notin {"UNUSED", "EMBRYO"} => Path(kern[p], {"ptable"}, {})
            /\ cpu[c].run = p => proc'[p].state \notin {"UNUSED", "EMBRYO"}
  BY DEF Turns
<1>12. /\ boot'.cpus = boot.cpus \/ t = <<"cpu", BSP>>
       /\ \A j, k \in 1 .. Len(boot'.cpus) : boot'.cpus[j] = boot'.cpus[k] => j = k
       /\ boot'.use_lock = boot.use_lock \/ (c = BSP /\ boot'.use_lock)
       /\ ~ boot'.use_lock =>
            ~ cpu'[BSP].IF /\ cpu'[BSP].intena # TRUE /\ \A p \in Procs : proc'[p].state = "UNUSED"
  BY DEF Turns
<1>13. S \in Seq(Instructions(OpsOf(t))) /\ Ordered(S) /\ \A a \in 1 .. Len(S) : Fact(t, S[a])'
  BY DEF Turns
\* A process that runs is no EMBRYO, so u is not the thread of another processor's process.
<1>14. ASSUME NEW d \in Apics \ {c}
       PROVE  /\ Running(d) # t
              /\ Running(d) = u => u # t /\ u = <<"cpu", d>>
  <2>1. Running(d) # t
    BY <1>1, Apart
  <2>2. ASSUME Running(d) = u PROVE u = <<"cpu", d>>
    <3>1. CASE cpu[d].run = 0
      BY <2>2, <3>1, Runs
    <3>2. CASE cpu[d].run # 0
      <4>1. PICK q \in Procs : q = cpu[d].run /\ u = <<"proc", q>>
        BY <2>2, <3>2, Runs
      <4>2. proc[q].state = "EMBRYO"
        BY <1>8, <2>1, <2>2, <4>1
      <4> QED BY <3>2, <4>1, <4>2 DEF RunInv
    <3> QED BY <3>1, <3>2
  <2> QED BY <2>1, <2>2
<1>15. ASSUME NEW d \in Apics, NEW r \in Threads, r = Running(d) PROVE Todo(d)' = Code(r)'
  <2>1. CASE cpu[d].run = 0
    BY <1>5, <1>15, <2>1, Runs, Names DEF Todo
  <2>2. CASE cpu[d].run # 0
    <3>1. PICK q \in Procs : q = cpu[d].run /\ r = <<"proc", q>>
      BY <1>15, <2>2, Runs
    <3> QED BY <1>5, <2>2, <3>1, Names DEF Todo
  <2> QED BY <2>1, <2>2
<1>16. Todo(c)' = S /\ \A d \in Apics \ {c} : Running(d) # u => Todo(d)' = Todo(d)
  <2>1. Todo(c)' = S
    BY <1>1, <1>3, <1>15
  <2>2. ASSUME NEW d \in Apics \ {c}, Running(d) # u PROVE Todo(d)' = Todo(d)
    <3>1. PICK r \in Threads : r = Running(d) /\ Code(r) = Todo(d)
      BY Runs
    <3>2. Code(r)' = Code(r)
      BY <1>3, <1>14, <2>2, <3>1
    <3> QED BY <1>15, <3>1, <3>2
  <2> QED BY <2>1, <2>2
\* The thread of a processor that runs a process waits.
<1>17. ASSUME NEW d \in Apics, cpu[d].run # 0 PROVE todo'[d] = todo[d]
  <2>1. PICK r \in Threads : r = <<"cpu", d>> /\ todo[d] = Code(r) /\ todo'[d] = Code(r)'
    BY Names
  <2>2. r # t
    <3>1. CASE cpu[c].run = 0
      BY <1>1, <1>17, <2>1, <3>1
    <3>2. CASE cpu[c].run # 0
      BY <1>1, <2>1, <3>2, Names
    <3> QED BY <3>1, <3>2
  <2>3. r # u
    BY <1>7, <1>17, <2>1, <2>2
  <2> QED BY <1>3, <2>1, <2>2, <2>3
<1>18. CodeTypes'
  <2>1. ASSUME NEW r \in Threads PROVE (Code(r) \in Seq(Instructions(OpsOf(r))))'
    <3>1. CASE r = t
      BY <1>3, <1>13, <3>1
    <3>2. CASE r # t /\ r = u
      <4>1. OpsOf(u) \ Wild \subseteq OpsOf(u)
        OBVIOUS
      <4> QED BY <1>3, <1>9, <3>2, <4>1, MoreOps
    <3>3. CASE r # t /\ r # u
      BY <1>3, <3>3 DEF CodeTypes
    <3> QED BY <3>1, <3>2, <3>3
  <2> QED BY <2>1 DEF CodeTypes
<1>19. SaneInv'
  <2>1. ASSUME NEW d \in Apics \ {c} PROVE Sane(d)'
    <3>1. Sane(d) /\ cpu'[d] = cpu[d] /\ Mine(d)' = Mine(d)
      BY <1>4 DEF SaneInv
    <3>2. d = BSP => boot'.use_lock = boot.use_lock
      BY <1>12
    <3>3. cpu[d].run # 0 => (proc'[cpu[d].run].state = "RUNNING" <=> proc[cpu[d].run].state = "RUNNING")
      <4> HAVE cpu[d].run # 0
      <4>1. cpu[d].run \in Procs \ P
        BY <1>11, Runs
      <4> QED BY <1>11, <4>1
    <3>4. CASE Running(d) = u
      <4>1. u # t /\ u = <<"cpu", d>>
        BY <1>14, <3>4
      <4>2. cpu[d].run = 0 /\ cpu[d].at = "run" /\ Path(U, Held(d), {})
        BY <1>7, <4>1
      <4>3. Todo(d)' = U
        BY <1>1, <1>3, <1>15, <3>4, <4>1
      <4>4. Held(d)' = Held(d)
        BY <3>1, <3>2, <4>2 DEF Held
      <4> QED BY <3>1, <4>2, <4>3, <4>4 DEF Sane
    <3>5. CASE Running(d) # u
      <4>1. Todo(d)' = Todo(d) /\ Now(d)' = Now(d)
        BY <1>16, <3>5 DEF Now
      <4>2. Held(d)' = Held(d)
        BY <3>1, <3>2, <3>3, <4>1 DEF Held
      <4> QED BY <3>1, <4>1, <4>2 DEF Sane
    <3> QED BY <3>4, <3>5
  <2> QED BY <1>2, <2>1 DEF SaneInv
<1>20. Sounds'
  <2>1. ASSUME NEW d \in Apics, cpu'[d].run # 0 PROVE Path(todo'[d], {"ptable"}, {})
    BY <1>5, <1>17, <2>1 DEF Sounds
  <2>2. ASSUME NEW p \in Procs, Idle(p)', proc'[p].state \notin {"UNUSED", "EMBRYO"} PROVE Path(kern'[p], {"ptable"}, {})
    <3>1. Idle(p)
      BY <1>6, <2>2
    <3>2. PICK r \in Threads : r = <<"proc", p>> /\ kern[p] = Code(r) /\ kern'[p] = Code(r)'
      BY Names
    <3>3. r # t
      <4>1. cpu[c].run # p
        BY <3>1 DEF Idle
      <4>2. CASE cpu[c].run = 0
        BY <1>1, <3>2, <4>2, Names
      <4>3. CASE cpu[c].run # 0
        BY <1>1, <3>2, <4>1, <4>3
      <4> QED BY <4>2, <4>3
    <3>4. r # u
      BY <1>8, <2>2, <3>2, <3>3
    <3>5. kern'[p] = kern[p]
      BY <1>3, <3>2, <3>3, <3>4
    <3>6. CASE p \in P
      BY <1>11, <2>2, <3>1, <3>5, <3>6
    <3>7. CASE p \notin P
      <4>1. proc[p].state \notin {"UNUSED", "EMBRYO"}
        BY <1>11, <2>2, <3>7
      <4> QED BY <3>1, <3>5, <4>1 DEF Sounds
    <3> QED BY <3>6, <3>7
  <2> QED BY <2>1, <2>2 DEF Sounds
<1>21. RunInv'
  <2>1. ASSUME NEW d \in Apics, cpu'[d].run # 0
        PROVE  /\ cpu'[d].proc = cpu'[d].run /\ proc'[cpu'[d].run].state \notin {"UNUSED", "EMBRYO"}
               /\ todo'[d] # <<>> /\ Head(todo'[d]).op = "back"
               /\ \A e \in Apics : cpu'[e].run = cpu'[d].run => e = d
    <3>1. PICK q \in Procs : q = cpu[d].run /\ q = cpu'[d].run /\ q # 0
      BY <1>5, <2>1, Runs
    <3>2. /\ cpu[d].proc = q /\ proc[q].state \notin {"UNUSED", "EMBRYO"} /\ todo[d] # <<>> /\ Head(todo[d]).op = "back"
          /\ \A e \in Apics : cpu[e].run = q => e = d
      <4>1. /\ cpu[d].proc = cpu[d].run /\ proc[cpu[d].run].state \notin {"UNUSED", "EMBRYO"}
            /\ todo[d] # <<>> /\ Head(todo[d]).op = "back"
            /\ \A e \in Apics : cpu[e].run = cpu[d].run => e = d
        <5>1. cpu[d].run # 0
          BY <3>1
        <5> QED BY <5>1 DEF RunInv
      <4> QED BY <3>1, <4>1
    <3>3. cpu'[d].proc = cpu[d].proc
      BY <1>4, <3>1 DEF Turns
    <3>4. proc'[q].state \notin {"UNUSED", "EMBRYO"}
      <4>1. CASE q \in P
        BY <1>11, <3>1, <4>1
      <4>2. CASE q \notin P
        BY <1>11, <3>2, <4>2
      <4> QED BY <4>1, <4>2
    <3>5. todo'[d] = todo[d]
      BY <1>17, <3>1
    <3> QED BY <1>5, <3>1, <3>2, <3>3, <3>4, <3>5
  <2>2. ASSUME NEW d \in Apics, cpu'[d].run = 0 PROVE cpu'[d].proc = 0 \/ (Todo(d)' # <<>> /\ Head(Todo(d)').op = "back")
    <3>1. cpu[d].run = 0
      BY <1>5, <2>2
    <3>2. CASE d = c
      BY <1>16, <3>1, <3>2 DEF Turns
    <3>3. CASE d # c /\ Running(d) = u
      BY <1>4, <1>7, <1>14, <3>3
    <3>4. CASE d # c /\ Running(d) # u
      BY <1>4, <1>16, <3>1, <3>4 DEF RunInv, Now
    <3> QED BY <3>2, <3>3, <3>4
  <2> QED BY <2>1, <2>2 DEF RunInv, Now
<1>22. EarlyInv'
  <2> SUFFICES ASSUME ~ boot'.use_lock
               PROVE  /\ ~ cpu'[BSP].IF /\ cpu'[BSP].intena # TRUE
                      /\ \A d \in Apics : cpu'[d].run = 0
                      /\ \A p \in Procs : proc'[p].state = "UNUSED"
    BY DEF EarlyInv
  <2>1. ~ boot.use_lock
    BY <1>12
  <2> QED BY <1>5, <1>12, <2>1 DEF EarlyInv
<1>23. OrderInv'
  <2>1. ASSUME NEW r \in Threads PROVE Ordered(Code(r))'
    <3>1. CASE r = t
      BY <1>3, <1>13, <3>1 DEF Ordered
    <3>2. CASE r # t /\ r = u
      BY <1>3, <1>10, <3>2 DEF Ordered
    <3>3. CASE r # t /\ r # u
      BY <1>3, <3>3 DEF OrderInv, Ordered
    <3> QED BY <3>1, <3>2, <3>3
  <2> QED BY <2>1 DEF OrderInv
\* What others know stays true.
<1>24. ASSUME NEW d \in Apics, Asleep(d), t # <<"cpu", BSP>> PROVE Asleep(d)'
  <2>1. d # c
    BY <1>24 DEF Turns
  <2>2. PICK r \in Threads : r = <<"cpu", d>> /\ todo[d] = Code(r) /\ todo'[d] = Code(r)'
    BY Names
  <2>3. r # t
    <3>1. CASE cpu[c].run = 0
      BY <1>1, <2>1, <2>2, <3>1
    <3>2. CASE cpu[c].run # 0
      BY <1>1, <2>2, <3>2, Names
    <3> QED BY <3>1, <3>2
  <2>4. r # u
    BY <1>7, <1>24, <2>2, <2>3
  <2>5. todo'[d] = todo[d]
    BY <1>3, <2>2, <2>3, <2>4
  <2> QED BY <1>4, <1>24, <2>1, <2>5 DEF Asleep
<1>25. ASSUME NEW r \in Threads, r # t, r # u, NEW a \in 1 .. Len(Code(r)), NEW i, i = Code(r)[a] PROVE Fact(r, i)'
  <2>1. Fact(r, i)
    BY <1>25 DEF FactInv
  <2>2. i \in Instructions(OpsOf(r))
    BY <1>25, ElementOfSeq DEF CodeTypes
  <2>3. i.op \in {"kstack", "start"} => i.n \in Procs /\ proc'[i.n].state = "EMBRYO"
    <3> HAVE i.op \in {"kstack", "start"}
    <3>1. i.n \in Procs /\ proc[i.n].state = "EMBRYO"
      BY <2>1 DEF Fact
    <3>2. i.n \notin P
      BY <1>11, <1>25
    <3> QED BY <1>11, <3>1, <3>2
  <2>4. i.op = "start" => kern'[i.n] = forkret
    <3> HAVE i.op = "start"
    <3>1. i.n \in Procs /\ proc[i.n].state = "EMBRYO" /\ kern[i.n] = forkret
      BY <2>1 DEF Fact
    <3>2. PICK v \in Threads : v = <<"proc", i.n>> /\ kern[i.n] = Code(v) /\ kern'[i.n] = Code(v)'
      BY <3>1, Names
    <3>3. v # t
      <4>1. CASE cpu[c].run = 0
        BY <1>1, <3>1, <3>2, <4>1, Names
      <4>2. CASE cpu[c].run # 0
        <5>1. cpu[c].run # i.n
          BY <3>1, <4>2 DEF RunInv
        <5> QED BY <1>1, <3>2, <4>2, <5>1
      <4> QED BY <4>1, <4>2
    <3>4. CASE v = u
      BY <1>3, <1>8, <3>1, <3>2, <3>3, <3>4
    <3>5. CASE v # u
      BY <1>3, <3>1, <3>2, <3>3, <3>5
    <3> QED BY <3>4, <3>5
  <2>5. i.op = "unused" => /\ i.n \in Procs /\ proc'[i.n].state = "ZOMBIE"
                           /\ \E d \in Apics : Running(d)' = r /\ lock'["ptable"] = d
    <3> HAVE i.op = "unused"
    <3>1. i.n \in Procs /\ proc[i.n].state = "ZOMBIE"
      BY <2>1 DEF Fact
    <3>2. PICK d \in Apics : Running(d) = r /\ lock["ptable"] = d
      BY <2>1 DEF Fact
    <3>3. i.n \notin P
      BY <1>11, <1>25
    <3>4. d # c
      BY <1>1, <1>25, <3>2
    <3>5. PICK l \in Locks : l = "ptable"
      BY DEF Locks
    <3>6. l \in Mine(d)'
      BY <1>4, <3>2, <3>4, <3>5 DEF Mine
    <3>7. lock'["ptable"] = d
      BY <3>5, <3>6 DEF Mine
    <3> QED BY <1>5, <1>11, <3>1, <3>2, <3>3, <3>7
  <2>6. i.op \in {"lapicstartap", "startothers", "mpinit"} => t # <<"cpu", BSP>> /\ boot'.cpus = boot.cpus
    <3> HAVE i.op \in {"lapicstartap", "startothers", "mpinit"}
    <3>1. i.op \in OpsOf(r)
      BY <2>2 DEF Instructions
    <3>2. i.op \notin CpuOps \cup ProcOps
      BY DEF CpuOps, ProcOps
    <3>3. r[1] = "cpu" /\ r[2] = BSP
      BY <3>1, <3>2 DEF OpsOf
    <3>4. r = <<"cpu", BSP>>
      BY <3>3, Kinds
    <3> QED BY <1>12, <1>25, <3>4
  <2>7. i.op = "lapicstartap" => i.n \in 1 .. Len(boot'.cpus) /\ boot'.cpus[i.n] # BSP /\ Asleep(boot.cpus[i.n])' /\ boot'.cpus[i.n] = boot.cpus[i.n]
    <3> HAVE i.op = "lapicstartap"
    <3>1. t # <<"cpu", BSP>> /\ boot'.cpus = boot.cpus /\ i.n \in 1 .. Len(boot.cpus) /\ boot.cpus[i.n] # BSP /\ Asleep(boot.cpus[i.n])
      BY <2>1, <2>6 DEF Fact
    <3>2. PICK d \in Apics : d = boot.cpus[i.n]
      BY <3>1, ElementOfSeq DEF DataTypes
    <3>3. Asleep(d)'
      BY <1>24, <3>1, <3>2
    <3> QED BY <3>1, <3>2, <3>3 DEF Asleep, Mine
  <2>8. i.op = "startothers" => i.n >= 1 /\ \A j \in 1 .. Len(boot'.cpus) : i.n <= j /\ boot'.cpus[j] # BSP => Asleep(boot.cpus[j])'
    <3> HAVE i.op = "startothers"
    <3>1. t # <<"cpu", BSP>> /\ boot'.cpus = boot.cpus /\ i.n >= 1
      BY <2>1, <2>6 DEF Fact
    <3>2. ASSUME NEW j \in 1 .. Len(boot.cpus), i.n <= j, boot.cpus[j] # BSP PROVE Asleep(boot.cpus[j])'
      <4>1. PICK d \in Apics : d = boot.cpus[j]
        BY <3>2, ElementOfSeq DEF DataTypes
      <4>2. Asleep(d)
        BY <2>1, <3>2, <4>1 DEF Fact
      <4>3. Asleep(d)'
        BY <1>24, <3>1, <4>2
      <4> QED BY <3>1, <4>1, <4>3 DEF Asleep, Mine
    <3> QED BY <3>1, <3>2
  <2>9. i.op = "mpinit" =>
          /\ i.n >= 1 /\ \A d \in Apics \ {BSP} : Asleep(d)'
          /\ \A j \in 1 .. Len(boot'.cpus) : \E k \in 1 .. Len(given'.table) :
               k < i.n /\ given'.table[k].type = "MPPROC" /\ given'.table[k].apicid = boot'.cpus[j]
    <3> HAVE i.op = "mpinit"
    <3>1. t # <<"cpu", BSP>> /\ boot'.cpus = boot.cpus
      BY <2>6
    <3>2. i.n >= 1 /\ \A d \in Apics \ {BSP} : Asleep(d)
      BY <2>1 DEF Fact
    <3>3. \A j \in 1 .. Len(boot.cpus) : \E k \in 1 .. Len(given.table) :
            k < i.n /\ given.table[k].type = "MPPROC" /\ given.table[k].apicid = boot.cpus[j]
      BY <2>1 DEF Fact
    <3>4. \A d \in Apics \ {BSP} : Asleep(d)'
      BY <1>24, <3>1, <3>2
    <3> QED BY <1>2, <3>1, <3>2, <3>3, <3>4
  <2> QED BY <2>3, <2>4, <2>5, <2>7, <2>8, <2>9 DEF Fact
<1>26. FactInv'
  <2>1. ASSUME NEW r \in Threads, NEW a \in 1 .. Len(Code(r)') PROVE Fact(r, Code(r)[a])'
    <3>1. CASE r = t
      BY <1>3, <1>13, <2>1, <3>1
    <3>2. CASE r # t /\ r = u
      <4>1. PICK i : i = U[a] /\ i.op \notin Wild
        BY <1>3, <1>10, <2>1, <3>2
      <4>2. Fact(r, i)'
        BY <4>1, QuietFact
      <4> QED BY <1>3, <3>2, <4>1, <4>2
    <3>3. CASE r # t /\ r # u
      <4>1. Code(r)' = Code(r)
        BY <1>3, <3>3
      <4>2. PICK i : i = Code(r)[a]
        OBVIOUS
      <4>3. Fact(r, i)'
        BY <1>25, <2>1, <3>3, <4>1, <4>2
      <4> QED BY <4>1, <4>2, <4>3
    <3> QED BY <3>1, <3>2, <3>3
  <2> QED BY <2>1 DEF FactInv
<1>27. OnceInv'
  <2>1. ASSUME NEW r \in Threads, NEW v \in Threads, r # v, NEW a \in 1 .. Len(Code(r)'), NEW b \in 1 .. Len(Code(v)'),
               Code(r)'[a].op \in {"kstack", "start"}, Code(v)'[b].op \in {"kstack", "start"}, Code(r)'[a].n = Code(v)'[b].n
        PROVE  FALSE
    <3>1. \A w \in Threads : \A e \in 1 .. Len(Code(w)') : w = u /\ u # t => Code(w)'[e].op \notin {"kstack", "start"}
      BY <1>3, <1>10 DEF Wild, Special
    <3>2. (r = u => r = t) /\ (v = u => v = t)
      BY <2>1, <3>1
    <3>3. \A e \in 1 .. Len(S) : S[e].op \in {"kstack", "start"} =>
            \A w \in Threads \ {t} : \A f \in 1 .. Len(Code(w)) :
              Code(w)[f].op \in {"kstack", "start"} => Code(w)[f].n # S[e].n
      BY DEF Turns
    <3>4. CASE r = t
      <4>1. v # t /\ v # u /\ Code(v)' = Code(v) /\ Code(r)' = S
        BY <1>3, <2>1, <3>2, <3>4
      <4> QED BY <2>1, <3>3, <4>1
    <3>5. CASE v = t
      <4>1. r # t /\ r # u /\ Code(r)' = Code(r) /\ Code(v)' = S
        BY <1>3, <2>1, <3>2, <3>5
      <4> QED BY <2>1, <3>3, <4>1
    <3>6. CASE r # t /\ v # t
      <4>1. Code(r)' = Code(r) /\ Code(v)' = Code(v)
        BY <1>3, <3>2, <3>6
      <4> QED BY <2>1, <4>1 DEF OnceInv
    <3> QED BY <3>4, <3>5, <3>6
  <2> QED BY <1>12, <2>1 DEF OnceInv
<1> QED BY <1>2, <1>18, <1>19, <1>20, <1>21, <1>22, <1>23, <1>26, <1>27

\* A process may wake, no more.
Stands(p) ==
  \A s \in {"UNUSED", "EMBRYO", "RUNNING", "ZOMBIE"} : proc'[p].state = s <=> proc[p].state = s

\* The same when only the thread itself gets new code, nobody another standing, and what it
\* has to do is what it had or says nothing about the rest.
Stays(c, t, S) ==
  /\ t = Running(c) /\ DataTypes' /\ given' = given
  /\ \A r \in Threads : Code(r)' = IF r = t THEN S ELSE Code(r)
  /\ Todo(c) # <<>> \/ cpu[c].run # 0 \/ cpu[c].IF
  /\ \A d \in Apics \ {c} : cpu'[d] = cpu[d] /\ Mine(d)' = Mine(d)
  /\ cpu'[c].run = cpu[c].run /\ cpu'[c].proc = cpu[c].run
  /\ Sane(c)'
  /\ S \in Seq(Instructions(OpsOf(t))) /\ Ordered(S)
  /\ \A a \in 1 .. Len(S) :
       \/ S[a].op \notin Wild \ {"find", "reap"}
       \/ \E b \in 1 .. Len(Todo(c)) : Todo(c)[b] = S[a] /\ (S[a].op = "unused" => lock'["ptable"] = lock["ptable"])
  /\ boot'.cpus = boot.cpus /\ boot'.use_lock = boot.use_lock
  /\ ~ boot.use_lock => ~ cpu'[BSP].IF /\ cpu'[BSP].intena # TRUE
  /\ \A p \in Procs : Stands(p)

LEMMA Stay ==
  ASSUME Core, NEW c \in Apics, NEW t, NEW S, Stays(c, t, S)
  PROVE  Core'
<1> USE DEF Core
<1>1. /\ t \in Threads /\ t = Running(c) /\ Code(t) = Todo(c) /\ Todo(c) \in Seq(Instructions(OpsOf(t)))
      /\ cpu[c].run = 0 => t = <<"cpu", c>> /\ Todo(c) = todo[c]
      /\ cpu[c].run # 0 => cpu[c].run \in Procs /\ t = <<"proc", cpu[c].run>>
  BY Runs DEF Stays
<1>2. \A r \in Threads : Code(r)' = IF r = t THEN S ELSE Code(r)
  BY DEF Stays
<1>3. ~ Asleep(c)
  <2> SUFFICES ASSUME Asleep(c) PROVE FALSE
    OBVIOUS
  <2>1. cpu[c].run = 0 /\ ~ cpu[c].IF /\ todo[c] = <<>>
    BY DEF Asleep, Off
  <2> QED BY <1>1, <2>1 DEF Stays
<1>4. \A p \in Procs : \A s \in {"UNUSED", "EMBRYO", "RUNNING", "ZOMBIE"} : proc'[p].state = s <=> proc[p].state = s
  BY DEF Stays, Stands
<1>5. ASSUME NEW d \in Apics, Asleep(d) PROVE Asleep(d)'
  <2>1. d # c
    BY <1>3, <1>5
  <2>2. PICK r \in Threads : r = <<"cpu", d>> /\ todo[d] = Code(r) /\ todo'[d] = Code(r)'
    BY Names
  <2>3. r # t
    BY <1>1, <2>1, <2>2, Names
  <2> QED BY <1>2, <1>5, <2>1, <2>2, <2>3 DEF Stays, Asleep
<1>6. \A d \in Apics : Running(d)' = Running(d)
  BY DEF Stays, Running
<1>7. ASSUME NEW a \in 1 .. Len(S) PROVE Fact(t, S[a])'
  <2>1. CASE S[a].op \notin Wild \ {"find", "reap"}
    BY <2>1 DEF Fact, Wild, Special
  <2>2. CASE \E b \in 1 .. Len(Todo(c)) : Todo(c)[b] = S[a] /\ (S[a].op = "unused" => lock'["ptable"] = lock["ptable"])
    <3>1. PICK i : i = S[a] /\ Fact(t, i) /\ (i.op = "unused" => lock'["ptable"] = lock["ptable"])
      BY <1>1, <2>2 DEF FactInv
    <3>2. i.op \in {"kstack", "start"} => i.n \in Procs /\ proc'[i.n].state = "EMBRYO"
      BY <1>4, <3>1 DEF Fact
    <3>3. i.op = "start" => kern'[i.n] = forkret
      <4> HAVE i.op = "start"
      <4>1. i.n \in Procs /\ proc[i.n].state = "EMBRYO" /\ kern[i.n] = forkret
        BY <3>1 DEF Fact
      <4>2. PICK v \in Threads : v = <<"proc", i.n>> /\ kern[i.n] = Code(v) /\ kern'[i.n] = Code(v)'
        BY <4>1, Names
      <4>3. v # t
        <5>1. cpu[c].run # 0 => cpu[c].run # i.n
          BY <4>1 DEF RunInv
        <5> QED BY <1>1, <4>1, <4>2, <5>1, Names
      <4> QED BY <1>2, <4>1, <4>2, <4>3
    <3>4. i.op = "unused" => i.n \in Procs /\ proc'[i.n].state = "ZOMBIE" /\ \E d \in Apics : Running(d)' = t /\ lock'["ptable"] = d
      BY <1>4, <1>6, <3>1 DEF Fact
    <3>5. boot'.cpus = boot.cpus /\ given' = given
      BY DEF Stays
    <3>6. i.op = "lapicstartap" => i.n \in 1 .. Len(boot'.cpus) /\ boot'.cpus[i.n] # BSP /\ Asleep(boot.cpus[i.n])'
      <4> HAVE i.op = "lapicstartap"
      <4>1. i.n \in 1 .. Len(boot.cpus) /\ boot.cpus[i.n] # BSP /\ Asleep(boot.cpus[i.n])
        BY <3>1 DEF Fact
      <4>2. PICK d \in Apics : d = boot.cpus[i.n]
        BY <4>1, ElementOfSeq DEF DataTypes
      <4>3. Asleep(d)'
        BY <1>5, <4>1, <4>2
      <4> QED BY <3>5, <4>1, <4>2, <4>3 DEF Asleep, Mine
    <3>7. i.op = "startothers" => i.n >= 1 /\ \A j \in 1 .. Len(boot'.cpus) : i.n <= j /\ boot'.cpus[j] # BSP => Asleep(boot.cpus[j])'
      <4> HAVE i.op = "startothers"
      <4>1. i.n >= 1
        BY <3>1 DEF Fact
      <4>2. ASSUME NEW j \in 1 .. Len(boot.cpus), i.n <= j, boot.cpus[j] # BSP PROVE Asleep(boot.cpus[j])'
        <5>1. PICK d \in Apics : d = boot.cpus[j]
          BY <4>2, ElementOfSeq DEF DataTypes
        <5>2. Asleep(d)
          BY <3>1, <4>2, <5>1 DEF Fact
        <5>3. Asleep(d)'
          BY <1>5, <5>2
        <5> QED BY <3>5, <5>1, <5>3 DEF Asleep, Mine
      <4> QED BY <3>5, <4>1, <4>2
    <3>8. i.op = "mpinit" =>
            /\ i.n >= 1 /\ \A d \in Apics \ {BSP} : Asleep(d)'
            /\ \A j \in 1 .. Len(boot'.cpus) : \E k \in 1 .. Len(given'.table) :
                 k < i.n /\ given'.table[k].type = "MPPROC" /\ given'.table[k].apicid = boot'.cpus[j]
      <4> HAVE i.op = "mpinit"
      <4>1. i.n >= 1 /\ \A d \in Apics \ {BSP} : Asleep(d)
        BY <3>1 DEF Fact
      <4>2. \A j \in 1 .. Len(boot.cpus) : \E k \in 1 .. Len(given.table) :
              k < i.n /\ given.table[k].type = "MPPROC" /\ given.table[k].apicid = boot.cpus[j]
        BY <3>1 DEF Fact
      <4> QED BY <1>5, <3>5, <4>1, <4>2
    <3>9. Fact(t, i)'
      BY <3>2, <3>3, <3>4, <3>6, <3>7, <3>8 DEF Fact
    <3> QED BY <3>1, <3>9
  <2> QED BY <2>1, <2>2 DEF Stays
<1>8. ASSUME NEW a \in 1 .. Len(S), S[a].op \in {"kstack", "start"}, NEW r \in Threads \ {t}, NEW b \in 1 .. Len(Code(r)),
             Code(r)[b].op \in {"kstack", "start"}
      PROVE  Code(r)[b].n # S[a].n
  <2>1. PICK e \in 1 .. Len(Todo(c)) : Todo(c)[e] = S[a]
    BY <1>8 DEF Stays, Wild, Special
  <2> QED BY <1>1, <1>8, <2>1 DEF OnceInv
<1>9. IF cpu[c].run = 0 THEN cpu'[c].proc = 0 ELSE cpu'[c].proc = cpu[c].proc
  BY DEF Stays, RunInv
<1>10. \A j, k \in 1 .. Len(boot'.cpus) : boot'.cpus[j] = boot'.cpus[k] => j = k
  BY DEF Stays, OnceInv
<1>11. ~ boot'.use_lock => ~ cpu'[BSP].IF /\ cpu'[BSP].intena # TRUE /\ \A p \in Procs : proc'[p].state = "UNUSED"
  BY <1>4 DEF Stays, EarlyInv
<1>12. DataTypes' /\ given' = given /\ Sane(c)' /\ cpu[c].run = cpu'[c].run /\ S \in Seq(Instructions(OpsOf(t))) /\ Ordered(S)
       /\ (\A d \in Apics \ {c} : cpu'[d] = cpu[d] /\ Mine(d)' = Mine(d)) /\ boot'.cpus = boot.cpus /\ boot'.use_lock = boot.use_lock
  BY DEF Stays
<1>13. Turns(c, t, S, t, S, {})
  BY <1>1, <1>2, <1>3, <1>4, <1>7, <1>8, <1>9, <1>10, <1>11, <1>12 DEF Turns
<1> QED BY <1>13, Turn

LEMMA HeldTokens ==
  ASSUME DataTypes, CodeTypes, SaneInv, NEW c \in Apics
  PROVE  Held(c) \in SUBSET Tokens
<1>1. Todo(c) \in Seq(Instructions(OpsOf(Running(c)))) /\ Path(Todo(c), Held(c), {})
  BY Runs DEF SaneInv, Sane
<1> QED BY <1>1, PathEnds

\* What it does next, and where that leads.
LEMMA Next1 ==
  ASSUME DataTypes, CodeTypes, SaneInv, NEW c \in Apics, Todo(c) # <<>>
  PROVE  /\ Now(c) \in Instructions(OpsOf(Running(c))) /\ Tail(Todo(c)) \in Seq(Instructions(OpsOf(Running(c))))
         /\ \E k \in SUBSET Tokens : Leads(Held(c), Now(c), k) /\ Path(Tail(Todo(c)), k, {})
<1>1. Todo(c) \in Seq(Instructions(OpsOf(Running(c)))) /\ Path(Todo(c), Held(c), {})
  BY Runs DEF SaneInv, Sane
<1>2. Now(c) \in Instructions(OpsOf(Running(c))) /\ Tail(Todo(c)) \in Seq(Instructions(OpsOf(Running(c))))
  BY <1>1 DEF Now
<1>3. \E k \in SUBSET Tokens : Leads(Held(c), Head(Todo(c)), k) /\ Path(Tail(Todo(c)), k, {})
  BY <1>1, PathHead
<1> QED BY <1>2, <1>3 DEF Now

LEMMA OrderedTail ==
  ASSUME NEW S, NEW s \in Seq(S), s # <<>>, Ordered(s)
  PROVE  Ordered(Tail(s)) /\ \A b \in 1 .. Len(Tail(s)) : ~ Clash(Head(s), Tail(s)[b])
<1>1. Len(s) \in Nat \ {0} /\ Len(Tail(s)) = Len(s) - 1 /\ Head(s) = s[1] /\ \A b \in 1 .. Len(Tail(s)) : Tail(s)[b] = s[b + 1]
  BY HeadTailProperties, EmptySeq
<1>2. \A b \in 1 .. Len(Tail(s)) : b + 1 \in 1 .. Len(s) /\ 1 < b + 1 /\ 1 \in 1 .. Len(s)
  BY <1>1
<1>3. \A b \in 1 .. Len(Tail(s)) : ~ Clash(Head(s), Tail(s)[b])
  BY <1>1, <1>2 DEF Ordered
<1>4. ASSUME NEW a \in 1 .. Len(Tail(s)), NEW b \in 1 .. Len(Tail(s)), a < b PROVE ~ Clash(Tail(s)[a], Tail(s)[b])
  <2>1. a + 1 \in 1 .. Len(s) /\ b + 1 \in 1 .. Len(s) /\ a + 1 < b + 1
    BY <1>4, <1>1
  <2> QED BY <2>1, <1>1 DEF Ordered
<1> QED BY <1>3, <1>4 DEF Ordered

\* The elements of what is put in front of a list.
LEMMA InConcat ==
  ASSUME NEW S, NEW s \in Seq(S), NEW r \in Seq(S), NEW a \in 1 .. Len(s \o r)
  PROVE  \/ a \in 1 .. Len(s) /\ (s \o r)[a] = s[a]
         \/ \E b \in 1 .. Len(r) : (s \o r)[a] = r[b]
<1>1. PICK m \in Nat, n \in Nat : m = Len(s) /\ n = Len(r)
  BY LenProperties
<1>2. Len(s \o r) = m + n /\ \A i \in 1 .. m + n : (s \o r)[i] = IF i <= m THEN s[i] ELSE r[i - m]
  BY <1>1, ConcatProperties
<1>3. a \in 1 .. m + n
  BY <1>2
<1>4. CASE a <= m
  BY <1>1, <1>2, <1>3, <1>4
<1>5. CASE ~ (a <= m)
  <2>1. a - m \in 1 .. n
    BY <1>1, <1>3, <1>5
  <2> QED BY <1>1, <1>2, <1>3, <1>5, <2>1
<1> QED BY <1>4, <1>5

LEMMA OrderedConcat ==
  ASSUME NEW S, NEW s \in Seq(S), NEW r \in Seq(S), Ordered(s), Ordered(r),
         \A a \in 1 .. Len(s), b \in 1 .. Len(r) : ~ Clash(s[a], r[b])
  PROVE  Ordered(s \o r)
<1>1. PICK m \in Nat, n \in Nat : m = Len(s) /\ n = Len(r)
  BY LenProperties
<1>2. Len(s \o r) = m + n /\ \A i \in 1 .. m + n : (s \o r)[i] = IF i <= m THEN s[i] ELSE r[i - m]
  BY <1>1, ConcatProperties
<1>3. ASSUME NEW a \in 1 .. m + n, NEW b \in 1 .. m + n, a < b PROVE ~ Clash((s \o r)[a], (s \o r)[b])
  <2>1. CASE b <= m
    <3>1. a \in 1 .. m /\ b \in 1 .. m /\ (s \o r)[a] = s[a] /\ (s \o r)[b] = s[b]
      BY <1>1, <1>2, <1>3, <2>1
    <3> QED BY <1>1, <1>3, <3>1 DEF Ordered
  <2>2. CASE a <= m /\ ~ (b <= m)
    <3>1. a \in 1 .. m /\ b - m \in 1 .. n /\ (s \o r)[a] = s[a] /\ (s \o r)[b] = r[b - m]
      BY <1>1, <1>2, <1>3, <2>2
    <3> QED BY <1>1, <3>1
  <2>3. CASE ~ (a <= m) /\ ~ (b <= m)
    <3>1. a - m \in 1 .. n /\ b - m \in 1 .. n /\ a - m < b - m /\ (s \o r)[a] = r[a - m] /\ (s \o r)[b] = r[b - m]
      BY <1>1, <1>2, <1>3, <2>3
    <3> QED BY <1>1, <3>1 DEF Ordered
  <2>4. ~ (b <= m) \/ a <= m
    BY <1>1, <1>3
  <2> QED BY <2>1, <2>2, <2>3, <2>4
<1> QED BY <1>2, <1>3 DEF Ordered

LEMMA InTail ==
  ASSUME NEW S, NEW s \in Seq(S), s # <<>>, NEW b \in 1 .. Len(Tail(s))
  PROVE  \E a \in 1 .. Len(s) : s[a] = Tail(s)[b]
<1>1. Len(s) \in Nat \ {0} /\ Len(Tail(s)) = Len(s) - 1 /\ Tail(s)[b] = s[b + 1]
  BY HeadTailProperties, EmptySeq
<1>2. b + 1 \in 1 .. Len(s)
  BY <1>1
<1> QED BY <1>1, <1>2

LEMMA LocksFinite == IsFiniteSet(Locks)
<1>1. IsFiniteSet({}) /\ IsFiniteSet({"ptable"})
  BY FS_EmptySet, FS_Singleton
<1>2. IsFiniteSet({"ptable"} \cup {"tickslock"})
  BY <1>1, FS_AddElement
<1>3. IsFiniteSet(({"ptable"} \cup {"tickslock"}) \cup {"idelock"})
  BY <1>2, FS_AddElement
<1>4. IsFiniteSet((({"ptable"} \cup {"tickslock"}) \cup {"idelock"}) \cup {"kmem"})
  BY <1>3, FS_AddElement
<1>5. IsFiniteSet(((({"ptable"} \cup {"tickslock"}) \cup {"idelock"}) \cup {"kmem"}) \cup {"cons"})
  BY <1>4, FS_AddElement
<1>6. Locks = ((({"ptable"} \cup {"tickslock"}) \cup {"idelock"}) \cup {"kmem"}) \cup {"cons"}
  BY DEF Locks
<1> QED BY <1>5, <1>6

\* No lock at all when interrupts are on, and nothing to do in user mode.
LEMMA Free ==
  ASSUME Core, NEW c \in Apics
  PROVE  /\ Held(c) = {} /\ cpu[c].at = "run" => cpu[c].ncli = 0
         /\ cpu[c].at = "run" /\ cpu[c].ncli = 0 => Mine(c) = {}
<1>1. Mine(c) \subseteq Locks /\ IsFiniteSet(Locks)
  BY LocksFinite DEF Mine
<1>2. IsFiniteSet(Mine(c)) /\ Cardinality(Mine(c)) \in Nat
  BY <1>1, FS_Subset, FS_CardinalityType
<1>3. Cardinality(Mine(c)) = 0 <=> Mine(c) = {}
  BY <1>2, FS_EmptySet
<1>4. Mine(c) \subseteq Held(c)
  BY DEF Held
<1>5. cpu[c].at = "run" => cpu[c].ncli = Cardinality(Mine(c)) + 0
  BY DEF Core, SaneInv, Sane
<1> QED BY <1>2, <1>3, <1>4, <1>5


LEMMA TodoNext ==
  ASSUME DataTypes, NEW c \in Apics, NEW S, Goto(c, S), cpu'[c].run = cpu[c].run
  PROVE  Todo(c)' = S
<1>1. DOMAIN todo = Apics /\ DOMAIN kern = Procs /\ cpu[c].run \in Procs \cup {0}
  BY DEF DataTypes, CpuType
<1>2. CASE cpu[c].run = 0
  BY <1>1, <1>2 DEF Goto, Todo
<1>3. CASE cpu[c].run # 0
  BY <1>1, <1>3 DEF Goto, Todo
<1> QED BY <1>2, <1>3

\* Processor c, which runs t, does the code in the place of what it had to do first: no lock
\* changes hands, and interrupts are turned on only without one.
Plain(c, t, code) ==
  /\ t = Running(c) /\ cpu[c].at = "run" /\ Todo(c) # <<>>
  /\ DataTypes' /\ given' = given /\ Then(c, code) /\ lock' = lock
  /\ \A d \in Apics \ {c} : cpu'[d] = cpu[d]
  /\ cpu'[c].run = cpu[c].run /\ cpu'[c].proc = cpu[c].run /\ cpu'[c].at = "run" /\ cpu'[c].ncli = cpu[c].ncli
  /\ cpu'[c].IF => cpu[c].IF \/ Held(c) = {}
  /\ cpu'[c].intena = cpu[c].intena \/ cpu[c].run # 0
  /\ \A k \in SUBSET Tokens : Leads(Held(c), Now(c), k) => Good(code, OpsOf(t) \ Wild, Held(c), k)
  /\ code = <<>> \/ ~ OfKmem(Now(c))
  /\ boot'.cpus = boot.cpus /\ boot'.use_lock = boot.use_lock
  /\ \A p \in Procs : Stands(p)

LEMMA Plainly ==
  ASSUME Core, NEW c \in Apics, NEW t, NEW code, Plain(c, t, code)
  PROVE  Core'
<1>1. /\ t \in Threads /\ t = Running(c) /\ Code(t) = Todo(c) /\ Todo(c) \in Seq(Instructions(OpsOf(t))) /\ Todo(c) # <<>>
      /\ cpu[c].run \in Procs \cup {0}
  BY Runs DEF Plain, Core, DataTypes, CpuType
<1>2. PICK k \in SUBSET Tokens : Leads(Held(c), Now(c), k) /\ Path(Tail(Todo(c)), k, {})
  BY <1>1, Next1 DEF Core
<1>3. Good(code, OpsOf(t) \ Wild, Held(c), k)
  BY <1>2 DEF Plain
<1>4. PICK X : X = OpsOf(t)
  OBVIOUS
<1>5. PICK r \in Seq(Instructions(X)) : r = Tail(Todo(c))
  BY <1>1, <1>4, Next1 DEF Core
<1>6. code \in Seq(Instructions(X \ Wild)) /\ code \in Seq(Instructions(X)) /\ Path(code, Held(c), k)
  <2>1. X \ Wild \subseteq X
    OBVIOUS
  <2>2. code \in Seq(Instructions(X \ Wild)) /\ Path(code, Held(c), k)
    BY <1>3, <1>4 DEF Good
  <2> QED BY <2>1, <2>2, MoreOps
<1>7. PICK S : S = code \o r
  OBVIOUS
<1>8. S \in Seq(Instructions(X)) /\ Path(S, Held(c), {})
  BY <1>2, <1>5, <1>6, <1>7, PathConcat, ConcatProperties
<1>9. Ordered(r) /\ \A b \in 1 .. Len(r) : ~ Clash(Now(c), r[b])
  <2>1. Ordered(Todo(c))
    BY <1>1 DEF Core, OrderInv
  <2> QED BY <1>1, <1>5, <2>1, OrderedTail DEF Now
<1>10. Ordered(code) /\ \A a \in 1 .. Len(code) : code[a].op \notin Wild
  BY <1>6, QuietOrder
<1>11. Ordered(S)
  <2>1. CASE code = <<>>
    <3>1. S = r
      BY <1>5, <1>7, <2>1
    <3> QED BY <1>9, <3>1
  <2>2. CASE code # <<>>
    <3>1. ~ OfKmem(Now(c))
      BY <2>2 DEF Plain
    <3>2. \A b \in 1 .. Len(r) : r[b].op # "unused"
      BY <1>9, <3>1 DEF Clash
    <3>3. \A a \in 1 .. Len(code), b \in 1 .. Len(r) : ~ Clash(code[a], r[b])
      BY <1>10, <3>2 DEF Clash, Wild, Special
    <3> QED BY <1>5, <1>6, <1>7, <1>9, <1>10, <3>3, OrderedConcat
  <2> QED BY <2>1, <2>2
<1>12. ASSUME NEW a \in 1 .. Len(S)
       PROVE  S[a].op \notin Wild \ {"find", "reap"} \/ \E b \in 1 .. Len(Todo(c)) : Todo(c)[b] = S[a]
  <2>1. CASE a \in 1 .. Len(code) /\ S[a] = code[a]
    BY <1>10, <2>1
  <2>2. CASE \E b \in 1 .. Len(r) : S[a] = r[b]
    <3>1. PICK b \in 1 .. Len(r) : S[a] = r[b]
      BY <2>2
    <3>2. \E e \in 1 .. Len(Todo(c)) : Todo(c)[e] = r[b]
      BY <1>1, <1>5, InTail
    <3> QED BY <3>1, <3>2
  <2> QED BY <1>5, <1>6, <1>7, <1>12, <2>1, <2>2, InConcat
<1>13. Goto(c, S)
  BY <1>5, <1>7 DEF Plain, Then
<1>14. Todo(c)' = S
  BY <1>13, TodoNext DEF Core, Plain
<1>15. Mine(c)' = Mine(c) /\ \A d \in Apics \ {c} : Mine(d)' = Mine(d)
  BY DEF Plain, Mine
<1>16. Held(c)' = Held(c)
  <2>1. cpu[c].run # 0 => (proc'[cpu[c].run].state = "RUNNING" <=> proc[cpu[c].run].state = "RUNNING")
    BY <1>1 DEF Plain, Stands
  <2>2. cpu[c].at = "run" /\ cpu'[c].at = "run" /\ cpu'[c].run = cpu[c].run /\ boot'.use_lock = boot.use_lock
    BY DEF Plain
  <2> QED BY <1>15, <2>1, <2>2 DEF Held
<1>17. Sane(c)'
  <2>1. Sane(c)
    BY DEF Core, SaneInv
  <2>2. cpu[c].at = "run" /\ cpu'[c].at = "run" /\ cpu'[c].ncli = cpu[c].ncli /\ (cpu'[c].IF => cpu[c].IF \/ Held(c) = {})
    BY DEF Plain
  <2>3. cpu'[c].IF => cpu[c].ncli = 0
    BY <2>1, <2>2, Free DEF Sane
  <2> QED BY <1>8, <1>14, <1>15, <1>16, <2>1, <2>2, <2>3 DEF Sane
<1>18. ~ boot.use_lock => ~ cpu'[BSP].IF /\ cpu'[BSP].intena # TRUE
  <2> HAVE ~ boot.use_lock
  <2>1. ~ cpu[BSP].IF /\ cpu[BSP].intena # TRUE /\ cpu[c].run = 0
    BY DEF Core, EarlyInv
  <2>2. CASE c = BSP
    <3>1. "early" \in Held(c)
      BY <2>1, <2>2 DEF Held
    <3> QED BY <2>1, <2>2, <3>1 DEF Plain
  <2>3. CASE c # BSP
    <3>1. BSP \in Apics \ {c}
      BY <2>3, MachineAssumption
    <3> QED BY <2>1, <3>1 DEF Plain
  <2> QED BY <2>2, <2>3
<1>19. Stays(c, t, S)
  <2>1. S \in Seq(Instructions(OpsOf(t)))
    BY <1>4, <1>8
  <2>2. lock'["ptable"] = lock["ptable"]
    BY DEF Plain
  <2>3. \A v \in Threads : Code(v)' = IF v = t THEN S ELSE Code(v)
    BY <1>1, <1>13, GoesTo DEF Core
  <2> QED BY <1>1, <1>11, <1>12, <2>3, <1>15, <1>17, <1>18, <2>1, <2>2 DEF Stays, Plain
<1> QED BY <1>19, Stay

----------------------------------------------------------------------------
(* The steps that leave registers and locks alone.                         *)

LEMMA Doings ==
  ASSUME Core, NEW c \in Apics, NEW op, Doing(c, op)
  PROVE  /\ cpu[c].at = "run" /\ Todo(c) # <<>> /\ Now(c).op = op
         /\ op # "back" => cpu[c].proc = cpu[c].run
         /\ Running(c) \in Threads /\ Now(c) \in Instructions(OpsOf(Running(c))) /\ op \in OpsOf(Running(c))
         /\ Now(c).n \in Int /\ Now(c).since \in Int
         /\ op \in {"acquire", "release"} => Now(c).on \in Locks
         /\ cpu[c].run \in Procs \cup {0}
<1>1. cpu[c].at = "run" /\ Todo(c) # <<>> /\ Now(c).op = op
  BY DEF Doing
<1>2. Now(c) \in Instructions(OpsOf(Running(c)))
  BY <1>1, Next1 DEF Core
<1>3. Running(c) \in Threads
  BY Runs DEF Core
<1>4. Now(c).op \in OpsOf(Running(c)) /\ Now(c).n \in Int /\ Now(c).since \in Int
      /\ (Now(c).op \in {"acquire", "release"} => Now(c).on \in Locks)
  BY <1>2 DEF Instructions
<1>5. op # "back" => cpu[c].proc = cpu[c].run
  BY <1>1 DEF Core, RunInv
<1>6. cpu[c].run \in Procs \cup {0}
  BY DEF Core, DataTypes, CpuType
<1> QED BY <1>1, <1>2, <1>3, <1>4, <1>5, <1>6

\* Processor c does op, and goes on with the code.
Calm(c, op, code) ==
  /\ Doing(c, op) /\ op # "back" /\ Then(c, code) /\ UNCHANGED <<cpu, lock, work, given>>
  /\ DOMAIN boot' = DOMAIN boot /\ boot'.cpus = boot.cpus /\ boot'.use_lock = boot.use_lock
  /\ DOMAIN proc' = Procs /\ \A p \in Procs : DOMAIN proc'[p] = DOMAIN proc[p] /\ Stands(p)
  /\ DOMAIN disk' = DOMAIN disk /\ disk'.queue \in Seq(Int) /\ ticks' \in Int
  /\ \A k \in SUBSET Tokens : Leads(Held(c), Now(c), k) => Good(code, OpsOf(Running(c)) \ Wild, Held(c), k)
  /\ code = <<>> \/ op \notin {"kfree", "acquire", "release"}

LEMMA Calmly ==
  ASSUME Core, NEW c \in Apics, NEW op, NEW code, Calm(c, op, code)
  PROVE  Core'
<1>1. PICK t : t = Running(c)
  OBVIOUS
<1>2. Doing(c, op) /\ op # "back" /\ Then(c, code) /\ UNCHANGED <<cpu, lock, work, given>>
  BY DEF Calm
<1>3. cpu[c].at = "run" /\ Todo(c) # <<>> /\ Now(c).op = op /\ cpu[c].proc = cpu[c].run
  BY <1>2, Doings
<1>4. DOMAIN todo' = Apics /\ DOMAIN kern' = Procs
  BY <1>2, GoesTo DEF Core, Then
<1>5. DataTypes'
  BY <1>2, <1>4 DEF Core, DataTypes, Calm
<1>6. code = <<>> \/ ~ OfKmem(Now(c))
  BY <1>3 DEF Calm, OfKmem
<1>7. \A k \in SUBSET Tokens : Leads(Held(c), Now(c), k) => Good(code, OpsOf(t) \ Wild, Held(c), k)
  BY <1>1 DEF Calm
<1>8. boot'.cpus = boot.cpus /\ boot'.use_lock = boot.use_lock /\ \A p \in Procs : Stands(p)
  BY DEF Calm
<1>9. Plain(c, t, code)
  BY <1>1, <1>2, <1>3, <1>5, <1>6, <1>7, <1>8 DEF Plain
<1> QED BY <1>9, Plainly

\* What changes no lock.
LevelOps ==
  {"tidy", "intena", "kill", "start", "unused", "wakeup1", "tick", "request", "idestart", "peek", "take", "kfree",
   "kalloc", "lapicinit", "sti", "iret", "quit", "preempt", "started", "cprintf", "forkret", "kstack", "entry",
   "idtinit", "kinit1", "mpinit", "consoleinit", "ideinit", "startothers", "lapicstartap", "wait", "freerange"}

LEMMA Level ==
  ASSUME NEW i, i.op \in LevelOps, NEW h, NEW k, Leads(h, i, k)
  PROVE  h = k
  BY DEF LevelOps, Leads

LEMMA LevelEmpty ==
  ASSUME Core, NEW c \in Apics, Todo(c) # <<>>, Now(c).op \in LevelOps, NEW X
  PROVE  \A k \in SUBSET Tokens : Leads(Held(c), Now(c), k) => Good(<<>>, X, Held(c), k)
<1>1. Held(c) \in SUBSET Tokens
  BY HeldTokens DEF Core
<1> QED BY <1>1, Level, GoodEmpty

\* What does not touch the processes.
LEMMA AtRest ==
  ASSUME proc' = proc, DataTypes
  PROVE  DOMAIN proc' = Procs /\ \A p \in Procs : DOMAIN proc'[p] = DOMAIN proc[p] /\ Stands(p)
  BY DEF Stands, DataTypes

LEMMA AllocatorSteps ==
  ASSUME Core, NEW c \in Apics,
         kalloc_take(c) \/ kfree_push(c) \/ freerange(c) \/ tick(c) \/ startothers_wait(c)
  PROVE  Core'
<1>1. PICK op \in {"take", "kfree", "kinit1", "freerange", "tick", "wait"} : Doing(c, op)
  BY DEF kalloc_take, kfree_push, freerange, tick, startothers_wait
<1>2. Then(c, <<>>) /\ UNCHANGED <<cpu, lock, boot, proc, work, disk, given>>
  BY DEF kalloc_take, kfree_push, freerange, tick, startothers_wait, data
<1>3. ticks \in Int /\ disk.queue \in Seq(Int)
  BY DEF Core, DataTypes
<1>4. ticks' = ticks \/ ticks' = ticks + 1
  BY DEF kalloc_take, kfree_push, freerange, tick, startothers_wait, data
<1>5. ticks' \in Int
  BY <1>3, <1>4
<1>6. DOMAIN proc' = Procs /\ \A p \in Procs : DOMAIN proc'[p] = DOMAIN proc[p] /\ Stands(p)
  BY <1>2, AtRest DEF Core
<1>7. Todo(c) # <<>> /\ Now(c).op \in LevelOps
  BY <1>1, Doings DEF LevelOps
<1>8. Calm(c, op, <<>>)
  BY <1>1, <1>2, <1>3, <1>5, <1>6, <1>7, LevelEmpty DEF Calm
<1> QED BY <1>8, Calmly

LEMMA DiskDoneSteps ==
  ASSUME Core, NEW c \in Apics, request(c) \/ idestart(c)
  PROVE  Core'
<1>1. PICK op \in {"request", "idestart"} : Doing(c, op)
  BY DEF request, idestart
<1>2. Then(c, <<>>) /\ UNCHANGED <<cpu, lock, boot, proc, work, ticks, given>>
  BY DEF request, idestart
<1>3. ticks \in Int /\ disk.queue \in Seq(Int) /\ DOMAIN disk = {"queue", "busy", "done"} /\ Me(c) \in Int
  BY DEF Core, DataTypes, CpuType, Me, Procs
<1>4. DOMAIN disk' = DOMAIN disk /\ disk'.queue \in Seq(Int)
  <2>1. CASE request(c)
    <3>1. Append(disk.queue, Me(c)) \in Seq(Int)
      BY <1>3, AppendProperties
    <3> QED BY <1>3, <2>1, <3>1 DEF request
  <2>2. CASE idestart(c)
    BY <1>3, <2>2 DEF idestart
  <2> QED BY <2>1, <2>2
<1>6. DOMAIN proc' = Procs /\ \A p \in Procs : DOMAIN proc'[p] = DOMAIN proc[p] /\ Stands(p)
  BY <1>2, AtRest DEF Core
<1>7. Todo(c) # <<>> /\ Now(c).op \in LevelOps
  BY <1>1, Doings DEF LevelOps
<1>8. Calm(c, op, <<>>)
  BY <1>1, <1>2, <1>3, <1>4, <1>6, <1>7, LevelEmpty DEF Calm
<1> QED BY <1>8, Calmly

\* What every thread may do.
BothOps == {"acquire", "release", "tick", "wakeup1", "quit", "preempt", "iret", "ideintr", "idestart"}

LEMMA Both ==
  ASSUME NEW t
  PROVE  BothOps \subseteq OpsOf(t) \ Wild
  BY DEF BothOps, OpsOf, CpuOps, ProcOps, Wild, Special

LEMMA OfProc ==
  ASSUME NEW t \in Threads, NEW op \in OpsOf(t), op \notin CpuOps \cup BootOps
  PROVE  OpsOf(t) = ProcOps /\ \E p \in Procs : t = <<"proc", p>>
<1>1. t[1] # "cpu"
  BY DEF OpsOf
<1>2. \E p \in Procs : t = <<"proc", p>>
  BY <1>1, Kinds
<1> QED BY <1>1, <1>2 DEF OpsOf

LEMMA OfBoot ==
  ASSUME NEW t \in Threads, NEW op \in OpsOf(t), op \notin CpuOps \cup ProcOps
  PROVE  t = <<"cpu", BSP>> /\ OpsOf(t) = CpuOps \cup BootOps
<1>1. t[1] = "cpu" /\ t[2] = BSP
  BY DEF OpsOf
<1> QED BY <1>1, Kinds DEF OpsOf

LEMMA OfCpu ==
  ASSUME NEW t \in Threads, NEW op \in OpsOf(t), op \notin ProcOps
  PROVE  \E d \in Apics : t = <<"cpu", d>> /\ CpuOps \subseteq OpsOf(t)
<1>1. t[1] = "cpu"
  BY DEF OpsOf
<1> QED BY <1>1, Kinds DEF OpsOf

LEMMA ideintrStep ==
  ASSUME Core, NEW c \in Apics, ideintr(c)
  PROVE  Core'
<1>1. Doing(c, "ideintr") /\ UNCHANGED <<cpu, lock, boot, proc, work, ticks, given>>
  BY DEF ideintr
<1>2. PICK X : X = OpsOf(Running(c)) \ Wild /\ BothOps \subseteq X
  BY Both
<1>3. {"acquire", "release"} \subseteq X /\ {"acquire", "release", "wakeup1"} \subseteq X /\ "idestart" \in X
  BY <1>2 DEF BothOps
<1>4. disk.queue \in Seq(Int) /\ ticks \in Int /\ DOMAIN disk = {"queue", "busy", "done"}
  BY DEF Core, DataTypes
<1>5. DOMAIN proc' = Procs /\ \A p \in Procs : DOMAIN proc'[p] = DOMAIN proc[p] /\ Stands(p)
  BY <1>1, AtRest DEF Core
<1>6. Good(<<release("idelock")>>, X, {"idelock"}, {})
  BY <1>3, GoodLocks DEF Locks
<1>7. \A k : Leads(Held(c), Now(c), k) => Held(c) = {"idelock"} /\ k = {}
  BY <1>1, Doings DEF Leads
<1>8. CASE disk.queue = <<>>
  <2>1. Then(c, <<release("idelock")>>) /\ disk' = disk
    BY <1>8 DEF ideintr
  <2>2. \A k \in SUBSET Tokens : Leads(Held(c), Now(c), k) => Good(<<release("idelock")>>, OpsOf(Running(c)) \ Wild, Held(c), k)
    BY <1>2, <1>6, <1>7
  <2>3. Calm(c, "ideintr", <<release("idelock")>>)
    BY <1>1, <1>4, <1>5, <2>1, <2>2 DEF Calm
  <2> QED BY <2>3, Calmly
<1>9. CASE disk.queue # <<>>
  <2>1. PICK b \in Int : b = Head(disk.queue)
    BY <1>4, <1>9
  <2>2. PICK code : code = wakeup(Buffer(b)) \o <<Do("idestart"), release("idelock")>>
    OBVIOUS
  <2>3. Then(c, code) /\ disk' = [disk EXCEPT !.queue = Tail(@), !.done = @ \cup {b}]
    BY <1>9, <2>1, <2>2 DEF ideintr
  <2>4. DOMAIN disk' = DOMAIN disk /\ disk'.queue \in Seq(Int)
    BY <1>4, <1>9, <2>3
  <2>5. Buffer(b) \in Int
    BY DEF Buffer
  <2>6. Good(wakeup(Buffer(b)), X, {"idelock"}, {"idelock"})
    BY <1>3, <2>5, GoodWakeup
  <2>7. Good(<<Do("idestart")>>, X, {"idelock"}, {"idelock"})
    <3>1. PICK op \in {"idestart"} : TRUE
      OBVIOUS
    <3>2. op \in {"request", "idestart"} \cap X
      BY <1>3
    <3> QED BY <3>1, <3>2, GoodDo
  <2>8. Good(code, X, {"idelock"}, {})
    BY <1>6, <2>2, <2>6, <2>7, Good2, GoodConcat
  <2>9. \A k \in SUBSET Tokens : Leads(Held(c), Now(c), k) => Good(code, OpsOf(Running(c)) \ Wild, Held(c), k)
    BY <1>2, <1>7, <2>8
  <2>10. Calm(c, "ideintr", code)
    BY <1>1, <1>4, <1>5, <2>3, <2>4, <2>9 DEF Calm
  <2> QED BY <2>10, Calmly
<1> QED BY <1>8, <1>9

LEMMA awaitStep ==
  ASSUME Core, NEW c \in Apics, await(c)
  PROVE  Core'
<1>1. Doing(c, "await") /\ UNCHANGED <<cpu, lock, boot, proc, work, ticks, given>>
  BY DEF await
<1>2. PICK X : X = OpsOf(Running(c)) \ Wild
  OBVIOUS
<1>3. {"acquire", "release"} \subseteq X /\ {"acquire", "release", "block", "sched", "tidy"} \subseteq X /\ "await" \in X
  <2>1. "await" \in OpsOf(Running(c)) /\ Running(c) \in Threads
    BY <1>1, Doings
  <2>2. OpsOf(Running(c)) = ProcOps
    <3>1. PICK op \in {"await"} : op \in OpsOf(Running(c))
      BY <2>1
    <3>2. op \notin CpuOps \cup BootOps
      BY DEF CpuOps, BootOps
    <3> QED BY <2>1, <3>1, <3>2, OfProc
  <2> QED BY <1>2, <2>2 DEF ProcOps, Wild, Special
<1>4. disk.queue \in Seq(Int) /\ ticks \in Int /\ DOMAIN disk = {"queue", "busy", "done"} /\ Me(c) \in Int
  BY DEF Core, DataTypes, CpuType, Me, Procs
<1>5. DOMAIN proc' = Procs /\ \A p \in Procs : DOMAIN proc'[p] = DOMAIN proc[p] /\ Stands(p)
  BY <1>1, AtRest DEF Core
<1>6. Good(<<release("idelock")>>, X, {"idelock"}, {})
  BY <1>3, GoodLocks DEF Locks
<1>7. \A k : Leads(Held(c), Now(c), k) => Held(c) = {"idelock"} /\ k = {}
  BY <1>1, Doings DEF Leads
<1>8. CASE Me(c) \in disk.done
  <2>1. Then(c, <<release("idelock")>>) /\ disk' = [disk EXCEPT !.done = @ \ {Me(c)}]
    BY <1>8 DEF await
  <2>2. \A k \in SUBSET Tokens : Leads(Held(c), Now(c), k) => Good(<<release("idelock")>>, OpsOf(Running(c)) \ Wild, Held(c), k)
    BY <1>2, <1>6, <1>7
  <2>3. Calm(c, "await", <<release("idelock")>>)
    BY <1>1, <1>4, <1>5, <2>1, <2>2 DEF Calm
  <2> QED BY <2>3, Calmly
<1>9. CASE Me(c) \notin disk.done
  <2>1. PICK code : code = sleep(Buffer(Me(c)), "idelock") \o <<Do("await")>>
    OBVIOUS
  <2>2. Then(c, code) /\ disk' = disk
    BY <1>9, <2>1 DEF await
  <2>3. Buffer(Me(c)) \in Int
    BY <1>4 DEF Buffer
  <2>4. Good(sleep(Buffer(Me(c)), "idelock"), X, {"idelock"}, {"idelock"})
    BY <1>3, <2>3, GoodSleep
  <2>5. Good(<<Do("await")>>, X, {"idelock"}, {})
    BY <1>3, GoodDo
  <2>6. Good(code, X, {"idelock"}, {})
    BY <2>1, <2>4, <2>5, GoodConcat
  <2>7. \A k \in SUBSET Tokens : Leads(Held(c), Now(c), k) => Good(code, OpsOf(Running(c)) \ Wild, Held(c), k)
    BY <1>2, <1>7, <2>6
  <2>8. Calm(c, "await", code)
    BY <1>1, <1>4, <1>5, <2>2, <2>7 DEF Calm
  <2> QED BY <2>8, Calmly
<1> QED BY <1>8, <1>9

\* Who is woken could only sleep before.
LEMMA Awake ==
  ASSUME DataTypes, NEW chan, proc' = Woken(proc, chan)
  PROVE  DOMAIN proc' = Procs /\ \A p \in Procs : DOMAIN proc'[p] = DOMAIN proc[p] /\ Stands(p)
<1>1. DOMAIN proc = Procs /\ \A p \in Procs : DOMAIN proc[p] = {"state", "pid", "parent", "killed", "chan", "kstack", "intena", "r"}
  BY DEF DataTypes
<1>2. DOMAIN proc' = Procs
  BY DEF Woken
<1>3. ASSUME NEW p \in Procs
      PROVE  proc'[p] = IF proc[p].state = "SLEEPING" /\ proc[p].chan = chan THEN [proc[p] EXCEPT !.state = "RUNNABLE"] ELSE proc[p]
  BY DEF Woken
<1>4. ASSUME NEW p \in Procs PROVE DOMAIN proc'[p] = DOMAIN proc[p] /\ Stands(p)
  <2>1. CASE proc'[p] = proc[p]
    BY <2>1 DEF Stands
  <2>2. CASE proc'[p] # proc[p]
    <3>1. proc[p].state = "SLEEPING" /\ proc'[p] = [proc[p] EXCEPT !.state = "RUNNABLE"]
      BY <1>3, <2>2
    <3>2. DOMAIN proc'[p] = DOMAIN proc[p] /\ proc'[p].state = "RUNNABLE"
      BY <1>1, <3>1
    <3> QED BY <3>1, <3>2 DEF Stands
  <2> QED BY <2>1, <2>2
<1> QED BY <1>2, <1>4

LEMMA changeCalmly ==
  ASSUME Core, NEW c \in Apics, change(c), NEW op \in {"tidy", "wakeup1", "kill"}, Doing(c, op)
  PROVE  Core'
<1>1. Then(c, <<>>) /\ UNCHANGED <<cpu, lock, boot, work, ticks, disk, given>> /\ proc' = Change(c)
  BY DEF change
<1>2. ticks \in Int /\ disk.queue \in Seq(Int)
  BY DEF Core, DataTypes
<1>3. Now(c).op = op /\ Todo(c) # <<>> /\ Me(c) \in Procs \cup {0} /\ Now(c).op \in LevelOps
  BY Doings DEF LevelOps, Me, Core, DataTypes, CpuType
<1>4. DOMAIN proc = Procs /\ \A p \in Procs : DOMAIN proc[p] = {"state", "pid", "parent", "killed", "chan", "kstack", "intena", "r"}
  BY DEF Core, DataTypes
<1>5. DOMAIN proc' = Procs /\ \A p \in Procs : DOMAIN proc'[p] = DOMAIN proc[p] /\ Stands(p)
  <2>1. CASE op = "tidy"
    <3>1. proc' = [proc EXCEPT ![Me(c)].chan = 0]
      BY <1>1, <1>3, <2>1 DEF Change
    <3> QED BY <1>4, <3>1 DEF Stands
  <2>2. CASE op = "wakeup1"
    <3>1. proc' = Woken(proc, Now(c).n)
      BY <1>1, <1>3, <2>2 DEF Change
    <3> QED BY <3>1, Awake DEF Core
  <2>3. CASE op = "kill"
    <3>1. PICK q : q = Now(c).n
      OBVIOUS
    <3>2. proc' = IF proc[q].pid = 0 THEN proc
                  ELSE [proc EXCEPT ![q].killed = TRUE, ![q].state = IF @ = "SLEEPING" THEN "RUNNABLE" ELSE @]
      BY <1>1, <1>3, <2>3, <3>1 DEF Change, Killed
    <3>3. CASE proc' = proc
      BY <1>4, <3>3 DEF Stands
    <3>4. CASE proc' # proc
      <4>1. proc' = [proc EXCEPT ![q].killed = TRUE, ![q].state = IF @ = "SLEEPING" THEN "RUNNABLE" ELSE @]
        BY <3>2, <3>4
      <4>2. DOMAIN proc' = Procs /\ \A p \in Procs \ {q} : proc'[p] = proc[p]
        BY <1>4, <4>1
      <4>3. q \in Procs => DOMAIN proc'[q] = DOMAIN proc[q] /\ proc'[q].state = IF proc[q].state = "SLEEPING" THEN "RUNNABLE" ELSE proc[q].state
        BY <1>4, <4>1
      <4> QED BY <4>2, <4>3 DEF Stands
    <3> QED BY <3>3, <3>4
  <2> QED BY <2>1, <2>2, <2>3
<1>6. op \notin {"kfree", "acquire", "release"} /\ op # "back"
  OBVIOUS
<1>7. Calm(c, op, <<>>)
  BY <1>1, <1>2, <1>3, <1>5, <1>6, LevelEmpty DEF Calm
<1> QED BY <1>7, Calmly

LEMMA BootFlagSteps ==
  ASSUME Core, NEW c \in Apics, consoleinit(c) \/ ideinit(c) \/ started(c) \/ forkret_first(c)
  PROVE  Core'
<1>1. PICK t \in Threads : t = Running(c)
  BY Runs DEF Core
<1>2. UNCHANGED <<cpu, lock, work, given, proc, ticks, disk>>
  BY DEF consoleinit, ideinit, started, forkret_first
<1>3. DOMAIN boot = {"cpus", "started", "stack", "use_lock", "locking", "route", "first"} /\ ticks \in Int /\ disk.queue \in Seq(Int)
  BY DEF Core, DataTypes
<1>4. DOMAIN boot' = DOMAIN boot /\ boot'.cpus = boot.cpus /\ boot'.use_lock = boot.use_lock
  BY <1>3 DEF consoleinit, ideinit, started, forkret_first, ioapicenable
<1>5. DOMAIN proc' = Procs /\ \A p \in Procs : DOMAIN proc'[p] = DOMAIN proc[p] /\ Stands(p)
  BY <1>2, AtRest DEF Core
<1>6. ASSUME NEW op, Doing(c, op), op \notin {"kfree", "acquire", "release", "back"}, NEW code, Then(c, code),
             \A k \in SUBSET Tokens : Leads(Held(c), Now(c), k) => Good(code, OpsOf(t) \ Wild, Held(c), k)
      PROVE  Core'
  <2>1. Calm(c, op, code)
    BY <1>1, <1>2, <1>3, <1>4, <1>5, <1>6 DEF Calm
  <2> QED BY <2>1, Calmly
<1>7. CASE consoleinit(c) \/ ideinit(c)
  <2>1. PICK op \in {"consoleinit", "ideinit"} : Doing(c, op)
    BY <1>7 DEF consoleinit, ideinit
  <2>2. Then(c, <<>>)
    BY <1>7 DEF consoleinit, ideinit
  <2>3. Todo(c) # <<>> /\ Now(c).op \in LevelOps
    BY <2>1, Doings DEF LevelOps
  <2>4. \A k \in SUBSET Tokens : Leads(Held(c), Now(c), k) => Good(<<>>, OpsOf(t) \ Wild, Held(c), k)
    BY <2>3, LevelEmpty
  <2> QED BY <1>6, <2>1, <2>2, <2>4
<1>8. CASE started(c)
  <2>1. PICK op \in {"started"} : Doing(c, op) /\ Then(c, scheduler)
    BY <1>8 DEF started
  <2>2. CpuOps \subseteq OpsOf(t)
    <3>1. op \in OpsOf(t) /\ op \notin ProcOps
      BY <1>1, <2>1, Doings DEF ProcOps
    <3> QED BY <3>1, OfCpu
  <2>3. {"acquire", "release"} \subseteq OpsOf(t) \ Wild /\ {"sti", "scan"} \subseteq OpsOf(t) \ Wild
    BY <2>2 DEF CpuOps, Wild, Special
  <2>4. Good(scheduler, OpsOf(t) \ Wild, {}, {})
    BY <2>3, GoodSmall
  <2>5. \A k : Leads(Held(c), Now(c), k) => Held(c) = {} /\ k = {}
    BY <2>1, Doings DEF Leads
  <2>6. \A k \in SUBSET Tokens : Leads(Held(c), Now(c), k) => Good(scheduler, OpsOf(t) \ Wild, Held(c), k)
    BY <2>4, <2>5
  <2> QED BY <1>6, <2>1, <2>6
<1>9. CASE forkret_first(c)
  <2>1. PICK op \in {"forkret"} : Doing(c, op) /\ Then(c, IF boot.first THEN iderw ELSE <<>>)
    BY <1>9 DEF forkret_first
  <2>2. OpsOf(t) = ProcOps
    <3>1. op \in OpsOf(t) /\ op \notin CpuOps \cup BootOps
      BY <1>1, <2>1, Doings DEF CpuOps, BootOps
    <3> QED BY <3>1, OfProc
  <2>3. {"acquire", "release"} \subseteq OpsOf(t) \ Wild /\ {"request", "await"} \subseteq OpsOf(t) \ Wild
    BY <2>2 DEF ProcOps, Wild, Special
  <2>4. Good(iderw, OpsOf(t) \ Wild, {}, {}) /\ Good(<<>>, OpsOf(t) \ Wild, {}, {})
    <3>1. {} \in SUBSET Tokens
      OBVIOUS
    <3> QED BY <2>3, <3>1, GoodSmall, GoodEmpty
  <2>5. \A k : Leads(Held(c), Now(c), k) => Held(c) = {} /\ k = {}
    BY <2>1, Doings DEF Leads
  <2>6. \A k \in SUBSET Tokens : Leads(Held(c), Now(c), k) => Good(IF boot.first THEN iderw ELSE <<>>, OpsOf(t) \ Wild, Held(c), k)
    BY <2>4, <2>5
  <2> QED BY <1>6, <2>1, <2>6
<1> QED BY <1>7, <1>8, <1>9

\* The page allocator before and after its lock is in use.
LEMMA GoodKalloc ==
  ASSUME NEW X, {"acquire", "release", "peek", "take"} \subseteq X
  PROVE  /\ boot.use_lock => Good(kalloc, X, {}, {})
         /\ ~ boot.use_lock => Good(kalloc, X, {"early"}, {"early"})
<1>1. PICK s : s = <<Do("peek"), Do("take")>>
  OBVIOUS
<1>2. /\ Good(<<Do("peek")>>, X, {"kmem"}, {"kmem"}) /\ Good(<<Do("take")>>, X, {"kmem"}, {"kmem"})
      /\ Good(<<Do("peek")>>, X, {"early"}, {"early"}) /\ Good(<<Do("take")>>, X, {"early"}, {"early"})
  BY GoodDo
<1>3. Good(s, X, {"kmem"}, {"kmem"}) /\ Good(s, X, {"early"}, {"early"})
  BY <1>1, <1>2, Good2
<1>4. Good(<<acquire("kmem")>>, X, {}, {"kmem"}) /\ Good(<<release("kmem")>>, X, {"kmem"}, {})
  <2>1. {"acquire", "release"} \subseteq X
    OBVIOUS
  <2> QED BY <2>1, GoodLocks DEF Locks
<1>5. Good(Under("kmem", s), X, {}, {})
  BY <1>3, <1>4, GoodUnder
<1> QED BY <1>1, <1>3, <1>5 DEF kalloc

LEMMA GoodDoze ==
  ASSUME NEW X, {"acquire", "release", "block", "sched", "tidy", "doze"} \subseteq X, NEW p,
         NEW i \in Instructions(X), i.op = "doze"
  PROVE  Good(<<i>>, X, {"tickslock"}, {}) /\ Good(doze(p, i), X, {"tickslock"}, {})
<1>1. {"acquire", "release"} \subseteq X /\ {"acquire", "release", "block", "sched", "tidy"} \subseteq X
  OBVIOUS
<1>2. Good(<<i>>, X, {"tickslock"}, {})
  <2>1. Leads({"tickslock"}, i, {})
    BY DEF Leads
  <2>2. {"tickslock"} \in SUBSET Tokens /\ {} \in SUBSET Tokens
    BY DEF Tokens, Locks
  <2> QED BY <2>1, <2>2, GoodOne
<1>3. Good(<<release("tickslock")>>, X, {"tickslock"}, {})
  BY <1>1, GoodLocks DEF Locks
<1>4. Good(sleep(Ticks, "tickslock"), X, {"tickslock"}, {"tickslock"})
  <2>1. Ticks \in Int
    BY DEF Ticks
  <2> QED BY <1>1, <2>1, GoodSleep
<1>5. Good(sleep(Ticks, "tickslock") \o <<i>>, X, {"tickslock"}, {})
  BY <1>2, <1>4, GoodConcat
<1> QED BY <1>2, <1>3, <1>5 DEF doze

\* When the allocator has its lock, nobody has the machine for himself; before, who may call
\* it is the first processor.
LEMMA Earliness ==
  ASSUME Core, NEW c \in Apics, cpu[c].at = "run"
  PROVE  /\ boot.use_lock => "early" \notin Held(c)
         /\ ~ boot.use_lock /\ Running(c) = <<"cpu", BSP>> => "early" \in Held(c)
         /\ ~ boot.use_lock => Running(c) = <<"cpu", c>>
<1>1. "early" \notin Locks
  BY DEF Locks
<1>2. ~ boot.use_lock => Running(c) = <<"cpu", c>> /\ cpu[c].run = 0
  BY DEF Core, EarlyInv, Running
<1>3. boot.use_lock => "early" \notin Held(c)
  BY <1>1 DEF Held, Mine
<1>4. Running(c) = <<"cpu", BSP>> /\ ~ boot.use_lock => c = BSP
  BY <1>2
<1>5. ~ boot.use_lock /\ Running(c) = <<"cpu", BSP>> => "early" \in Held(c)
  BY <1>2, <1>4 DEF Held
<1> QED BY <1>2, <1>3, <1>5

LEMMA enterCalmly ==
  ASSUME Core, NEW c \in Apics, enter(c), NEW op \in {"since", "doze", "quit", "preempt", "kalloc", "cprintf"}, Doing(c, op)
  PROVE  Core'
<1>1. Then(c, Body(c)) /\ UNCHANGED <<cpu, lock, boot, proc, work, ticks, disk, given>>
  BY DEF enter, data
<1>2. PICK t \in Threads : t = Running(c)
  BY Runs DEF Core
<1>3. PICK X : X = OpsOf(t) \ Wild /\ BothOps \subseteq X
  BY Both
<1>4. /\ Now(c).op = op /\ Todo(c) # <<>> /\ op \in OpsOf(t) /\ Now(c) \in Instructions(OpsOf(t)) /\ cpu[c].at = "run"
      /\ Me(c) = cpu[c].run /\ Now(c).n \in Int /\ cpu[c].run \in Procs \cup {0}
  BY <1>2, Doings DEF Me
<1>5. ticks \in Int /\ disk.queue \in Seq(Int)
  BY DEF Core, DataTypes
<1>6. DOMAIN proc' = Procs /\ \A p \in Procs : DOMAIN proc'[p] = DOMAIN proc[p] /\ Stands(p)
  BY <1>1, AtRest DEF Core
<1>7. {} \in SUBSET Tokens /\ {"early"} \in SUBSET Tokens /\ {"cons"} \in SUBSET Tokens /\ Held(c) \in SUBSET Tokens
  BY HeldTokens DEF Core, Tokens, Locks
<1>8. {"acquire", "release"} \subseteq X
  BY <1>3 DEF BothOps
\* A process does the parts that are not for every thread.
<1>9. t # <<"cpu", c>> => {"acquire", "release", "block", "sched", "tidy", "doze", "runnable", "zombie", "zombie exit", "peek", "take"} \subseteq X
  <2> HAVE t # <<"cpu", c>>
  <2>1. OpsOf(t) = ProcOps
    <3>1. cpu[c].run # 0 /\ t = <<"proc", cpu[c].run>>
      BY <1>2, Runs DEF Core
    <3> QED BY <3>1 DEF OpsOf
  <2> QED BY <1>3, <2>1 DEF ProcOps, Wild, Special
<1>10. cpu[c].run # 0 => t # <<"cpu", c>>
  BY <1>2, Runs, Names DEF Core
<1>11. \A k \in SUBSET Tokens : Leads(Held(c), Now(c), k) => Good(Body(c), X, Held(c), k)
  <2> SUFFICES ASSUME NEW k \in SUBSET Tokens, Leads(Held(c), Now(c), k) PROVE Good(Body(c), X, Held(c), k)
    OBVIOUS
  <2>1. CASE op \in {"since", "doze"}
    <3>1. Held(c) = {"tickslock"} /\ k = {}
      BY <1>4, <2>1 DEF Leads
    <3>2. OpsOf(t) = ProcOps
      <4>1. op \notin CpuOps \cup BootOps
        BY <2>1 DEF CpuOps, BootOps
      <4> QED BY <1>4, <4>1, OfProc
    <3>3. {"acquire", "release", "block", "sched", "tidy", "doze"} \subseteq X
      BY <1>3, <3>2 DEF ProcOps, Wild, Special
    <3>4. CASE op = "since"
      <4>1. PICK i : i = [op |-> "doze", on |-> "none", n |-> Now(c).n, since |-> ticks]
        OBVIOUS
      <4>2. i \in [op : X, on : LockNames, n : Int, since : Int] /\ i.op = "doze"
        BY <1>4, <1>5, <3>3, <4>1 DEF LockNames
      <4>3. i \in Instructions(X)
        BY <4>2 DEF Instructions
      <4>4. Body(c) = <<i>>
        BY <1>4, <3>4, <4>1 DEF Body, since
      <4> QED BY <3>1, <3>3, <4>2, <4>3, <4>4, GoodDoze
    <3>5. CASE op = "doze"
      <4>1. Now(c) \in Instructions(X)
        BY <1>4, <3>3, <3>5 DEF Instructions
      <4>2. Body(c) = doze(Me(c), Now(c))
        BY <1>4, <3>5 DEF Body
      <4> QED BY <1>4, <3>1, <3>3, <3>5, <4>1, <4>2, GoodDoze
    <3> QED BY <2>1, <3>4, <3>5
  <2>2. CASE op = "quit"
    <3>1. Held(c) = {} /\ k = {}
      BY <1>4, <2>2 DEF Leads
    <3>2. Body(c) = IF cpu[c].run # 0 /\ Now(c).n = 1 /\ proc[cpu[c].run].killed THEN exit ELSE <<>>
      BY <1>4, <2>2 DEF Body, quit
    <3>3. CASE Body(c) = <<>>
      BY <1>7, <3>1, <3>3, GoodEmpty
    <3>4. CASE Body(c) = exit /\ cpu[c].run # 0
      <4>1. {"zombie", "sched", "zombie exit"} \subseteq X
        BY <1>9, <1>10, <3>4
      <4> QED BY <1>8, <3>1, <3>4, <4>1, GoodSmall
    <3> QED BY <3>2, <3>3, <3>4
  <2>3. CASE op = "preempt"
    <3>1. Held(c) = {} /\ k = {}
      BY <1>4, <2>3 DEF Leads
    <3>2. Body(c) = IF cpu[c].run # 0 /\ proc[cpu[c].run].state = "RUNNING" THEN yield ELSE <<>>
      BY <1>4, <2>3 DEF Body, preempt
    <3>3. CASE Body(c) = <<>>
      BY <1>7, <3>1, <3>3, GoodEmpty
    <3>4. CASE Body(c) = yield /\ cpu[c].run # 0
      <4>1. {"runnable", "sched"} \subseteq X
        BY <1>9, <1>10, <3>4
      <4> QED BY <1>8, <3>1, <3>4, <4>1, GoodSmall
    <3> QED BY <3>2, <3>3, <3>4
  <2>4. CASE op = "kalloc"
    <3>1. (Held(c) = {} \/ Held(c) = {"early"}) /\ k = Held(c)
      BY <1>4, <2>4 DEF Leads
    <3>2. Body(c) = kalloc
      BY <1>4, <2>4 DEF Body
    <3>3. t = <<"cpu", BSP>> \/ OpsOf(t) = ProcOps
      BY <1>4, <2>4, Kinds DEF OpsOf, CpuOps
    <3>4. {"acquire", "release", "peek", "take"} \subseteq X
      <4>1. OpsOf(t) = CpuOps \cup BootOps \/ OpsOf(t) = ProcOps
        BY <3>3 DEF OpsOf
      <4>2. {"acquire", "release", "peek", "take"} \subseteq OpsOf(t)
        BY <4>1 DEF CpuOps, BootOps, ProcOps
      <4> QED BY <1>3, <4>2 DEF Wild, Special
    <3>5. ~ boot.use_lock => t = <<"cpu", BSP>>
      <4>1. \A d : OpsOf(<<"cpu", d>>) # ProcOps
        <5>1. "scan" \in CpuOps /\ "scan" \notin ProcOps
          BY DEF CpuOps, ProcOps
        <5>2. \A d : CpuOps \subseteq OpsOf(<<"cpu", d>>)
          BY DEF OpsOf
        <5> QED BY <5>1, <5>2
      <4> QED BY <1>2, <1>4, <3>3, <4>1, Earliness
    <3>6. boot.use_lock => Held(c) = {}
      BY <1>4, <3>1, Earliness
    <3>7. ~ boot.use_lock => Held(c) = {"early"}
      BY <1>2, <1>4, <3>1, <3>5, Earliness
    <3> QED BY <3>1, <3>2, <3>4, <3>6, <3>7, GoodKalloc
  <2>5. CASE op = "cprintf"
    <3>1. Held(c) = {} /\ k = {}
      BY <1>4, <2>5 DEF Leads
    <3>2. Body(c) = IF boot.locking THEN Under("cons", <<>>) ELSE <<>>
      BY <1>4, <2>5 DEF Body, cprintf
    <3>3. Good(<<acquire("cons")>>, X, {}, {"cons"}) /\ Good(<<release("cons")>>, X, {"cons"}, {})
      BY <1>8, GoodLocks DEF Locks
    <3>4. Good(<<>>, X, {}, {}) /\ Good(<<>>, X, {"cons"}, {"cons"})
      BY <1>7, GoodEmpty
    <3>5. Good(Under("cons", <<>>), X, {}, {})
      BY <3>3, <3>4, GoodUnder
    <3> QED BY <3>1, <3>2, <3>4, <3>5
  <2> QED BY <2>1, <2>2, <2>3, <2>4, <2>5
<1>12. op # "back" /\ op \notin {"kfree", "acquire", "release"}
  OBVIOUS
<1>13. Calm(c, op, Body(c))
  BY <1>1, <1>2, <1>3, <1>5, <1>6, <1>11, <1>12 DEF Calm
<1> QED BY <1>13, Calmly

\* The registers of c change.
LEMMA Registers ==
  ASSUME Core, NEW c \in Apics, NEW op, Doing(c, op), op \notin {"kfree", "acquire", "release"},
         NEW code, Then(c, code), UNCHANGED <<lock, boot, work, ticks, disk, given>>,
         DOMAIN cpu' = Apics, CpuType(cpu'[c]), \A d \in Apics \ {c} : cpu'[d] = cpu[d],
         cpu'[c].run = cpu[c].run, cpu'[c].proc = cpu[c].run, cpu'[c].at = "run", cpu'[c].ncli = cpu[c].ncli,
         cpu'[c].IF => cpu[c].IF \/ Held(c) = {}, cpu'[c].intena = cpu[c].intena \/ cpu[c].run # 0,
         DOMAIN proc' = Procs, \A p \in Procs : DOMAIN proc'[p] = DOMAIN proc[p] /\ Stands(p),
         \A k \in SUBSET Tokens : Leads(Held(c), Now(c), k) => Good(code, OpsOf(Running(c)) \ Wild, Held(c), k)
  PROVE  Core'
<1>1. PICK t : t = Running(c)
  OBVIOUS
<1>2. cpu[c].at = "run" /\ Todo(c) # <<>> /\ Now(c).op = op
  BY Doings
<1>3. DOMAIN todo' = Apics /\ DOMAIN kern' = Procs
  BY GoesTo DEF Core, Then
<1>4. DataTypes'
  <2>1. \A d \in Apics : CpuType(cpu'[d])
    BY DEF Core, DataTypes
  <2>2. DataTypes
    BY DEF Core
  <2> QED BY <1>3, <2>1, <2>2 DEF DataTypes, CpuType
<1>5. ~ OfKmem(Now(c))
  BY <1>2 DEF OfKmem
<1>6. \A k \in SUBSET Tokens : Leads(Held(c), Now(c), k) => Good(code, OpsOf(t) \ Wild, Held(c), k)
  BY <1>1
<1>7. Plain(c, t, code)
  BY <1>1, <1>2, <1>4, <1>5, <1>6 DEF Plain
<1> QED BY <1>7, Plainly

LEMMA RegisterSteps ==
  ASSUME Core, NEW c \in Apics,
         sti(c) \/ iret(c) \/ back(c) \/ sched_intena(c) \/ lapicinit(c) \/ entry(c) \/ idtinit(c) \/ kalloc_peek(c)
  PROVE  Core'
<1>1. PICK t \in Threads : t = Running(c)
  BY Runs DEF Core
<1>2. UNCHANGED <<lock, boot, work, ticks, disk, given>>
  BY DEF sti, iret, back, sched_intena, lapicinit, entry, idtinit, kalloc_peek, data
<1>3. DOMAIN cpu = Apics /\ CpuType(cpu[c]) /\ cpu[c].run \in Procs \cup {0} /\ DOMAIN proc = Procs
      /\ \A p \in Procs : DOMAIN proc[p] = {"state", "pid", "parent", "killed", "chan", "kstack", "intena", "r"}
  BY DEF Core, DataTypes, CpuType
<1>4. ASSUME NEW op, Doing(c, op)
      PROVE  /\ cpu[c].at = "run" /\ (op # "back" => cpu[c].proc = cpu[c].run) /\ Now(c).op = op /\ Todo(c) # <<>>
             /\ op \in OpsOf(t) /\ Now(c).n \in Int /\ \E k : Leads(Held(c), Now(c), k)
             /\ op \in LevelOps => \A k \in SUBSET Tokens : Leads(Held(c), Now(c), k) => Good(<<>>, OpsOf(t) \ Wild, Held(c), k)
  <2>1. Todo(c) # <<>> /\ Now(c).op = op
    BY <1>4, Doings
  <2>2. \E k : Leads(Held(c), Now(c), k)
    BY <2>1, Next1 DEF Core
  <2> QED BY <1>1, <1>4, <2>1, <2>2, Doings, LevelEmpty
<1>5. proc' = proc => DOMAIN proc' = Procs /\ \A p \in Procs : DOMAIN proc'[p] = DOMAIN proc[p] /\ Stands(p)
  BY AtRest DEF Core
<1>0. (cpu[c].run = 0 => t[1] = "cpu") /\ (cpu[c].run # 0 => t[1] = "proc")
  <2>1. (cpu[c].run = 0 => t = <<"cpu", c>>) /\ (cpu[c].run # 0 => t = <<"proc", cpu[c].run>>)
    BY <1>1, Runs DEF Core
  <2> QED BY <2>1
<1>6. CASE sti(c) \/ iret(c)
  <2>1. PICK op \in {"sti", "iret"} : Doing(c, op)
    BY <1>6 DEF sti, iret
  <2>2. cpu' = [cpu EXCEPT ![c].IF = TRUE] /\ Then(c, <<>>) /\ proc' = proc
    BY <1>6 DEF sti, iret, data
  <2>3. Held(c) = {}
    BY <1>4, <2>1 DEF Leads
  <2>4. CpuType(cpu'[c]) /\ DOMAIN cpu' = Apics /\ \A d \in Apics \ {c} : cpu'[d] = cpu[d]
    BY <1>3, <2>2 DEF CpuType
  <2>5. cpu'[c].run = cpu[c].run /\ cpu'[c].proc = cpu[c].proc /\ cpu'[c].at = cpu[c].at /\ cpu'[c].ncli = cpu[c].ncli /\ cpu'[c].intena = cpu[c].intena
    BY <1>3, <2>2 DEF CpuType
  <2>6. op \in LevelOps /\ op \notin {"kfree", "acquire", "release"} /\ op # "back"
    BY DEF LevelOps
  <2> QED BY <1>1, <1>2, <1>4, <1>5, <2>1, <2>2, <2>3, <2>4, <2>5, <2>6, Registers
<1>7. CASE back(c)
  <2>1. PICK op \in {"back"} : Doing(c, op)
    BY <1>7 DEF back
  <2>2. PICK m \in Int : m = Now(c).n + 1
    BY <1>4, <2>1
  <2>3. Then(c, <<On("scan", m)>>) /\ proc' = proc /\ cpu' = [cpu EXCEPT ![c] = [switchkvm(@) EXCEPT !.proc = 0]]
    BY <1>7, <2>2 DEF back, data
  <2>4. CpuType(cpu'[c]) /\ DOMAIN cpu' = Apics /\ \A d \in Apics \ {c} : cpu'[d] = cpu[d]
    BY <1>3, <2>3 DEF CpuType, switchkvm
  <2>5. cpu'[c].run = cpu[c].run /\ cpu'[c].proc = 0 /\ cpu'[c].at = cpu[c].at /\ cpu'[c].ncli = cpu[c].ncli
        /\ cpu'[c].intena = cpu[c].intena /\ cpu'[c].IF = cpu[c].IF
    BY <1>3, <2>3 DEF CpuType, switchkvm
  <2>6. op \notin ProcOps
    BY DEF ProcOps
  <2>7. PICK d \in Apics : t = <<"cpu", d>> /\ CpuOps \subseteq OpsOf(t)
    BY <1>4, <2>1, <2>6, OfCpu
  <2>8. cpu[c].run = 0
    <3>1. t[1] = "cpu"
      BY <2>7
    <3> QED BY <1>0, <3>1
  <2>9. Good(<<On("scan", m)>>, OpsOf(t) \ Wild, {"ptable"}, {})
    <3>1. PICK o \in {"scan"} : TRUE
      OBVIOUS
    <3>2. o \in {"scan", "back", "find", "reap", "zombie exit"} \cap (OpsOf(t) \ Wild)
      BY <2>7 DEF CpuOps, Wild, Special
    <3> QED BY <3>1, <3>2, GoodOps
  <2>10. \A k : Leads(Held(c), Now(c), k) => Held(c) = {"ptable"} /\ k = {}
    <3>1. Now(c).op = "back"
      BY <1>4, <2>1
    <3> QED BY <3>1 DEF Leads
  <2>11. \A k \in SUBSET Tokens : Leads(Held(c), Now(c), k) => Good(<<On("scan", m)>>, OpsOf(Running(c)) \ Wild, Held(c), k)
    BY <1>1, <2>9, <2>10
  <2>12. op \notin {"kfree", "acquire", "release"}
    OBVIOUS
  <2> QED BY <1>1, <1>2, <1>4, <1>5, <2>1, <2>3, <2>4, <2>5, <2>8, <2>11, <2>12, Registers
<1>8. CASE sched_intena(c) \/ lapicinit(c) \/ entry(c) \/ idtinit(c)
  <2>1. PICK op \in {"intena", "lapicinit", "entry", "idtinit"} : Doing(c, op)
    BY <1>8 DEF sched_intena, lapicinit, entry, idtinit
  <2>2. Then(c, <<>>) /\ proc' = proc
    BY <1>8 DEF sched_intena, lapicinit, entry, idtinit, data
  <2>3. \/ cpu' = [cpu EXCEPT ![c].intena = proc[Me(c)].intena] /\ op = "intena"
        \/ cpu' = [cpu EXCEPT ![c].timer = TRUE] \/ cpu' = [cpu EXCEPT ![c].stack = boot.stack] \/ cpu' = [cpu EXCEPT ![c].idt = TRUE]
    BY <1>8, <1>4, <2>1 DEF sched_intena, lapicinit, entry, idtinit, Doing
  <2>4. CpuType(cpu'[c]) /\ DOMAIN cpu' = Apics /\ \A d \in Apics \ {c} : cpu'[d] = cpu[d]
    BY <1>3, <2>3 DEF CpuType
  <2>5. cpu'[c].run = cpu[c].run /\ cpu'[c].proc = cpu[c].proc /\ cpu'[c].at = cpu[c].at /\ cpu'[c].ncli = cpu[c].ncli
        /\ cpu'[c].IF = cpu[c].IF /\ (op # "intena" => cpu'[c].intena = cpu[c].intena)
    BY <1>3, <2>3 DEF CpuType
  <2>6. op = "intena" => cpu[c].run # 0
    <3> HAVE op = "intena"
    <3>1. op \notin CpuOps \cup BootOps
      BY DEF CpuOps, BootOps
    <3>2. PICK p \in Procs : t = <<"proc", p>>
      BY <1>4, <2>1, <3>1, OfProc
    <3>3. t[1] = "proc"
      BY <3>2
    <3> QED BY <1>0, <3>3
  <2>7. op \in LevelOps /\ op \notin {"kfree", "acquire", "release"} /\ op # "back"
    BY DEF LevelOps
  <2> QED BY <1>1, <1>2, <1>4, <1>5, <2>1, <2>2, <2>4, <2>5, <2>6, <2>7, Registers
<1>9. CASE kalloc_peek(c)
  <2>1. PICK op \in {"peek"} : Doing(c, op)
    BY <1>9 DEF kalloc_peek
  <2>2. Then(c, <<>>)
    BY <1>9 DEF kalloc_peek
  <2>3. op \in LevelOps /\ op \notin {"kfree", "acquire", "release"} /\ op # "back"
    BY DEF LevelOps
  <2>4. CASE cpu[c].run = 0
    <3>1. PICK r : cpu' = [cpu EXCEPT ![c].r = r] /\ proc' = proc
      BY <1>9, <2>4 DEF kalloc_peek
    <3>2. CpuType(cpu'[c]) /\ DOMAIN cpu' = Apics /\ \A d \in Apics \ {c} : cpu'[d] = cpu[d]
      BY <1>3, <3>1 DEF CpuType
    <3>3. cpu'[c].run = cpu[c].run /\ cpu'[c].proc = cpu[c].proc /\ cpu'[c].at = cpu[c].at /\ cpu'[c].ncli = cpu[c].ncli
        /\ cpu'[c].IF = cpu[c].IF /\ cpu'[c].intena = cpu[c].intena
      BY <1>3, <3>1 DEF CpuType
    <3> QED BY <1>1, <1>2, <1>4, <1>5, <2>1, <2>2, <2>3, <3>1, <3>2, <3>3, Registers
  <2>5. CASE cpu[c].run # 0
    <3>1. PICK r : proc' = [proc EXCEPT ![cpu[c].run].r = r] /\ cpu' = cpu
      BY <1>9, <2>5 DEF kalloc_peek
    <3>2. DOMAIN proc' = Procs /\ \A p \in Procs : DOMAIN proc'[p] = DOMAIN proc[p] /\ Stands(p)
      BY <1>3, <3>1 DEF Stands
    <3> QED BY <1>1, <1>2, <1>3, <1>4, <2>1, <2>2, <2>3, <3>1, <3>2, Registers
  <2> QED BY <2>4, <2>5
<1> QED BY <1>6, <1>7, <1>8, <1>9

----------------------------------------------------------------------------
(* Interrupts and system calls.                                            *)

\* Who may be interrupted, or is in user mode, holds no lock.
LEMMA Unlocked ==
  ASSUME Core, NEW c \in Apics, cpu[c].at = "run", cpu[c].IF \/ Todo(c) = <<>>
  PROVE  Held(c) = {} /\ cpu[c].proc = cpu[c].run
<1>1. Sane(c)
  BY DEF Core, SaneInv
<1>2. CASE Todo(c) = <<>>
  <2>1. Held(c) = {}
    BY <1>1, <1>2, PathNil DEF Sane
  <2> QED BY <1>2, <2>1 DEF Core, RunInv
<1>3. CASE Todo(c) # <<>>
  <2>1. cpu[c].IF /\ cpu[c].ncli = 0
    BY <1>1, <1>3 DEF Sane
  <2>2. Mine(c) = {}
    BY <2>1, Free
  <2>3. ~ (c = BSP /\ ~ boot.use_lock)
    BY <2>1 DEF Core, EarlyInv
  <2>4. Held(c) \subseteq {"off"}
    BY <2>2, <2>3 DEF Held
  <2>5. PICK i \in Instructions(OpsOf(Running(c))) : i = Now(c) /\ \E k : Leads(Held(c), i, k)
    BY <1>3, Next1 DEF Core
  <2>6. i.op \in CpuOps \cup BootOps \cup ProcOps
    <3>1. i.op \in OpsOf(Running(c))
      BY DEF Instructions
    <3> QED BY <3>1 DEF OpsOf
  <2>7. Held(c) # {"off"} /\ i.op # "back"
    <3>1. PICK k : Leads(Held(c), i, k)
      BY <2>5
    <3>2. "off" \notin Below(i.on)
      BY DEF Below
    <3>3. Held(c) # {"off"}
      BY <2>6, <3>1, <3>2 DEF Leads, CpuOps, BootOps, ProcOps
    <3>4. i.op # "back"
      BY <2>4, <3>1 DEF Leads
    <3> QED BY <3>3, <3>4
  <2> QED BY <2>4, <2>5, <2>7 DEF Core, RunInv
<1> QED BY <1>2, <1>3

\* Who does not hold ptable.lock is not about to free a process.
LEMMA NoneFreed ==
  ASSUME Core, NEW c \in Apics, lock["ptable"] # c
  PROVE  \A b \in 1 .. Len(Todo(c)) : Todo(c)[b].op # "unused"
<1> SUFFICES ASSUME NEW b \in 1 .. Len(Todo(c)), Todo(c)[b].op = "unused" PROVE FALSE
  OBVIOUS
<1>1. PICK t \in Threads : t = Running(c) /\ Code(t) = Todo(c)
  BY Runs DEF Core
<1>2. Fact(t, Code(t)[b])
  BY <1>1 DEF Core, FactInv
<1>3. PICK d \in Apics : Running(d) = t /\ lock["ptable"] = d
  BY <1>1, <1>2 DEF Fact
<1> QED BY <1>1, <1>3, Apart DEF Core

\* The code comes before all that processor c has to do.
Enters(c, t, code) ==
  /\ t = Running(c) /\ cpu[c].at = "run" /\ (cpu[c].IF \/ (cpu[c].run # 0 /\ Todo(c) = <<>>))
  /\ Goto(c, code \o Todo(c)) /\ UNCHANGED <<lock, boot, proc, ticks, given>>
  /\ cpu' = cpu \/ cpu' = [cpu EXCEPT ![c].IF = FALSE]
  /\ DOMAIN work' = Procs /\ \A p \in Procs : work'[p] \in Seq(Calls)
  /\ DOMAIN disk' = DOMAIN disk /\ disk'.queue \in Seq(Int)
  /\ Good(code, OpsOf(t) \ (Wild \ {"find", "reap"}), {}, {}) /\ Ordered(code)
  /\ Todo(c) = <<>> \/ code \in Seq(Instructions(OpsOf(t) \ Wild))

LEMMA Entered ==
  ASSUME Core, NEW c \in Apics, NEW t, NEW code, Enters(c, t, code)
  PROVE  Core'
<1>1. /\ t \in Threads /\ t = Running(c) /\ Code(t) = Todo(c) /\ Todo(c) \in Seq(Instructions(OpsOf(t)))
      /\ cpu[c].run \in Procs \cup {0} /\ cpu[c].at = "run"
  BY Runs DEF Enters, Core, DataTypes, CpuType
<1>2. Held(c) = {} /\ cpu[c].proc = cpu[c].run
  BY Unlocked DEF Enters
<1>3. PICK X, r : X = OpsOf(t) /\ r = Todo(c) /\ r \in Seq(Instructions(X))
  BY <1>1
<1>4. code \in Seq(Instructions(X)) /\ Path(code, {}, {}) /\ \A a \in 1 .. Len(code) : code[a].op \notin Wild \ {"find", "reap"}
  <2>1. X \ (Wild \ {"find", "reap"}) \subseteq X
    OBVIOUS
  <2>2. code \in Seq(Instructions(X \ (Wild \ {"find", "reap"}))) /\ Path(code, {}, {})
    BY <1>3 DEF Enters, Good
  <2>3. ASSUME NEW a \in 1 .. Len(code) PROVE code[a].op \notin Wild \ {"find", "reap"}
    <3>1. code[a] \in Instructions(X \ (Wild \ {"find", "reap"}))
      BY <2>2, ElementOfSeq
    <3> QED BY <3>1 DEF Instructions
  <2> QED BY <2>1, <2>2, <2>3, MoreOps
<1>5. PICK S : S = code \o r
  OBVIOUS
<1>6. Path(r, {}, {}) /\ Ordered(r)
  BY <1>1, <1>2, <1>3 DEF Core, SaneInv, Sane, OrderInv
<1>7. S \in Seq(Instructions(X)) /\ Path(S, {}, {})
  BY <1>3, <1>4, <1>5, <1>6, PathConcat, ConcatProperties
<1>8. lock["ptable"] # c
  <2>1. Mine(c) = {}
    BY <1>2 DEF Held
  <2>2. PICK l \in Locks : l = "ptable"
    BY DEF Locks
  <2> QED BY <2>1, <2>2 DEF Mine
<1>9. Ordered(S)
  <2>1. \A b \in 1 .. Len(r) : r[b].op # "unused"
    BY <1>3, <1>8, NoneFreed
  <2>2. CASE Todo(c) = <<>>
    <3>1. \A a \in 1 .. Len(code), b \in 1 .. Len(r) : ~ Clash(code[a], r[b])
      BY <1>3, <2>2
    <3> QED BY <1>3, <1>4, <1>5, <1>6, <3>1, OrderedConcat DEF Enters
  <2>3. CASE Todo(c) # <<>>
    <3>1. code \in Seq(Instructions(X \ Wild))
      BY <1>3, <2>3 DEF Enters
    <3>2. Ordered(code) /\ \A a \in 1 .. Len(code) : code[a].op \notin Wild
      BY <3>1, QuietOrder
    <3>3. \A a \in 1 .. Len(code), b \in 1 .. Len(r) : ~ Clash(code[a], r[b])
      BY <2>1, <3>2 DEF Clash, Wild, Special
    <3> QED BY <1>3, <1>4, <1>5, <1>6, <3>2, <3>3, OrderedConcat
  <2> QED BY <2>2, <2>3
<1>10. ASSUME NEW a \in 1 .. Len(S)
       PROVE  S[a].op \notin Wild \ {"find", "reap"} \/ \E b \in 1 .. Len(Todo(c)) : Todo(c)[b] = S[a]
  <2>1. CASE a \in 1 .. Len(code) /\ S[a] = code[a]
    BY <1>4, <2>1
  <2>2. CASE \E b \in 1 .. Len(r) : S[a] = r[b]
    BY <1>3, <2>2
  <2> QED BY <1>3, <1>4, <1>5, <1>10, <2>1, <2>2, InConcat
<1>11. Goto(c, S)
  BY <1>3, <1>5 DEF Enters
<1>12. DOMAIN cpu = Apics /\ CpuType(cpu[c])
  BY DEF Core, DataTypes
<1>13. /\ DOMAIN cpu' = Apics /\ CpuType(cpu'[c]) /\ \A d \in Apics \ {c} : cpu'[d] = cpu[d]
       /\ cpu'[c].run = cpu[c].run /\ cpu'[c].proc = cpu[c].proc /\ cpu'[c].at = cpu[c].at /\ cpu'[c].ncli = cpu[c].ncli
       /\ cpu'[c].intena = cpu[c].intena /\ (cpu'[c].IF => cpu[c].IF)
  <2>1. cpu' = cpu \/ cpu' = [cpu EXCEPT ![c].IF = FALSE]
    BY DEF Enters
  <2>2. CASE cpu' = cpu
    BY <1>12, <2>2
  <2>3. CASE cpu' = [cpu EXCEPT ![c].IF = FALSE]
    <3>1. DOMAIN cpu' = Apics /\ CpuType(cpu'[c]) /\ \A d \in Apics \ {c} : cpu'[d] = cpu[d]
      BY <1>12, <2>3 DEF CpuType
    <3> QED BY <1>12, <2>3, <3>1 DEF CpuType
  <2> QED BY <2>1, <2>2, <2>3
<1>14. DataTypes'
  <2>1. DOMAIN todo' = Apics /\ DOMAIN kern' = Procs
    BY <1>11, GoesTo DEF Core
  <2>2. \A d \in Apics : CpuType(cpu'[d])
    BY <1>13 DEF Core, DataTypes
  <2>3. DataTypes
    BY DEF Core
  <2> QED BY <1>13, <2>1, <2>2, <2>3 DEF DataTypes, Enters, CpuType
<1>15. Todo(c)' = S
  BY <1>11, <1>13, TodoNext DEF Core
<1>16. \A d \in Apics : Mine(d)' = Mine(d)
  BY DEF Enters, Mine
<1>17. Held(c)' = {}
  <2>1. Held(c)' = Held(c)
    BY <1>1, <1>13, <1>16 DEF Held, Enters
  <2> QED BY <1>2, <2>1
<1>18. Sane(c)'
  <2>1. Sane(c)
    BY DEF Core, SaneInv
  <2> QED BY <1>1, <1>7, <1>13, <1>15, <1>16, <1>17, <2>1 DEF Sane
<1>19. ~ boot.use_lock => ~ cpu'[BSP].IF /\ cpu'[BSP].intena # TRUE
  <2> HAVE ~ boot.use_lock
  <2>1. ~ cpu[BSP].IF /\ cpu[BSP].intena # TRUE
    BY DEF Core, EarlyInv
  <2>2. CASE c = BSP
    BY <1>13, <2>1, <2>2
  <2>3. CASE c # BSP
    BY <1>13, <2>1, <2>3, MachineAssumption
  <2> QED BY <2>2, <2>3
<1>20. \A p \in Procs : Stands(p)
  BY DEF Enters, Stands
<1>21. Stays(c, t, S)
  <2>1. S \in Seq(Instructions(OpsOf(t))) /\ t = Running(c)
    BY <1>1, <1>3, <1>7
  <2>2. lock'["ptable"] = lock["ptable"] /\ given' = given /\ boot' = boot
    BY DEF Enters
  <2>3. Todo(c) # <<>> \/ cpu[c].run # 0 \/ cpu[c].IF
    BY DEF Enters
  <2>4. cpu'[c].run = cpu[c].run /\ cpu'[c].proc = cpu[c].run
    BY <1>2, <1>13
  <2>5. \A v \in Threads : Code(v)' = IF v = t THEN S ELSE Code(v)
    BY <1>1, <1>11, GoesTo DEF Core
  <2> QED BY <1>9, <1>10, <1>13, <1>14, <1>16, <1>18, <1>19, <1>20, <2>1, <2>2, <2>3, <2>4, <2>5 DEF Stays
<1> QED BY <1>21, Stay

LEMMA GoodHandler ==
  ASSUME NEW X, BothOps \subseteq X, NEW n \in Int, NEW handled, Good(handled, X, {}, {}), NEW preempting, Good(preempting, X, {}, {})
  PROVE  Good(Handler(n, handled, preempting), X, {}, {})
<1>1. \A op \in {"quit", "iret"} : \A m \in Int : Good(<<On(op, m)>>, X, {}, {})
  <2>1. ASSUME NEW op \in {"quit", "iret"}, NEW m \in Int PROVE Good(<<On(op, m)>>, X, {}, {})
    <3>1. op \in {"sti", "iret", "quit", "preempt", "started", "cprintf", "forkret", "kstack", "entry", "idtinit"} \cap X
      BY DEF BothOps
    <3> QED BY <3>1, GoodOps
  <2> QED BY <2>1
<1>2. Good(<<On("quit", n)>>, X, {}, {}) /\ Good(<<On("iret", 1)>>, X, {}, {})
  <2>1. 1 \in Int
    OBVIOUS
  <2> QED BY <1>1, <2>1
<1>3. Good(<<On("quit", n), On("iret", 1)>>, X, {}, {})
  BY <1>2, Good2
<1>4. Good(handled \o <<On("quit", n)>>, X, {}, {})
  BY <1>2, GoodConcat
<1>5. Good((handled \o <<On("quit", n)>>) \o preempting, X, {}, {})
  BY <1>4, GoodConcat
<1>6. Good(((handled \o <<On("quit", n)>>) \o preempting) \o <<On("quit", n), On("iret", 1)>>, X, {}, {})
  BY <1>3, <1>5, GoodConcat
<1> QED BY <1>6 DEF Handler

LEMMA InterruptStep ==
  ASSUME Core, NEW c \in Apics, NEW handled, NEW preempting, Interrupt(c, handled, preempting),
         Good(handled, OpsOf(Running(c)) \ Wild, {}, {}), Good(preempting, OpsOf(Running(c)) \ Wild, {}, {}),
         given' = given, DOMAIN disk' = DOMAIN disk, disk'.queue = disk.queue
  PROVE  Core'
<1>1. PICK t, X : t = Running(c) /\ X = OpsOf(t) \ Wild /\ BothOps \subseteq X
  BY Both
<1>2. PICK n \in Int : n = IF cpu[c].run # 0 /\ Todo(c) = <<>> THEN 1 ELSE 0
  OBVIOUS
<1>3. PICK code : code = Handler(n, handled, preempting)
  OBVIOUS
<1>4. Good(code, X, {}, {})
  BY <1>1, <1>3, GoodHandler
<1>5. code \in Seq(Instructions(X)) /\ Ordered(code)
  BY <1>1, <1>4, QuietOrder DEF Good
<1>6. Good(code, OpsOf(t) \ (Wild \ {"find", "reap"}), {}, {})
  <2>1. X \subseteq OpsOf(t) \ (Wild \ {"find", "reap"})
    BY <1>1
  <2> QED BY <1>4, <2>1, GoodMore
<1>7. /\ cpu[c].IF /\ cpu[c].at = "run" /\ cpu' = [cpu EXCEPT ![c].IF = FALSE]
      /\ Goto(c, code \o Todo(c)) /\ UNCHANGED <<lock, boot, proc, work, ticks>>
  BY <1>2, <1>3 DEF Interrupt
<1>8. DOMAIN work = Procs /\ (\A p \in Procs : work[p] \in Seq(Calls)) /\ disk.queue \in Seq(Int)
  BY DEF Core, DataTypes
<1>9. Enters(c, t, code)
  BY <1>1, <1>5, <1>6, <1>7, <1>8 DEF Enters
<1> QED BY <1>9, Entered

LEMMA InterruptSteps ==
  ASSUME Core, NEW c \in Apics, timer(c) \/ ide(c)
  PROVE  Core'
<1>1. PICK X : X = OpsOf(Running(c)) \ Wild /\ BothOps \subseteq X
  BY Both
<1>2. {"acquire", "release"} \subseteq X /\ {"acquire", "release", "wakeup1"} \subseteq X
  BY <1>1 DEF BothOps
<1>3. Good(<<>>, X, {}, {})
  <2>1. {} \in SUBSET Tokens
    OBVIOUS
  <2> QED BY <2>1, GoodEmpty
<1>4. CASE timer(c)
  <2>1. Good(Clock(c), X, {}, {})
    <3>1. Good(wakeup(Ticks), X, {"tickslock"}, {"tickslock"})
      <4>1. Ticks \in Int
        BY DEF Ticks
      <4> QED BY <1>2, <4>1, GoodWakeup
    <3>2. Good(<<Do("tick")>>, X, {"tickslock"}, {"tickslock"})
      <4>1. "tick" \in X
        BY <1>1 DEF BothOps
      <4> QED BY <4>1, GoodDo
    <3>3. Good(<<Do("tick")>> \o wakeup(Ticks), X, {"tickslock"}, {"tickslock"})
      BY <3>1, <3>2, GoodConcat
    <3>4. Good(<<acquire("tickslock")>>, X, {}, {"tickslock"}) /\ Good(<<release("tickslock")>>, X, {"tickslock"}, {})
      BY <1>2, GoodLocks DEF Locks
    <3>5. Good(Under("tickslock", <<Do("tick")>> \o wakeup(Ticks)), X, {}, {})
      BY <3>3, <3>4, GoodUnder
    <3> QED BY <1>3, <3>5 DEF Clock
  <2>2. Good(<<Do("preempt")>>, X, {}, {})
    <3>1. PICK op \in {"preempt"} : TRUE
      OBVIOUS
    <3>2. op \in {"sti", "iret", "quit", "preempt", "started", "cprintf", "forkret", "kstack", "entry", "idtinit"} \cap X
      BY <1>1 DEF BothOps
    <3> QED BY <3>1, <3>2, GoodDo
  <2>3. Interrupt(c, Clock(c), <<Do("preempt")>>) /\ given' = given /\ disk' = disk
    BY <1>4 DEF timer
  <2> QED BY <1>1, <2>1, <2>2, <2>3, InterruptStep
<1>5. CASE ide(c)
  <2>1. Good(<<acquire("idelock"), Do("ideintr")>>, X, {}, {})
    <3>1. Good(<<acquire("idelock")>>, X, {}, {"idelock"})
      BY <1>2, GoodLocks DEF Locks
    <3>2. Good(<<Do("ideintr")>>, X, {"idelock"}, {})
      <4>1. PICK op \in {"ideintr"} : TRUE
        OBVIOUS
      <4>2. op \in {"ideintr", "await"} \cap X
        BY <1>1 DEF BothOps
      <4> QED BY <4>1, <4>2, GoodDo
    <3> QED BY <3>1, <3>2, Good2
  <2>2. Interrupt(c, <<acquire("idelock"), Do("ideintr")>>, <<>>) /\ given' = given
    BY <1>5 DEF ide
  <2>3. DOMAIN disk' = DOMAIN disk /\ disk'.queue = disk.queue
    <3>1. disk' = [disk EXCEPT !.busy = FALSE] /\ DOMAIN disk = {"queue", "busy", "done"}
      BY <1>5 DEF ide, Core, DataTypes
    <3> QED BY <3>1
  <2> QED BY <1>1, <1>3, <2>1, <2>2, <2>3, InterruptStep
<1> QED BY <1>4, <1>5

\* Code that says nothing about the rest may stand beside any.
LEMMA Beside ==
  ASSUME NEW X, NEW s \in Seq(Instructions(X \ Wild)), NEW r \in Seq(Instructions(X)), Ordered(r)
  PROVE  /\ (\A b \in 1 .. Len(r) : r[b].op # "unused") => Ordered(s \o r)
         /\ Ordered(r \o s)
<1>1. Ordered(s) /\ \A a \in 1 .. Len(s) : s[a].op \notin Wild
  BY QuietOrder
<1>2. s \in Seq(Instructions(X))
  <2>1. X \ Wild \subseteq X
    OBVIOUS
  <2> QED BY <2>1, MoreOps
<1>3. \A b \in 1 .. Len(r), a \in 1 .. Len(s) : ~ Clash(r[b], s[a])
  BY <1>1 DEF Clash, Wild, Special
<1>4. (\A b \in 1 .. Len(r) : r[b].op # "unused") => \A a \in 1 .. Len(s), b \in 1 .. Len(r) : ~ Clash(s[a], r[b])
  BY <1>1 DEF Clash, Wild, Special
<1> QED BY <1>1, <1>2, <1>3, <1>4, OrderedConcat

LEMMA OrderedPair ==
  ASSUME NEW i, NEW j, i.op \notin Wild, j.op # "unused"
  PROVE  Ordered(<<i, j>>)
<1>1. ~ Clash(i, j)
  BY DEF Clash, Wild, Special
<1>2. PICK s : s = <<i, j>>
  OBVIOUS
<1>3. Len(s) = 2 /\ s[1] = i /\ s[2] = j
  BY <1>2
<1>4. \A a, b \in 1 .. Len(s) : a < b => a = 1 /\ b = 2
  BY <1>3
<1> QED BY <1>1, <1>2, <1>3, <1>4 DEF Ordered

\* The bodies of the system calls.
LEMMA GoodCall ==
  ASSUME NEW X, X = ProcOps \ (Wild \ {"find", "reap"}), NEW call \in Calls
  PROVE  /\ Good(Call(call), X, {}, {}) /\ Ordered(Call(call))
         /\ \A b \in 1 .. Len(Call(call)) : Call(call)[b].op # "unused"
<1>1. /\ {"acquire", "release"} \subseteq X /\ {"request", "await"} \subseteq X
      /\ {"zombie", "sched", "zombie exit"} \subseteq X /\ {"find", "reap", "kill", "since"} \subseteq X
  BY DEF ProcOps, Wild, Special
<1>2. call.op \in {"fork", "wait", "kill", "sleep", "read", "exit"} /\ call.n \in Int
  BY DEF Calls
<1>3. PICK s : s = Call(call)
  OBVIOUS
<1>4. Good(<<acquire("ptable")>>, X, {}, {"ptable"}) /\ Good(<<release("ptable")>>, X, {"ptable"}, {})
      /\ Good(<<acquire("tickslock")>>, X, {}, {"tickslock"})
  BY <1>1, GoodLocks DEF Locks
<1>5. acquire("ptable").op \notin Wild
  BY FieldsLock DEF Wild, Special
<1>6. ASSUME s \in Seq(Instructions(ProcOps \ Wild))
      PROVE  Ordered(s) /\ \A b \in 1 .. Len(s) : s[b].op # "unused"
  BY <1>6, QuietOrder DEF Wild, Special
<1>7. CASE call.op \in {"fork", "wait"}
  <2>1. PICK op \in {"find", "reap"} : s = <<acquire("ptable"), Do(op)>>
    BY <1>3, <1>7 DEF Call, allocproc
  <2>2. Good(<<Do(op)>>, X, {"ptable"}, {})
    <3>1. op \in {"scan", "back", "find", "reap", "zombie exit"} \cap X
      BY <1>1
    <3> QED BY <3>1, GoodDo
  <2>3. Good(s, X, {}, {})
    BY <1>4, <2>1, <2>2, Good2
  <2>4. Do(op).op = op /\ op # "unused"
    BY FieldsOn DEF Do
  <2>5. Ordered(s)
    BY <1>5, <2>1, <2>4, OrderedPair
  <2>6. \A b \in 1 .. Len(s) : s[b].op # "unused"
    <3>1. Len(s) = 2 /\ s[1] = acquire("ptable") /\ s[2] = Do(op)
      BY <2>1
    <3>2. \A b \in 1 .. Len(s) : b = 1 \/ b = 2
      BY <3>1
    <3> QED BY <1>5, <2>4, <3>1, <3>2 DEF Wild, Special
  <2> QED BY <1>3, <2>3, <2>5, <2>6
<1>8. CASE call.op \notin {"fork", "wait"}
  <2>1. PICK Y : Y = ProcOps \ Wild
    OBVIOUS
  <2>2. /\ {"acquire", "release"} \subseteq Y /\ {"request", "await"} \subseteq Y
        /\ {"zombie", "sched", "zombie exit"} \subseteq Y /\ {"kill", "since"} \subseteq Y
    BY <2>1 DEF ProcOps, Wild, Special
  <2>3. Good(<<acquire("ptable")>>, Y, {}, {"ptable"}) /\ Good(<<release("ptable")>>, Y, {"ptable"}, {})
        /\ Good(<<acquire("tickslock")>>, Y, {}, {"tickslock"})
    BY <2>2, GoodLocks DEF Locks
  <2>4. Good(s, Y, {}, {})
    <3>1. CASE call.op = "kill"
      <4>1. s = Under("ptable", <<On("kill", call.n)>>)
        BY <1>3, <3>1 DEF Call
      <4>2. Good(<<On("kill", call.n)>>, Y, {"ptable"}, {"ptable"})
        <5>1. PICK op \in {"kill"} : TRUE
          OBVIOUS
        <5>2. op \in {"tidy", "intena", "kill", "start", "unused", "wakeup1"} \cap Y
          BY <2>2
        <5> QED BY <1>2, <5>1, <5>2, GoodOps
      <4> QED BY <2>3, <4>1, <4>2, GoodUnder
    <3>2. CASE call.op = "sleep"
      <4>1. s = <<acquire("tickslock"), On("since", call.n)>>
        BY <1>3, <3>2 DEF Call
      <4>2. Good(<<On("since", call.n)>>, Y, {"tickslock"}, {})
        <5>1. PICK op \in {"since"} : TRUE
          OBVIOUS
        <5>2. op \in {"since", "doze"} \cap Y
          BY <2>2
        <5> QED BY <1>2, <5>1, <5>2, GoodOps
      <4> QED BY <2>3, <4>1, <4>2, Good2
    <3>3. CASE call.op = "read"
      <4>1. s = iderw
        BY <1>3, <3>3 DEF Call
      <4> QED BY <2>2, <4>1, GoodSmall
    <3>4. CASE call.op = "exit"
      <4>1. s = exit
        BY <1>3, <3>4 DEF Call
      <4> QED BY <2>2, <4>1, GoodSmall
    <3> QED BY <1>2, <1>8, <3>1, <3>2, <3>3, <3>4
  <2>5. Y \subseteq X
    BY <2>1
  <2>6. Good(s, X, {}, {})
    BY <2>4, <2>5, GoodMore
  <2>7. s \in Seq(Instructions(ProcOps \ Wild))
    BY <2>1, <2>4 DEF Good
  <2> QED BY <1>3, <1>6, <2>6, <2>7
<1> QED BY <1>7, <1>8

LEMMA syscallStep ==
  ASSUME Core, NEW c \in Apics, syscall(c)
  PROVE  Core'
<1>1. PICK t \in Threads : t = Running(c)
  BY Runs DEF Core
<1>2. cpu[c].at = "run" /\ cpu[c].run # 0 /\ Todo(c) = <<>> /\ work[Me(c)] # <<>>
  BY DEF syscall
<1>3. OpsOf(t) = ProcOps
  <2>1. t = <<"proc", cpu[c].run>>
    BY <1>1, <1>2, Runs DEF Core
  <2> QED BY <2>1 DEF OpsOf
<1>4. PICK X : X = ProcOps \ (Wild \ {"find", "reap"})
  OBVIOUS
<1>5. PICK Y : Y = ProcOps \ Wild
  OBVIOUS
<1>6. Me(c) \in Procs /\ DOMAIN work = Procs /\ (\A p \in Procs : work[p] \in Seq(Calls)) /\ disk.queue \in Seq(Int)
  BY <1>2 DEF Core, DataTypes, RunInv, Me, CpuType
<1>7. PICK call \in Calls : call = Head(work[Me(c)])
  BY <1>2, <1>6
<1>8. PICK s : s = Call(call)
  OBVIOUS
<1>9. Good(s, X, {}, {}) /\ Ordered(s) /\ \A b \in 1 .. Len(s) : s[b].op # "unused"
  BY <1>4, <1>8, GoodCall
<1>10. PICK a : a = <<On("quit", 1)>>
  OBVIOUS
<1>11. PICK z : z = <<On("quit", 1), On("iret", 0)>>
  OBVIOUS
<1>12. Good(a, Y, {}, {}) /\ Good(z, Y, {}, {})
  <2>1. \A op \in {"quit", "iret"} : \A m \in {0, 1} : Good(<<On(op, m)>>, Y, {}, {})
    <3>1. ASSUME NEW op \in {"quit", "iret"}, NEW m \in {0, 1} PROVE Good(<<On(op, m)>>, Y, {}, {})
      <4>1. op \in Y
        BY <1>5 DEF ProcOps, Wild, Special
      <4>2. op \in {"sti", "iret", "quit", "preempt", "started", "cprintf", "forkret", "kstack", "entry", "idtinit"} \cap Y
        BY <4>1
      <4>3. m \in Int
        OBVIOUS
      <4> QED BY <4>2, <4>3, GoodOps
    <3> QED BY <3>1
  <2>2. Good(<<On("quit", 1)>>, Y, {}, {}) /\ Good(<<On("iret", 0)>>, Y, {}, {})
    BY <2>1
  <2> QED BY <1>10, <1>11, <2>2, Good2
<1>13. Y \subseteq X /\ X \ Wild = Y
  BY <1>4, <1>5
<1>14. Good(a, X, {}, {}) /\ Good(z, X, {}, {})
  BY <1>12, <1>13, GoodMore
<1>15. PICK b : b = a \o s
  OBVIOUS
<1>16. Good(b, X, {}, {}) /\ Good(b \o z, X, {}, {})
  BY <1>9, <1>14, <1>15, GoodConcat
<1>17. Ordered(b)
  BY <1>9, <1>12, <1>13, <1>15, Beside DEF Good
<1>18. Ordered(b \o z)
  BY <1>12, <1>13, <1>16, <1>17, Beside DEF Good
<1>19. Goto(c, (b \o z) \o Todo(c))
  <2>1. Goto(c, b \o z)
    BY <1>7, <1>8, <1>10, <1>11, <1>15 DEF syscall
  <2>2. (b \o z) \o Todo(c) = b \o z
    <3>1. b \o z \in Seq(Instructions(X))
      BY <1>16 DEF Good
    <3> QED BY <1>2, <3>1
  <2> QED BY <2>1, <2>2
<1>20. DOMAIN work' = Procs /\ \A p \in Procs : work'[p] \in Seq(Calls)
  <2>1. work' = [work EXCEPT ![Me(c)] = Tail(@)]
    BY DEF syscall
  <2>2. Tail(work[Me(c)]) \in Seq(Calls)
    BY <1>2, <1>6
  <2> QED BY <1>6, <2>1, <2>2
<1>21. UNCHANGED <<lock, boot, proc, ticks, given, cpu, disk>>
  BY DEF syscall
<1>22. Enters(c, t, b \o z)
  BY <1>1, <1>2, <1>3, <1>4, <1>6, <1>16, <1>18, <1>19, <1>20, <1>21 DEF Enters
<1> QED BY <1>22, Entered

----------------------------------------------------------------------------
(* The locks.                                                              *)

LEMMA SameCode ==
  ASSUME UNCHANGED <<todo, kern>>, NEW r
  PROVE  Code(r)' = Code(r)
  BY DEF Code

\* One lock more or less.
LEMMA MineFinite ==
  ASSUME NEW c, NEW l \in Locks
  PROVE  /\ Cardinality(Mine(c)) \in Nat
         /\ l \notin Mine(c) => Cardinality(Mine(c) \cup {l}) = Cardinality(Mine(c)) + 1
         /\ l \in Mine(c) => Cardinality(Mine(c) \ {l}) = Cardinality(Mine(c)) - 1
<1>1. IsFiniteSet(Mine(c))
  BY LocksFinite, FS_Subset DEF Mine
<1> QED BY <1>1, FS_CardinalityType, FS_AddElement, FS_RemoveElement

LEMMA acquire_cliStep ==
  ASSUME Core, NEW c \in Apics, acquire_cli(c), ~ panic'
  PROVE  Core'
<1>1. PICK t \in Threads : t = Running(c) /\ Code(t) = Todo(c)
  BY Runs DEF Core
<1>2. PICK op \in {"acquire"} : Doing(c, op)
  BY DEF acquire_cli
<1>3. /\ cpu[c].at = "run" /\ Todo(c) # <<>> /\ Now(c).op = "acquire" /\ Now(c).on \in Locks /\ cpu[c].proc = cpu[c].run
  BY <1>2, Doings
<1>4. cpu' = [cpu EXCEPT ![c] = [pushcli(@) EXCEPT !.at = "xchg", !.lk = Now(c).on]]
      /\ UNCHANGED <<lock, boot, todo, kern, proc, work, ticks, disk, given>>
  BY DEF acquire_cli
<1>5. DOMAIN cpu = Apics /\ CpuType(cpu[c]) /\ Sane(c)
  BY DEF Core, DataTypes, SaneInv
<1>6. DOMAIN cpu' = Apics /\ CpuType(cpu'[c]) /\ \A d \in Apics \ {c} : cpu'[d] = cpu[d]
  BY <1>3, <1>4, <1>5 DEF CpuType, pushcli
<1>7. /\ cpu'[c].run = cpu[c].run /\ cpu'[c].proc = cpu[c].proc /\ cpu'[c].at = "xchg" /\ cpu'[c].lk = Now(c).on
      /\ cpu'[c].IF = FALSE /\ cpu'[c].ncli = cpu[c].ncli + 1
      /\ cpu'[c].intena = IF cpu[c].ncli = 0 THEN cpu[c].IF ELSE cpu[c].intena
  BY <1>4, <1>5 DEF CpuType, pushcli
<1>8. DataTypes'
  <2>1. \A d \in Apics : CpuType(cpu'[d])
    BY <1>6 DEF Core, DataTypes
  <2>2. DataTypes
    BY DEF Core
  <2> QED BY <1>4, <1>6, <2>1, <2>2 DEF DataTypes, CpuType
<1>9. Todo(c)' = Todo(c) /\ Mine(c)' = Mine(c) /\ \A d \in Apics \ {c} : Mine(d)' = Mine(d)
  BY <1>4, <1>7 DEF Todo, Mine
<1>10. Held(c)' = Held(c)
  BY <1>3, <1>4, <1>7, <1>9 DEF Held
<1>11. Sane(c)'
  <2>1. Now(c)' = Now(c)
    BY <1>9 DEF Now
  <2>2. cpu[c].ncli = Cardinality(Mine(c)) + 0 /\ Path(Todo(c), Held(c), {})
    BY <1>3, <1>5 DEF Sane
  <2>3. cpu'[c].ncli = Cardinality(Mine(c)') + 1
    <3>1. PICK n \in Nat : n = Cardinality(Mine(c))
      BY <1>3, MineFinite
    <3>2. cpu[c].ncli = n
      BY <2>2, <3>1
    <3> QED BY <1>7, <1>9, <3>1, <3>2
  <2> QED BY <1>3, <1>7, <1>9, <1>10, <2>1, <2>2, <2>3 DEF Sane
<1>12. ~ boot.use_lock => ~ cpu'[BSP].IF /\ cpu'[BSP].intena # TRUE
  <2> HAVE ~ boot.use_lock
  <2>1. ~ cpu[BSP].IF /\ cpu[BSP].intena # TRUE
    BY DEF Core, EarlyInv
  <2>2. CASE c = BSP
    BY <1>5, <1>7, <2>1, <2>2 DEF CpuType
  <2>3. CASE c # BSP
    BY <1>6, <2>1, <2>3, MachineAssumption
  <2> QED BY <2>2, <2>3
<1>13. \A r \in Threads : Code(r)' = IF r = t THEN Todo(c) ELSE Code(r)
  BY <1>1, <1>4, SameCode
<1>14. Todo(c) \in Seq(Instructions(OpsOf(t))) /\ Ordered(Todo(c))
  BY <1>1, Runs DEF Core, OrderInv
<1>15. \A p \in Procs : Stands(p)
  BY <1>4 DEF Stands
<1>16. Stays(c, t, Todo(c))
  BY <1>1, <1>3, <1>4, <1>6, <1>7, <1>8, <1>9, <1>11, <1>12, <1>13, <1>14, <1>15 DEF Stays
<1> QED BY <1>16, Stay

LEMMA acquire_xchgStep ==
  ASSUME Core, NEW c \in Apics, acquire_xchg(c)
  PROVE  Core'
<1>1. PICK t \in Threads : t = Running(c) /\ Code(t) = Todo(c)
  BY Runs DEF Core
<1>2. PICK l \in Locks : l = cpu[c].lk
  BY DEF Core, DataTypes, CpuType
<1>3. /\ cpu[c].at = "xchg" /\ lock[l] = Nobody /\ lock' = [lock EXCEPT ![l] = c]
      /\ cpu' = [cpu EXCEPT ![c].at = "run"] /\ Then(c, <<>>) /\ UNCHANGED <<boot, proc, work, ticks, disk, given>>
  BY <1>2 DEF acquire_xchg
<1>4. DOMAIN cpu = Apics /\ CpuType(cpu[c]) /\ Sane(c) /\ DOMAIN lock = Locks
  BY DEF Core, DataTypes, SaneInv
<1>5. Todo(c) # <<>> /\ Now(c).op = "acquire" /\ l = Now(c).on /\ cpu[c].ncli = Cardinality(Mine(c)) + 1 /\ Path(Todo(c), Held(c), {})
  BY <1>2, <1>3, <1>4 DEF Sane
<1>6. cpu[c].proc = cpu[c].run
  BY <1>5 DEF Core, RunInv
<1>7. PICK X, r : X = OpsOf(t) /\ r = Tail(Todo(c)) /\ Todo(c) \in Seq(Instructions(X)) /\ r \in Seq(Instructions(X))
  BY <1>1, <1>5, Runs, Next1 DEF Core
<1>8. PICK k \in SUBSET Tokens : Leads(Held(c), Now(c), k) /\ Path(r, k, {})
  BY <1>5, <1>7, Next1 DEF Core
<1>9. k = Held(c) \cup {l}
  BY <1>5, <1>8 DEF Leads
<1>10. DOMAIN cpu' = Apics /\ CpuType(cpu'[c]) /\ \A d \in Apics \ {c} : cpu'[d] = cpu[d]
  BY <1>3, <1>4 DEF CpuType
<1>11. /\ cpu'[c].run = cpu[c].run /\ cpu'[c].proc = cpu[c].proc /\ cpu'[c].at = "run"
       /\ cpu'[c].IF = cpu[c].IF /\ cpu'[c].ncli = cpu[c].ncli /\ cpu'[c].intena = cpu[c].intena
  BY <1>3, <1>4 DEF CpuType
<1>12. c # Nobody /\ \A d \in Apics : d # Nobody
  BY MachineAssumption DEF Nobody
<1>13. Mine(c)' = Mine(c) \cup {l} /\ l \notin Mine(c) /\ \A d \in Apics \ {c} : Mine(d)' = Mine(d)
  <2>1. \A m \in Locks : lock'[m] = IF m = l THEN c ELSE lock[m]
    BY <1>3, <1>4
  <2> QED BY <1>3, <1>12, <2>1 DEF Mine
<1>14. DataTypes'
  <2>1. \A d \in Apics : CpuType(cpu'[d])
    BY <1>10 DEF Core, DataTypes
  <2>2. DataTypes
    BY DEF Core
  <2>3. DOMAIN todo' = Apics /\ DOMAIN kern' = Procs
    BY <1>3, GoesTo DEF Core, Then
  <2>4. DOMAIN lock' = Locks /\ \A m \in Locks : lock'[m] \in Apics \cup {Nobody}
    BY <1>3, <2>2 DEF DataTypes
  <2> QED BY <1>3, <1>10, <2>1, <2>2, <2>3, <2>4 DEF DataTypes, CpuType
<1>15. Goto(c, r)
  <2>1. <<>> \o r = r
    BY <1>7
  <2> QED BY <1>3, <1>7, <2>1 DEF Then
<1>16. Todo(c)' = r
  BY <1>11, <1>15, TodoNext DEF Core
<1>17. Held(c)' = Held(c) \cup {l}
  BY <1>3, <1>11, <1>13 DEF Held
<1>18. Sane(c)'
  <2>1. Cardinality(Mine(c)') = Cardinality(Mine(c)) + 1 /\ Cardinality(Mine(c)) \in Nat
    BY <1>13, MineFinite
  <2>2. cpu'[c].ncli = Cardinality(Mine(c)') + 0
    BY <1>5, <1>11, <2>1
  <2>3. ~ cpu'[c].IF
    BY <1>4, <1>5, <1>11, <2>1 DEF Sane
  <2> QED BY <1>8, <1>9, <1>11, <1>16, <1>17, <2>2, <2>3 DEF Sane
<1>19. Ordered(r)
  <2>1. Ordered(Todo(c))
    BY <1>1 DEF Core, OrderInv
  <2> QED BY <1>5, <1>7, <2>1, OrderedTail
<1>20. ASSUME NEW a \in 1 .. Len(r)
       PROVE  \E b \in 1 .. Len(Todo(c)) : Todo(c)[b] = r[a] /\ (r[a].op = "unused" => lock'["ptable"] = lock["ptable"])
  <2>1. PICK b \in 1 .. Len(Todo(c)) : Todo(c)[b] = r[a]
    BY <1>5, <1>7, InTail
  <2>2. CASE l = "ptable"
    <3>1. lock["ptable"] # c
      BY <1>3, <1>12, <2>2
    <3> QED BY <2>1, <3>1, NoneFreed
  <2>3. CASE l # "ptable"
    <3>1. lock'["ptable"] = lock["ptable"]
      BY <1>3, <1>4, <2>3
    <3> QED BY <2>1, <3>1
  <2> QED BY <2>2, <2>3
<1>21. ~ boot.use_lock => ~ cpu'[BSP].IF /\ cpu'[BSP].intena # TRUE
  <2> HAVE ~ boot.use_lock
  <2>1. ~ cpu[BSP].IF /\ cpu[BSP].intena # TRUE
    BY DEF Core, EarlyInv
  <2>2. CASE c = BSP
    BY <1>11, <2>1, <2>2
  <2>3. CASE c # BSP
    BY <1>10, <2>1, <2>3, MachineAssumption
  <2> QED BY <2>2, <2>3
<1>22. \A q \in Threads : Code(q)' = IF q = t THEN r ELSE Code(q)
  BY <1>1, <1>15, GoesTo DEF Core
<1>23. \A p \in Procs : Stands(p)
  BY <1>3 DEF Stands
<1>24. Stays(c, t, r)
  BY <1>1, <1>3, <1>5, <1>6, <1>7, <1>10, <1>11, <1>13, <1>14, <1>18, <1>19, <1>20, <1>21, <1>22, <1>23 DEF Stays
<1> QED BY <1>24, Stay

LEMMA release_unlockStep ==
  ASSUME Core, NEW c \in Apics, release_unlock(c), ~ panic'
  PROVE  Core'
<1>1. PICK t \in Threads : t = Running(c) /\ Code(t) = Todo(c)
  BY Runs DEF Core
<1>2. PICK op \in {"release"} : Doing(c, op)
  BY DEF release_unlock
<1>3. /\ cpu[c].at = "run" /\ Todo(c) # <<>> /\ Now(c).op = "release" /\ Now(c).on \in Locks /\ cpu[c].proc = cpu[c].run
  BY <1>2, Doings
<1>4. PICK l \in Locks : l = Now(c).on
  BY <1>3
<1>5. /\ lock' = [lock EXCEPT ![l] = Nobody] /\ lock[l] = c /\ cpu' = [cpu EXCEPT ![c].at = "popcli"]
      /\ UNCHANGED <<boot, todo, kern, proc, work, ticks, disk, given>>
  BY <1>4 DEF release_unlock, holding
<1>6. DOMAIN cpu = Apics /\ CpuType(cpu[c]) /\ Sane(c) /\ DOMAIN lock = Locks
  BY DEF Core, DataTypes, SaneInv
<1>7. DOMAIN cpu' = Apics /\ CpuType(cpu'[c]) /\ \A d \in Apics \ {c} : cpu'[d] = cpu[d]
  BY <1>5, <1>6 DEF CpuType
<1>8. /\ cpu'[c].run = cpu[c].run /\ cpu'[c].proc = cpu[c].proc /\ cpu'[c].at = "popcli"
      /\ cpu'[c].IF = cpu[c].IF /\ cpu'[c].ncli = cpu[c].ncli /\ cpu'[c].intena = cpu[c].intena
  BY <1>5, <1>6 DEF CpuType
<1>9. DataTypes'
  <2>1. \A d \in Apics : CpuType(cpu'[d])
    BY <1>7 DEF Core, DataTypes
  <2>2. DataTypes
    BY DEF Core
  <2>3. DOMAIN lock' = Locks /\ \A m \in Locks : lock'[m] \in Apics \cup {Nobody}
    BY <1>5, <2>2 DEF DataTypes
  <2> QED BY <1>5, <1>7, <2>1, <2>2, <2>3 DEF DataTypes, CpuType
<1>10. c # Nobody
  BY MachineAssumption DEF Nobody
<1>11. Mine(c)' = Mine(c) \ {l} /\ l \in Mine(c) /\ \A d \in Apics \ {c} : Mine(d)' = Mine(d)
  <2>1. \A m \in Locks : lock'[m] = IF m = l THEN Nobody ELSE lock[m]
    BY <1>5, <1>6
  <2>2. \A d \in Apics : d # Nobody
    BY MachineAssumption DEF Nobody
  <2> QED BY <1>5, <1>10, <2>1, <2>2 DEF Mine
<1>12. Todo(c)' = Todo(c) /\ Now(c)' = Now(c)
  BY <1>5, <1>8 DEF Todo, Now
<1>13. Held(c)' = Held(c)
  BY <1>3, <1>4, <1>5, <1>8, <1>11, <1>12 DEF Held
<1>14. Sane(c)'
  <2>1. Cardinality(Mine(c)') = Cardinality(Mine(c)) - 1 /\ Cardinality(Mine(c)) \in Nat
    BY <1>11, MineFinite
  <2>2. cpu[c].ncli = Cardinality(Mine(c)) + 0
    BY <1>3, <1>6 DEF Sane
  <2>3. cpu'[c].ncli = Cardinality(Mine(c)') + 1
    BY <1>8, <2>1, <2>2
  <2> QED BY <1>3, <1>4, <1>6, <1>8, <1>11, <1>12, <1>13, <2>3 DEF Sane
<1>15. Todo(c) \in Seq(Instructions(OpsOf(t))) /\ Ordered(Todo(c))
  BY <1>1, Runs DEF Core, OrderInv
<1>16. ASSUME NEW a \in 1 .. Len(Todo(c)) PROVE Todo(c)[a].op = "unused" => lock'["ptable"] = lock["ptable"]
  <2> HAVE Todo(c)[a].op = "unused"
  <2>1. Todo(c)[1] = Now(c) /\ Len(Todo(c)) \in Nat \ {0}
    BY <1>3, <1>15, EmptySeq DEF Now
  <2>2. 1 \in 1 .. Len(Todo(c)) /\ 1 < a
    BY <1>3, <2>1
  <2>3. ~ Clash(Now(c), Todo(c)[a])
    BY <1>15, <2>1, <2>2 DEF Ordered
  <2>4. OfKmem(Now(c))
    BY <2>3 DEF Clash
  <2>5. l # "ptable"
    BY <1>3, <1>4, <2>4 DEF OfKmem
  <2> QED BY <1>5, <1>6, <2>5
<1>17. ~ boot.use_lock => ~ cpu'[BSP].IF /\ cpu'[BSP].intena # TRUE
  <2> HAVE ~ boot.use_lock
  <2>1. ~ cpu[BSP].IF /\ cpu[BSP].intena # TRUE
    BY DEF Core, EarlyInv
  <2>2. CASE c = BSP
    BY <1>8, <2>1, <2>2
  <2>3. CASE c # BSP
    BY <1>7, <2>1, <2>3, MachineAssumption
  <2> QED BY <2>2, <2>3
<1>18. \A r \in Threads : Code(r)' = IF r = t THEN Todo(c) ELSE Code(r)
  BY <1>1, <1>5, SameCode
<1>19. \A p \in Procs : Stands(p)
  BY <1>5 DEF Stands
<1>20. Stays(c, t, Todo(c))
  BY <1>1, <1>3, <1>5, <1>7, <1>8, <1>9, <1>11, <1>14, <1>15, <1>16, <1>17, <1>18, <1>19 DEF Stays
<1> QED BY <1>20, Stay

LEMMA release_popcliStep ==
  ASSUME Core, NEW c \in Apics, release_popcli(c)
  PROVE  Core'
<1>1. PICK t \in Threads : t = Running(c) /\ Code(t) = Todo(c)
  BY Runs DEF Core
<1>2. /\ cpu[c].at = "popcli" /\ cpu' = [cpu EXCEPT ![c] = [popcli(@) EXCEPT !.at = "run"]]
      /\ Then(c, <<>>) /\ UNCHANGED <<lock, boot, proc, work, ticks, disk, given>>
  BY DEF release_popcli
<1>3. DOMAIN cpu = Apics /\ CpuType(cpu[c]) /\ Sane(c)
  BY DEF Core, DataTypes, SaneInv
<1>4. /\ Todo(c) # <<>> /\ Now(c).op = "release" /\ Now(c).on \notin Mine(c) /\ cpu[c].ncli = Cardinality(Mine(c)) + 1
      /\ Path(Todo(c), Held(c), {})
  BY <1>2, <1>3 DEF Sane
<1>5. cpu[c].proc = cpu[c].run
  BY <1>4 DEF Core, RunInv
<1>6. PICK X, r : X = OpsOf(t) /\ r = Tail(Todo(c)) /\ Todo(c) \in Seq(Instructions(X)) /\ r \in Seq(Instructions(X)) /\ Now(c) \in Instructions(X)
  BY <1>1, <1>4, Runs, Next1 DEF Core
<1>7. PICK l \in Locks : l = Now(c).on
  BY <1>4, <1>6 DEF Instructions
<1>8. PICK k \in SUBSET Tokens : Leads(Held(c), Now(c), k) /\ Path(r, k, {})
  BY <1>4, <1>6, Next1 DEF Core
<1>9. k = Held(c) \ {l}
  BY <1>4, <1>7, <1>8 DEF Leads
<1>10. DOMAIN cpu' = Apics /\ CpuType(cpu'[c]) /\ \A d \in Apics \ {c} : cpu'[d] = cpu[d]
  BY <1>2, <1>3 DEF CpuType, popcli
<1>11. /\ cpu'[c].run = cpu[c].run /\ cpu'[c].proc = cpu[c].proc /\ cpu'[c].at = "run"
       /\ cpu'[c].IF = (cpu[c].ncli = 1 /\ cpu[c].intena) /\ cpu'[c].ncli = cpu[c].ncli - 1 /\ cpu'[c].intena = cpu[c].intena
  BY <1>2, <1>3 DEF CpuType, popcli
<1>12. \A d \in Apics : Mine(d)' = Mine(d)
  BY <1>2 DEF Mine
<1>13. DataTypes'
  <2>1. \A d \in Apics : CpuType(cpu'[d])
    BY <1>10 DEF Core, DataTypes
  <2>2. DataTypes
    BY DEF Core
  <2>3. DOMAIN todo' = Apics /\ DOMAIN kern' = Procs
    BY <1>2, GoesTo DEF Core, Then
  <2> QED BY <1>2, <1>10, <2>1, <2>2, <2>3 DEF DataTypes, CpuType
<1>14. Goto(c, r)
  <2>1. <<>> \o r = r
    BY <1>6
  <2> QED BY <1>2, <1>6, <2>1 DEF Then
<1>15. Todo(c)' = r
  BY <1>11, <1>14, TodoNext DEF Core
<1>16. Held(c)' = Held(c) \ {l}
  <2>1. l # "early" /\ l # "off"
    BY DEF Locks
  <2> QED BY <1>2, <1>4, <1>7, <1>11, <1>12, <2>1 DEF Held
<1>17. Sane(c)'
  <2>1. Cardinality(Mine(c)) \in Nat
    BY <1>7, MineFinite
  <2>2. cpu'[c].ncli = Cardinality(Mine(c)') + 0
    BY <1>4, <1>11, <1>12, <2>1
  <2>3. cpu'[c].IF => cpu'[c].ncli = 0
    <3> HAVE cpu'[c].IF
    <3>1. cpu[c].ncli = 1
      BY <1>11
    <3> QED BY <1>11, <3>1
  <2> QED BY <1>8, <1>9, <1>11, <1>15, <1>16, <2>2, <2>3 DEF Sane
<1>18. Ordered(r)
  <2>1. Ordered(Todo(c))
    BY <1>1 DEF Core, OrderInv
  <2> QED BY <1>4, <1>6, <2>1, OrderedTail
<1>19. \A a \in 1 .. Len(r) : \E b \in 1 .. Len(Todo(c)) : Todo(c)[b] = r[a]
  BY <1>4, <1>6, InTail
<1>20. ~ boot.use_lock => ~ cpu'[BSP].IF /\ cpu'[BSP].intena # TRUE
  <2> HAVE ~ boot.use_lock
  <2>1. ~ cpu[BSP].IF /\ cpu[BSP].intena # TRUE
    BY DEF Core, EarlyInv
  <2>2. CASE c = BSP
    BY <1>11, <2>1, <2>2
  <2>3. CASE c # BSP
    BY <1>10, <2>1, <2>3, MachineAssumption
  <2> QED BY <2>2, <2>3
<1>21. \A q \in Threads : Code(q)' = IF q = t THEN r ELSE Code(q)
  BY <1>1, <1>14, GoesTo DEF Core
<1>22. \A p \in Procs : Stands(p)
  BY <1>2 DEF Stands
<1>23. Stays(c, t, r)
  BY <1>1, <1>2, <1>4, <1>5, <1>6, <1>10, <1>11, <1>12, <1>13, <1>17, <1>18, <1>19, <1>20, <1>21, <1>22 DEF Stays
<1> QED BY <1>23, Stay

----------------------------------------------------------------------------
(* The steps that change what a thread knows, or processes.                *)

LEMMA FactKept ==
  ASSUME DataTypes, NEW t, NEW i, Fact(t, i), boot'.cpus = boot.cpus, given' = given,
         \A d \in Apics : Asleep(d) => Asleep(d)',
         i.op \in {"kstack", "start"} => proc'[i.n].state = "EMBRYO",
         i.op = "start" => kern'[i.n] = forkret,
         i.op = "unused" => /\ proc'[i.n].state = "ZOMBIE" /\ lock'["ptable"] = lock["ptable"]
                            /\ \A d \in Apics : Running(d)' = Running(d)
  PROVE  Fact(t, i)'
<1>1. i.op \in {"kstack", "start"} => i.n \in Procs /\ proc'[i.n].state = "EMBRYO"
  BY DEF Fact
<1>2. i.op = "unused" => i.n \in Procs /\ proc'[i.n].state = "ZOMBIE" /\ \E d \in Apics : Running(d)' = t /\ lock'["ptable"] = d
  BY DEF Fact
<1>3. i.op = "lapicstartap" => i.n \in 1 .. Len(boot'.cpus) /\ boot'.cpus[i.n] # BSP /\ Asleep(boot.cpus[i.n])'
  <2> HAVE i.op = "lapicstartap"
  <2>1. i.n \in 1 .. Len(boot.cpus) /\ boot.cpus[i.n] # BSP /\ Asleep(boot.cpus[i.n])
    BY DEF Fact
  <2>2. PICK d \in Apics : d = boot.cpus[i.n]
    BY <2>1, ElementOfSeq DEF DataTypes
  <2>3. Asleep(d)'
    BY <2>1, <2>2
  <2> QED BY <2>1, <2>2, <2>3 DEF Asleep, Mine
<1>4. i.op = "startothers" => i.n >= 1 /\ \A j \in 1 .. Len(boot'.cpus) : i.n <= j /\ boot'.cpus[j] # BSP => Asleep(boot.cpus[j])'
  <2> HAVE i.op = "startothers"
  <2>1. i.n >= 1
    BY DEF Fact
  <2>2. ASSUME NEW j \in 1 .. Len(boot.cpus), i.n <= j, boot.cpus[j] # BSP PROVE Asleep(boot.cpus[j])'
    <3>1. PICK d \in Apics : d = boot.cpus[j]
      BY <2>2, ElementOfSeq DEF DataTypes
    <3>2. Asleep(d)
      BY <2>2, <3>1 DEF Fact
    <3>3. Asleep(d)'
      BY <3>2
    <3> QED BY <3>1, <3>3 DEF Asleep, Mine
  <2> QED BY <2>1, <2>2
<1>5. i.op = "mpinit" =>
        /\ i.n >= 1 /\ \A d \in Apics \ {BSP} : Asleep(d)'
        /\ \A j \in 1 .. Len(boot'.cpus) : \E k \in 1 .. Len(given'.table) :
             k < i.n /\ given'.table[k].type = "MPPROC" /\ given'.table[k].apicid = boot'.cpus[j]
  <2> HAVE i.op = "mpinit"
  <2>1. i.n >= 1 /\ \A d \in Apics \ {BSP} : Asleep(d)
    BY DEF Fact
  <2>2. \A j \in 1 .. Len(boot.cpus) : \E k \in 1 .. Len(given.table) :
          k < i.n /\ given.table[k].type = "MPPROC" /\ given.table[k].apicid = boot.cpus[j]
    BY DEF Fact
  <2> QED BY <2>1, <2>2
<1> QED BY <1>1, <1>2, <1>3, <1>4, <1>5 DEF Fact

LEMMA SleepsOn ==
  ASSUME NEW c \in Apics, NEW d \in Apics, Asleep(d), cpu'[d] = cpu[d], Mine(d)' = Mine(d),
         \E r \in Threads : r = <<"cpu", d>> /\ Code(r)' = Code(r)
  PROVE  Asleep(d)'
<1>1. PICK r \in Threads : r = <<"cpu", d>> /\ Code(r)' = Code(r)
  OBVIOUS
<1>2. todo[d] = Code(r) /\ todo'[d] = Code(r)'
  BY <1>1, Names
<1> QED BY <1>1, <1>2 DEF Asleep

LEMMA Awoken ==
  ASSUME DataTypes, CodeTypes, NEW c \in Apics, Todo(c) # <<>>
  PROVE  ~ Asleep(c)
<1> SUFFICES ASSUME Asleep(c) PROVE FALSE
  OBVIOUS
<1>1. cpu[c].run = 0 /\ todo[c] = <<>>
  BY DEF Asleep, Off
<1> QED BY <1>1, Runs

\* The processes of P, that no other processor runs or is about to make or free.
Apartly(c, P) ==
  /\ P \subseteq Procs
  /\ \A p \in P :
       /\ \A d \in Apics \ {c} : cpu[d].run # p
       /\ \A r \in Threads \ {Running(c)} : \A b \in 1 .. Len(Code(r)) :
            Code(r)[b].op \in {"kstack", "start", "unused"} => Code(r)[b].n # p
       /\ Idle(p) /\ proc'[p].state \notin {"UNUSED", "EMBRYO"} => Path(kern[p], {"ptable"}, {})
       /\ cpu[c].run = p => proc'[p].state \notin {"UNUSED", "EMBRYO"}

\* What others know of a process stays true.
Standing(p) ==
  /\ proc'[p].state = "RUNNING" <=> proc[p].state = "RUNNING"
  /\ proc[p].state = "EMBRYO" => proc'[p].state = "EMBRYO"
  /\ proc[p].state = "ZOMBIE" => proc'[p].state = "ZOMBIE"
  /\ proc'[p].state \in {"UNUSED", "EMBRYO"} <=> proc[p].state \in {"UNUSED", "EMBRYO"}

\* Processor c does op, and goes on with the code: only the processes of P change their standing.
Move(c, op, code, P) ==
  /\ Doing(c, op) /\ op # "back" /\ Then(c, code) /\ UNCHANGED <<cpu, lock, given>> /\ DataTypes'
  /\ boot'.cpus = boot.cpus /\ (boot'.use_lock = boot.use_lock \/ (c = BSP /\ boot'.use_lock))
  /\ ~ boot'.use_lock => \A p \in Procs : proc'[p].state = "UNUSED"
  /\ Apartly(c, P) /\ \A p \in Procs \ P : Standing(p)
  /\ \A k \in SUBSET Tokens : Leads(Held(c), Now(c), k) => Good(code, OpsOf(Running(c)), Held(c)', k)
  /\ Ordered(code)
  /\ \A b \in 1 .. Len(Tail(Todo(c))) :
       /\ \A a \in 1 .. Len(code) : ~ Clash(code[a], Tail(Todo(c))[b])
       /\ Tail(Todo(c))[b].op \in {"kstack", "start", "unused"} => Tail(Todo(c))[b].n \notin P
  /\ \A a \in 1 .. Len(code) :
       /\ Fact(Running(c), code[a])'
       /\ code[a].op \in {"kstack", "start"} =>
            \A r \in Threads \ {Running(c)} : \A b \in 1 .. Len(Code(r)) :
              Code(r)[b].op \in {"kstack", "start"} => Code(r)[b].n # code[a].n

LEMMA Moves ==
  ASSUME Core, NEW c \in Apics, NEW op, NEW code, NEW P, Move(c, op, code, P)
  PROVE  Core'
<1>1. PICK t \in Threads : t = Running(c) /\ Code(t) = Todo(c)
  BY Runs DEF Core
<1>2. PICK X : X = OpsOf(t)
  OBVIOUS
<1>3. cpu[c].at = "run" /\ Todo(c) # <<>> /\ Now(c).op = op /\ cpu[c].proc = cpu[c].run
  BY Doings DEF Move
<1>4. PICK r : r = Tail(Todo(c)) /\ r \in Seq(Instructions(X)) /\ Todo(c) \in Seq(Instructions(X))
  BY <1>1, <1>2, <1>3, Runs, Next1 DEF Core
<1>5. PICK k \in SUBSET Tokens : Leads(Held(c), Now(c), k) /\ Path(r, k, {})
  BY <1>3, <1>4, Next1 DEF Core
<1>6. code \in Seq(Instructions(X)) /\ Path(code, Held(c)', k)
  BY <1>1, <1>2, <1>5 DEF Move, Good
<1>7. PICK S : S = code \o r
  OBVIOUS
<1>8. S \in Seq(Instructions(X)) /\ Path(S, Held(c)', {})
  BY <1>4, <1>5, <1>6, <1>7, PathConcat, ConcatProperties
<1>9. Ordered(S)
  <2>1. Ordered(Todo(c))
    BY <1>1 DEF Core, OrderInv
  <2>2. Ordered(r)
    BY <1>3, <1>4, <2>1, OrderedTail
  <2>3. \A a \in 1 .. Len(code), b \in 1 .. Len(r) : ~ Clash(code[a], r[b])
    BY <1>4 DEF Move
  <2>4. Ordered(code)
    BY DEF Move
  <2> QED BY <1>4, <1>6, <1>7, <2>2, <2>3, <2>4, OrderedConcat
<1>10. Goto(c, S)
  BY <1>4, <1>7 DEF Move, Then
<1>11. \A q \in Threads : Code(q)' = IF q = t THEN S ELSE Code(q)
  BY <1>1, <1>10, GoesTo DEF Core
<1>12. cpu' = cpu /\ lock' = lock /\ given' = given /\ boot'.cpus = boot.cpus /\ DataTypes'
  BY DEF Move
<1>13. Todo(c)' = S
  BY <1>10, <1>12, TodoNext DEF Core
<1>14. \A d \in Apics : Mine(d)' = Mine(d) /\ cpu'[d] = cpu[d] /\ Running(d)' = Running(d)
  BY <1>12 DEF Mine, Running
<1>15. Sane(c)'
  <2>1. Sane(c)
    BY DEF Core, SaneInv
  <2> QED BY <1>3, <1>8, <1>12, <1>13, <1>14, <2>1 DEF Sane
<1>16. ~ Asleep(c)
  BY <1>3, Awoken DEF Core
<1>17. ASSUME NEW d \in Apics, Asleep(d) PROVE Asleep(d)'
  <2>1. PICK q \in Threads : q = <<"cpu", d>>
    BY Names
  <2>2. q # t
    <3>1. d # c
      BY <1>16, <1>17
    <3>2. CASE cpu[c].run = 0
      <4>1. t = <<"cpu", c>>
        BY <1>1, <3>2 DEF Running
      <4> QED BY <2>1, <3>1, <4>1
    <3>3. CASE cpu[c].run # 0
      <4>1. t = <<"proc", cpu[c].run>>
        BY <1>1, <3>3 DEF Running
      <4> QED BY <2>1, <4>1
    <3> QED BY <3>2, <3>3
  <2> QED BY <1>11, <1>14, <1>17, <2>1, <2>2, SleepsOn
<1>18. /\ P \subseteq Procs
       /\ \A p \in P :
            /\ \A d \in Apics \ {c} : cpu[d].run # p
            /\ \A q \in Threads \ {t} : \A b \in 1 .. Len(Code(q)) :
                 Code(q)[b].op \in {"kstack", "start", "unused"} => Code(q)[b].n # p
            /\ Idle(p) /\ proc'[p].state \notin {"UNUSED", "EMBRYO"} => Path(kern[p], {"ptable"}, {})
            /\ cpu[c].run = p => proc'[p].state \notin {"UNUSED", "EMBRYO"}
  BY <1>1 DEF Move, Apartly
<1>19. \A p \in Procs \ P :
         /\ proc'[p].state = "RUNNING" <=> proc[p].state = "RUNNING"
         /\ proc[p].state = "EMBRYO" => proc'[p].state = "EMBRYO"
         /\ proc[p].state = "ZOMBIE" => proc'[p].state = "ZOMBIE"
         /\ proc'[p].state \in {"UNUSED", "EMBRYO"} <=> proc[p].state \in {"UNUSED", "EMBRYO"}
  BY DEF Move, Standing
<1>20. ASSUME NEW b \in 1 .. Len(r), NEW i, i = r[b] PROVE Fact(t, i)'
  <2>1. PICK a \in 1 .. Len(Todo(c)) : Todo(c)[a] = i
    BY <1>3, <1>4, <1>20, InTail
  <2>2. Fact(t, i)
    BY <1>1, <2>1 DEF Core, FactInv
  <2>3. i.op \in {"kstack", "start", "unused"} => i.n \in Procs \ P
    BY <1>4, <1>20, <2>2 DEF Move, Fact
  <2>4. i.op \in {"kstack", "start"} => proc'[i.n].state = "EMBRYO"
    BY <1>19, <2>2, <2>3 DEF Fact
  <2>5. i.op = "unused" => proc'[i.n].state = "ZOMBIE" /\ lock'["ptable"] = lock["ptable"]
    BY <1>12, <1>19, <2>2, <2>3 DEF Fact
  <2>6. i.op = "start" => kern'[i.n] = forkret
    <3> HAVE i.op = "start"
    <3>1. i.n \in Procs /\ proc[i.n].state = "EMBRYO" /\ kern[i.n] = forkret
      BY <2>2 DEF Fact
    <3>2. PICK v \in Threads : v = <<"proc", i.n>> /\ kern[i.n] = Code(v) /\ kern'[i.n] = Code(v)'
      BY <3>1, Names
    <3>3. v # t
      <4>1. CASE cpu[c].run = 0
        <5>1. t = <<"cpu", c>>
          BY <1>1, <4>1 DEF Running
        <5> QED BY <3>2, <5>1
      <4>2. CASE cpu[c].run # 0
        <5>1. t = <<"proc", cpu[c].run>> /\ cpu[c].run # i.n
          BY <1>1, <3>1, <4>2 DEF Core, RunInv, Running
        <5> QED BY <3>2, <5>1
      <4> QED BY <4>1, <4>2
    <3> QED BY <1>11, <3>1, <3>2, <3>3
  <2>7. DataTypes
    BY DEF Core
  <2> QED BY <1>12, <1>14, <1>17, <2>2, <2>4, <2>5, <2>6, <2>7, FactKept
<1>21. ASSUME NEW a \in 1 .. Len(S) PROVE Fact(t, S[a])'
  <2>1. CASE a \in 1 .. Len(code) /\ S[a] = code[a]
    <3>1. PICK i : i = code[a]
      OBVIOUS
    <3>2. Fact(t, i)'
      BY <1>1, <1>14, <2>1, <3>1 DEF Move
    <3> QED BY <2>1, <3>1, <3>2
  <2>2. CASE \E b \in 1 .. Len(r) : S[a] = r[b]
    <3>1. PICK b \in 1 .. Len(r) : S[a] = r[b]
      BY <2>2
    <3>2. PICK i : i = r[b]
      OBVIOUS
    <3>3. Fact(t, i)'
      BY <1>20, <3>2
    <3>4. S[a] = i
      BY <3>1, <3>2
    <3> QED BY <3>3, <3>4
  <2>3. PICK I : I = Instructions(X) /\ code \in Seq(I) /\ r \in Seq(I) /\ a \in 1 .. Len(code \o r)
    BY <1>4, <1>6, <1>7
  <2>4. \/ a \in 1 .. Len(code) /\ (code \o r)[a] = code[a]
        \/ \E b \in 1 .. Len(r) : (code \o r)[a] = r[b]
    BY <2>3, InConcat
  <2> QED BY <1>7, <2>1, <2>2, <2>4
<1>25. ASSUME NEW a \in 1 .. Len(S), S[a].op \in {"kstack", "start"},
              NEW q \in Threads \ {t}, NEW h \in 1 .. Len(Code(q)), Code(q)[h].op \in {"kstack", "start"}
       PROVE  Code(q)[h].n # S[a].n
  <2>1. CASE a \in 1 .. Len(code) /\ S[a] = code[a]
    BY <1>1, <1>25, <2>1 DEF Move
  <2>2. CASE \E f \in 1 .. Len(r) : S[a] = r[f]
    <3>1. PICK f \in 1 .. Len(r) : S[a] = r[f]
      BY <2>2
    <3>2. PICK e \in 1 .. Len(Code(t)) : Code(t)[e] = S[a]
      BY <1>1, <1>3, <1>4, <3>1, InTail
    <3> QED BY <1>1, <1>25, <3>2 DEF Core, OnceInv
  <2>3. PICK I : I = Instructions(X) /\ code \in Seq(I) /\ r \in Seq(I) /\ a \in 1 .. Len(code \o r)
    BY <1>4, <1>6, <1>7
  <2>4. \/ a \in 1 .. Len(code) /\ (code \o r)[a] = code[a]
        \/ \E b \in 1 .. Len(r) : (code \o r)[a] = r[b]
    BY <2>3, InConcat
  <2> QED BY <1>7, <2>1, <2>2, <2>4
<1>22. /\ boot'.use_lock = boot.use_lock \/ (c = BSP /\ boot'.use_lock)
       /\ ~ boot'.use_lock =>
            ~ cpu'[BSP].IF /\ cpu'[BSP].intena # TRUE /\ \A p \in Procs : proc'[p].state = "UNUSED"
       /\ \A j, l \in 1 .. Len(boot'.cpus) : boot'.cpus[j] = boot'.cpus[l] => j = l
  BY <1>12 DEF Move, Core, EarlyInv, OnceInv
<1>23. IF cpu[c].run = 0 THEN cpu'[c].proc = 0 ELSE cpu'[c].proc = cpu[c].proc
  BY <1>3, <1>12
<1>24. Turns(c, t, S, t, S, P)
  <2>1. S \in Seq(Instructions(OpsOf(t))) /\ t = Running(c)
    BY <1>1, <1>2, <1>8
  <2> QED BY <1>9, <1>11, <1>12, <1>14, <1>15, <1>16, <1>18, <1>19, <1>21, <1>22, <1>23, <1>25, <2>1 DEF Turns
<1> QED BY <1>24, Turn

\* No thread is about to make or free a process that is neither new nor dead.
LEMMA Unmade ==
  ASSUME Core, NEW p, proc[p].state \notin {"EMBRYO", "ZOMBIE"}
  PROVE  \A r \in Threads : \A b \in 1 .. Len(Code(r)) :
           Code(r)[b].op \in {"kstack", "start", "unused"} => Code(r)[b].n # p
<1> SUFFICES ASSUME NEW r \in Threads, NEW b \in 1 .. Len(Code(r)), Code(r)[b].op \in {"kstack", "start", "unused"}
             PROVE  Code(r)[b].n # p
  OBVIOUS
<1>1. PICK i : i = Code(r)[b] /\ Fact(r, i)
  BY DEF Core, FactInv
<1> QED BY <1>1 DEF Fact

\* What processor c has still to do comes from the list of its thread.
LEMMA Later ==
  ASSUME Core, NEW c \in Apics, Todo(c) # <<>>, NEW b \in 1 .. Len(Tail(Todo(c)))
  PROVE  /\ \E e \in 1 .. Len(Code(Running(c))) : Code(Running(c))[e] = Tail(Todo(c))[b]
         /\ ~ Clash(Now(c), Tail(Todo(c))[b])
<1>1. PICK t \in Threads : t = Running(c) /\ Code(t) = Todo(c) /\ Todo(c) \in Seq(Instructions(OpsOf(t)))
  BY Runs DEF Core
<1>2. PICK e \in 1 .. Len(Todo(c)) : Todo(c)[e] = Tail(Todo(c))[b]
  BY <1>1, InTail
<1>3. Ordered(Todo(c))
  BY <1>1 DEF Core, OrderInv
<1>4. ~ Clash(Head(Todo(c)), Tail(Todo(c))[b])
  BY <1>1, <1>3, OrderedTail
<1> QED BY <1>1, <1>2, <1>4 DEF Now

\* Who is off has ptable.lock, and calls sched next.
LEMMA Offs ==
  ASSUME Core, NEW d \in Apics, "off" \in Held(d)
  PROVE  lock["ptable"] = d /\ Held(d) = {"ptable", "off"}
<1>1. Path(Todo(d), Held(d), {})
  BY DEF Core, SaneInv, Sane
<1>2. Todo(d) # <<>>
  BY <1>1, PathNil
<1>3. PICK k \in SUBSET Tokens : Leads(Held(d), Now(d), k)
  BY <1>2, Next1 DEF Core
<1>4. PICK X : Now(d) \in Instructions(X) /\ X \subseteq CpuOps \cup BootOps \cup ProcOps
  <2>1. OpsOf(Running(d)) \subseteq CpuOps \cup BootOps \cup ProcOps
    BY DEF OpsOf
  <2> QED BY <1>2, <2>1, Next1 DEF Core
<1>5. Now(d).op \in X /\ (Now(d).op \in {"acquire", "release"} => Now(d).on \in Locks)
  BY <1>4 DEF Instructions
<1>6. Now(d).op # "acquire"
  BY <1>3 DEF Leads, Below
<1>7. Now(d).op = "sched"
  <2>1. PICK i, h : i = Now(d) /\ h = Held(d) /\ "off" \in h /\ Leads(h, i, k)
    BY <1>3
  <2>2. i.op \in CpuOps \cup BootOps \cup ProcOps /\ i.op # "acquire"
    BY <1>4, <1>5, <1>6, <2>1
  <2>3. "off" \notin {} /\ \A x \in {"ptable", "tickslock", "idelock", "early"} : "off" \notin {x}
    OBVIOUS
  <2>4. i.op \notin {"release", "wakeup1", "peek", "take", "kfree"}
    BY <2>1, <2>3 DEF Leads
  <2>5. i.op \notin {"block", "runnable", "zombie", "scan", "back", "find", "reap", "zombie exit",
                      "tidy", "intena", "kill", "start", "unused"}
    BY <2>1, <2>3 DEF Leads
  <2>6. i.op \notin {"since", "doze", "tick"}
    BY <2>1, <2>3 DEF Leads
  <2>7. i.op \notin {"ideintr", "await", "request", "idestart"}
    BY <2>1, <2>3 DEF Leads
  <2>8. i.op \notin {"kalloc", "lapicinit"}
    BY <2>1, <2>3 DEF Leads
  <2>9. i.op \notin {"sti", "iret", "quit", "preempt", "started", "cprintf", "forkret", "kstack",
                      "entry", "idtinit"}
    BY <2>1, <2>3 DEF Leads
  <2>10. i.op \notin {"kinit1", "mpinit", "consoleinit", "ideinit", "startothers", "lapicstartap",
                      "wait", "freerange"}
    BY <2>1, <2>3 DEF Leads
  <2>11. i.op \notin {"use_lock"}
    BY <2>1, <2>3 DEF Leads
  <2>12. i.op = "sched"
    BY <2>2, <2>4, <2>5, <2>6, <2>7, <2>8, <2>9, <2>10, <2>11 DEF CpuOps, BootOps, ProcOps
  <2> QED BY <2>1, <2>12
<1>8. Held(d) = {"ptable", "off"}
  BY <1>3, <1>7 DEF Leads
<1>9. cpu[d].at # "popcli"
  BY <1>7 DEF Core, SaneInv, Sane
<1> QED BY <1>8, <1>9 DEF Held, Mine

LEMMA HeldStays ==
  ASSUME NEW c, cpu[c].at = "run", UNCHANGED <<cpu, lock>>, boot'.use_lock = boot.use_lock,
         cpu[c].run # 0 => (proc'[cpu[c].run].state = "RUNNING" <=> proc[cpu[c].run].state = "RUNNING")
  PROVE  Held(c)' = Held(c)
<1>1. Mine(c)' = Mine(c)
  BY DEF Mine
<1> QED BY <1>1 DEF Held

\* A step with no code in its place.
LEMMA MoveOn ==
  ASSUME Core, NEW c \in Apics, NEW op, NEW P, Doing(c, op), op # "back", Then(c, <<>>),
         UNCHANGED <<cpu, lock, given>>, DataTypes', boot'.cpus = boot.cpus,
         boot'.use_lock = boot.use_lock \/ (c = BSP /\ boot'.use_lock),
         ~ boot'.use_lock => \A p \in Procs : proc'[p].state = "UNUSED",
         Apartly(c, P), \A p \in Procs \ P : Standing(p),
         \A k \in SUBSET Tokens : Leads(Held(c), Now(c), k) => Held(c)' = k,
         \A b \in 1 .. Len(Tail(Todo(c))) :
           Tail(Todo(c))[b].op \in {"kstack", "start", "unused"} => Tail(Todo(c))[b].n \notin P
  PROVE  Core'
<1>1. PICK code : code = <<>>
  OBVIOUS
<1>2. ASSUME NEW k \in SUBSET Tokens, Leads(Held(c), Now(c), k) PROVE Good(code, OpsOf(Running(c)), Held(c)', k)
  <2>1. Good(code, OpsOf(Running(c)), k, k)
    BY <1>1, GoodEmpty
  <2> QED BY <1>2, <2>1
<1>3. Ordered(code) /\ Len(code) = 0
  BY <1>1 DEF Ordered
<1>4. Move(c, op, code, P)
  BY <1>1, <1>2, <1>3 DEF Move
<1> QED BY <1>4, Moves

LEMMA use_lockStep ==
  ASSUME Core, NEW c \in Apics, use_lock(c)
  PROVE  Core'
<1>1. Doing(c, "use_lock") /\ Then(c, <<>>)
  BY DEF use_lock
<1>2. boot' = [boot EXCEPT !.use_lock = TRUE] /\ UNCHANGED <<cpu, lock, given, proc, work, disk, ticks>>
  BY DEF use_lock
<1>3. Running(c) \in Threads /\ "use_lock" \in OpsOf(Running(c)) /\ cpu[c].at = "run" /\ Now(c).op = "use_lock"
  BY <1>1, Doings
<1>4. Running(c) = <<"cpu", BSP>>
  <2>1. "use_lock" \notin CpuOps \cup ProcOps
    BY DEF CpuOps, ProcOps
  <2> QED BY <1>3, <2>1, OfBoot
<1>5. c = BSP /\ cpu[c].run = 0
  BY <1>4 DEF Running
<1>6. DataTypes /\ DOMAIN boot = {"cpus", "started", "stack", "use_lock", "locking", "route", "first"}
  BY DEF Core, DataTypes
<1>7. DOMAIN boot' = DOMAIN boot /\ boot'.cpus = boot.cpus /\ boot'.use_lock
  BY <1>2, <1>6
<1>8. DataTypes'
  <2>1. DOMAIN todo' = Apics /\ DOMAIN kern' = Procs
    BY <1>1, GoesTo DEF Core, Then
  <2> QED BY <1>2, <1>6, <1>7, <2>1 DEF DataTypes, CpuType
<1>9. ASSUME NEW k \in SUBSET Tokens, Leads(Held(c), Now(c), k) PROVE Held(c)' = k
  <2>1. Held(c) = {"early"} /\ k = {}
    BY <1>3, <1>9 DEF Leads
  <2>2. Mine(c) = {}
    BY <2>1 DEF Held, Mine, Locks
  <2>3. Mine(c)' = {}
    BY <1>2, <2>2 DEF Mine
  <2>4. cpu'[c].at = "run" /\ cpu'[c].run = 0
    BY <1>2, <1>3, <1>5
  <2> QED BY <1>7, <2>1, <2>3, <2>4 DEF Held
<1>10. PICK P, op : P = {} /\ op = "use_lock"
  OBVIOUS
<1>11. Apartly(c, P) /\ \A p \in Procs \ P : Standing(p)
  BY <1>2, <1>10 DEF Apartly, Standing
<1>12. Doing(c, op) /\ op # "back"
  BY <1>1, <1>10
<1>13. \A b \in 1 .. Len(Tail(Todo(c))) :
         Tail(Todo(c))[b].op \in {"kstack", "start", "unused"} => Tail(Todo(c))[b].n \notin P
  BY <1>10
<1> QED BY <1>1, <1>2, <1>5, <1>7, <1>8, <1>9, <1>11, <1>12, <1>13, MoveOn

\* The fields of a process; and two that differ in no other than state and parent.
Fields == {"state", "pid", "parent", "killed", "chan", "kstack", "intena", "r"}
Alike(a, b) ==
  a.pid = b.pid /\ a.killed = b.killed /\ a.chan = b.chan /\ a.kstack = b.kstack /\ a.intena = b.intena /\ a.r = b.r

\* What a wakeup makes of a table of processes.
LEMMA WokenIs ==
  ASSUME NEW table, NEW chan, \A q \in Procs : DOMAIN table[q] = Fields, NEW w, w = Woken(table, chan)
  PROVE  /\ DOMAIN w = Procs
         /\ \A q \in Procs :
              /\ DOMAIN w[q] = Fields /\ Alike(w[q], table[q]) /\ w[q].parent = table[q].parent
              /\ w[q].state = IF table[q].state = "SLEEPING" /\ table[q].chan = chan THEN "RUNNABLE" ELSE table[q].state
<1>1. w = [q \in Procs |-> IF table[q].state = "SLEEPING" /\ table[q].chan = chan
                           THEN [table[q] EXCEPT !.state = "RUNNABLE"] ELSE table[q]]
  BY DEF Woken
<1>2. ASSUME NEW q \in Procs
      PROVE  /\ DOMAIN w[q] = Fields /\ Alike(w[q], table[q]) /\ w[q].parent = table[q].parent
             /\ w[q].state = IF table[q].state = "SLEEPING" /\ table[q].chan = chan THEN "RUNNABLE" ELSE table[q].state
  <2>1. PICK a, b : a = table[q] /\ b = w[q] /\ DOMAIN a = Fields
    OBVIOUS
  <2>2. CASE a.state = "SLEEPING" /\ a.chan = chan
    <3>1. b = [a EXCEPT !.state = "RUNNABLE"]
      BY <1>1, <2>1, <2>2
    <3> QED BY <2>1, <2>2, <3>1 DEF Fields, Alike
  <2>3. CASE ~ (a.state = "SLEEPING" /\ a.chan = chan)
    <3>1. b = a
      BY <1>1, <2>1, <2>3
    <3> QED BY <2>1, <2>3, <3>1 DEF Alike
  <2> QED BY <2>2, <2>3
<1>3. DOMAIN w = Procs
  BY <1>1
<1> QED BY <1>2, <1>3

\* What exit makes of the table: it wakes the parent of p, and init if it has a dead child now.
LEMMA ZombieIs ==
  ASSUME DataTypes, NEW p \in Procs, NEW z, z = Zombie(p)
  PROVE  /\ DOMAIN z = Procs /\ z[p].state = "ZOMBIE"
         /\ \A q \in Procs :
              /\ DOMAIN z[q] = DOMAIN proc[q] /\ Alike(z[q], proc[q])
              /\ z[q].parent = IF proc[q].parent = p THEN initproc ELSE proc[q].parent
              /\ q # p => z[q].state = proc[q].state \/ (proc[q].state = "SLEEPING" /\ z[q].state = "RUNNABLE")
              /\ q # p /\ z[q].state = "SLEEPING" => proc[q].chan # proc[p].parent
                   /\ (proc[q].chan = initproc => \A r \in Procs : proc[r].parent = p => proc[r].state # "ZOMBIE")
<1>1. \A q \in Procs : DOMAIN proc[q] = Fields
  BY DEF DataTypes, Fields
<1>2. PICK kids, told : kids = {q \in Procs : proc[q].parent = p} /\ told = Woken(proc, proc[p].parent)
  OBVIOUS
<1>3. PICK orphans : orphans = [q \in Procs |-> IF q \in kids THEN [told[q] EXCEPT !.parent = initproc] ELSE told[q]]
  OBVIOUS
<1>4. PICK w : w = IF \E q \in kids : proc[q].state = "ZOMBIE" THEN Woken(orphans, initproc) ELSE orphans
  OBVIOUS
<1>5. z = [w EXCEPT ![p].state = "ZOMBIE"]
  BY <1>2, <1>3, <1>4 DEF Zombie
<1>6. /\ DOMAIN told = Procs
      /\ \A q \in Procs :
           /\ DOMAIN told[q] = Fields /\ Alike(told[q], proc[q]) /\ told[q].parent = proc[q].parent
           /\ told[q].state = IF proc[q].state = "SLEEPING" /\ proc[q].chan = proc[p].parent THEN "RUNNABLE" ELSE proc[q].state
  BY <1>1, <1>2, WokenIs
<1>7. ASSUME NEW q \in Procs
      PROVE  /\ DOMAIN orphans[q] = Fields /\ Alike(orphans[q], proc[q]) /\ orphans[q].state = told[q].state
             /\ orphans[q].parent = IF proc[q].parent = p THEN initproc ELSE proc[q].parent
  <2>1. PICK a, b : a = told[q] /\ b = orphans[q] /\ DOMAIN a = Fields
    BY <1>6
  <2>2. Alike(a, proc[q]) /\ a.parent = proc[q].parent
    BY <1>6, <2>1
  <2>3. CASE q \in kids
    <3>1. b = [a EXCEPT !.parent = initproc]
      BY <1>3, <2>1, <2>3
    <3>2. DOMAIN b = Fields /\ Alike(b, a) /\ b.state = a.state /\ b.parent = initproc
      BY <2>1, <3>1 DEF Fields, Alike
    <3> QED BY <1>2, <2>1, <2>2, <2>3, <3>2 DEF Alike
  <2>4. CASE q \notin kids
    <3>1. b = a
      BY <1>3, <2>1, <2>4
    <3> QED BY <1>2, <2>1, <2>2, <2>4, <3>1
  <2> QED BY <2>3, <2>4
<1>8. DOMAIN orphans = Procs
  BY <1>3
<1>9. /\ DOMAIN w = Procs
      /\ \A q \in Procs :
           /\ DOMAIN w[q] = Fields /\ Alike(w[q], proc[q]) /\ w[q].parent = orphans[q].parent
           /\ w[q].state = told[q].state \/ (told[q].state = "SLEEPING" /\ w[q].state = "RUNNABLE")
           /\ w[q].state = "SLEEPING" /\ proc[q].chan = initproc => \A r \in kids : proc[r].state # "ZOMBIE"
  <2>1. CASE \E q \in kids : proc[q].state = "ZOMBIE"
    <3>1. w = Woken(orphans, initproc)
      BY <1>4, <2>1
    <3>2. /\ DOMAIN w = Procs
          /\ \A q \in Procs :
               /\ DOMAIN w[q] = Fields /\ Alike(w[q], orphans[q]) /\ w[q].parent = orphans[q].parent
               /\ w[q].state = IF orphans[q].state = "SLEEPING" /\ orphans[q].chan = initproc THEN "RUNNABLE" ELSE orphans[q].state
      BY <1>7, <3>1, WokenIs
    <3> QED BY <1>7, <3>2 DEF Alike
  <2>2. CASE ~ (\E q \in kids : proc[q].state = "ZOMBIE")
    <3>1. w = orphans
      BY <1>4, <2>2
    <3> QED BY <1>7, <1>8, <2>2, <3>1
  <2> QED BY <2>1, <2>2
<1>10. DOMAIN z = Procs /\ \A q \in Procs \ {p} : z[q] = w[q]
  BY <1>5, <1>9
<1>11. DOMAIN z[p] = Fields /\ z[p].state = "ZOMBIE" /\ Alike(z[p], w[p]) /\ z[p].parent = w[p].parent
  <2>1. PICK a : a = w[p] /\ DOMAIN a = Fields
    BY <1>9
  <2>2. z[p] = [a EXCEPT !.state = "ZOMBIE"]
    BY <1>5, <1>9, <2>1
  <2> QED BY <2>1, <2>2 DEF Fields, Alike
<1>12. ASSUME NEW q \in Procs
       PROVE  /\ DOMAIN z[q] = DOMAIN proc[q] /\ Alike(z[q], proc[q])
              /\ z[q].parent = IF proc[q].parent = p THEN initproc ELSE proc[q].parent
  <2>1. Alike(z[q], w[q]) /\ z[q].parent = w[q].parent /\ DOMAIN z[q] = Fields
    <3>1. CASE q = p
      BY <1>11, <3>1
    <3>2. CASE q # p
      BY <1>9, <1>10, <3>2 DEF Alike
    <3> QED BY <3>1, <3>2
  <2>2. Alike(w[q], proc[q]) /\ w[q].parent = orphans[q].parent
    BY <1>9
  <2> QED BY <1>1, <1>7, <2>1, <2>2 DEF Alike
<1>13. ASSUME NEW q \in Procs, q # p
       PROVE  /\ z[q].state = proc[q].state \/ (proc[q].state = "SLEEPING" /\ z[q].state = "RUNNABLE")
              /\ z[q].state = "SLEEPING" => proc[q].chan # proc[p].parent
                   /\ (proc[q].chan = initproc => \A r \in Procs : proc[r].parent = p => proc[r].state # "ZOMBIE")
  BY <1>2, <1>6, <1>9, <1>10, <1>13
<1> QED BY <1>10, <1>11, <1>12, <1>13

\* A process that puts itself to sleep, gives way or ends.
LEMMA SleepSteps ==
  ASSUME Core, NEW c \in Apics, change(c), NEW op \in {"block", "runnable", "zombie"}, Doing(c, op)
  PROVE  Core'
<1>1. UNCHANGED <<cpu, lock, boot, work, ticks, disk, given>> /\ Then(c, <<>>) /\ proc' = Change(c)
  BY DEF change
<1>2. /\ cpu[c].at = "run" /\ Todo(c) # <<>> /\ Now(c).op = op /\ Now(c).n \in Int /\ cpu[c].proc = cpu[c].run
      /\ Running(c) \in Threads /\ op \in OpsOf(Running(c))
  BY Doings
<1>3. cpu[c].run # 0
  <2>1. op \notin CpuOps \cup BootOps
    BY DEF CpuOps, BootOps
  <2>2. \E p \in Procs : Running(c) = <<"proc", p>>
    BY <1>2, <2>1, OfProc
  <2> QED BY <2>2 DEF Running
<1>4. PICK p \in Procs : p = cpu[c].run /\ p = Me(c)
  BY <1>2, <1>3 DEF Core, DataTypes, CpuType, Me
<1>5. Held(c) = {"ptable"} /\ \A k \in SUBSET Tokens : Leads(Held(c), Now(c), k) => k = {"ptable", "off"}
  <2>1. PICK k \in SUBSET Tokens : Leads(Held(c), Now(c), k)
    BY <1>2, Next1 DEF Core
  <2> QED BY <1>2, <2>1 DEF Leads
<1>6. proc[p].state = "RUNNING"
  BY <1>3, <1>4, <1>5 DEF Held
<1>7. DOMAIN proc = Procs /\ \A q \in Procs : DOMAIN proc[q] = {"state", "pid", "parent", "killed", "chan", "kstack", "intena", "r"}
  BY DEF Core, DataTypes
<1>8. /\ DOMAIN proc' = Procs /\ \A q \in Procs : DOMAIN proc'[q] = DOMAIN proc[q]
      /\ proc'[p].state \in {"SLEEPING", "RUNNABLE", "ZOMBIE"}
      /\ \A q \in Procs \ {p} : proc'[q].state = proc[q].state \/ (proc[q].state = "SLEEPING" /\ proc'[q].state = "RUNNABLE")
  <2>1. CASE op = "block"
    <3>1. proc' = [proc EXCEPT ![p].chan = Now(c).n, ![p].state = "SLEEPING"]
      BY <1>1, <1>2, <1>4, <2>1 DEF Change
    <3> QED BY <1>7, <3>1
  <2>2. CASE op = "runnable"
    <3>1. proc' = [proc EXCEPT ![p].state = "RUNNABLE"]
      BY <1>1, <1>2, <1>4, <2>2 DEF Change
    <3> QED BY <1>7, <3>1
  <2>3. CASE op = "zombie"
    <3>1. proc' = Zombie(p)
      BY <1>1, <1>2, <1>4, <2>3 DEF Change
    <3>2. DOMAIN proc' = Procs /\ proc'[p].state = "ZOMBIE" /\ (\A q \in Procs : DOMAIN proc'[q] = DOMAIN proc[q])
          /\ \A q \in Procs \ {p} : proc'[q].state = proc[q].state \/ (proc[q].state = "SLEEPING" /\ proc'[q].state = "RUNNABLE")
      BY <1>7, <3>1, ZombieIs DEF Core
    <3> QED BY <3>2
  <2> QED BY <2>1, <2>2, <2>3
<1>9. DataTypes'
  <2>1. DOMAIN todo' = Apics /\ DOMAIN kern' = Procs
    BY <1>1, GoesTo DEF Core, Then
  <2> QED BY <1>1, <1>7, <1>8, <2>1 DEF Core, DataTypes, CpuType
<1>10. PICK P : P = {p}
  OBVIOUS
<1>11. \A q \in Procs \ P : Standing(q)
  BY <1>8, <1>10 DEF Standing
<1>12. \A r \in Threads : \A b \in 1 .. Len(Code(r)) : Code(r)[b].op \in {"kstack", "start", "unused"} => Code(r)[b].n # p
  <2>1. proc[p].state \notin {"EMBRYO", "ZOMBIE"}
    BY <1>6
  <2> QED BY <2>1, Unmade
<1>13. Apartly(c, P)
  <2>1. \A d \in Apics \ {c} : cpu[d].run # p
    BY <1>3, <1>4 DEF Core, RunInv
  <2>2. ~ Idle(p) /\ proc'[p].state \notin {"UNUSED", "EMBRYO"}
    BY <1>4, <1>8 DEF Idle
  <2> QED BY <1>10, <1>12, <2>1, <2>2 DEF Apartly
<1>14. \A b \in 1 .. Len(Tail(Todo(c))) :
         Tail(Todo(c))[b].op \in {"kstack", "start", "unused"} => Tail(Todo(c))[b].n \notin P
  BY <1>2, <1>10, <1>12, Later
<1>15. boot.use_lock
  BY <1>3 DEF Core, EarlyInv
<1>16. Held(c)' = {"ptable", "off"}
  <2>1. Mine(c)' = Mine(c)
    BY <1>1 DEF Mine
  <2>2. Mine(c) = {"ptable"}
    BY <1>2, <1>3, <1>4, <1>5, <1>6 DEF Held
  <2>3. cpu'[c].run = p /\ p # 0 /\ cpu'[c].at = "run" /\ proc'[p].state # "RUNNING"
    BY <1>1, <1>2, <1>3, <1>4, <1>8
  <2> QED BY <2>1, <2>2, <2>3 DEF Held
<1>17. op # "back" /\ boot'.cpus = boot.cpus /\ boot'.use_lock = boot.use_lock /\ boot'.use_lock
  BY <1>1, <1>15
<1> QED BY <1>1, <1>5, <1>9, <1>11, <1>13, <1>14, <1>16, <1>17, MoveOn

\* The one that makes process q, and has nothing else to make or to free.
LEMMA Maker ==
  ASSUME Core, NEW c \in Apics, NEW op \in {"kstack", "start", "unused"}, Doing(c, op), NEW q, q = Now(c).n
  PROVE  /\ q \in Procs /\ boot.use_lock
         /\ proc[q].state = (IF op = "unused" THEN "ZOMBIE" ELSE "EMBRYO")
         /\ op = "start" => kern[q] = forkret
         /\ \A d \in Apics : cpu[d].run # q
         /\ \A r \in Threads \ {Running(c)} : \A b \in 1 .. Len(Code(r)) :
              Code(r)[b].op \in {"kstack", "start", "unused"} => Code(r)[b].n # q
         /\ \A b \in 1 .. Len(Tail(Todo(c))) : Tail(Todo(c))[b].op \notin Special
<1>1. PICK t \in Threads : t = Running(c) /\ Code(t) = Todo(c) /\ Todo(c) \in Seq(Instructions(OpsOf(t)))
  BY Runs DEF Core
<1>2. /\ cpu[c].at = "run" /\ Todo(c) # <<>> /\ Now(c).op = op /\ cpu[c].proc = cpu[c].run
  BY Doings
<1>3. 1 \in 1 .. Len(Todo(c)) /\ Todo(c)[1] = Now(c)
  BY <1>1, <1>2, HeadTailProperties, EmptySeq, LenProperties DEF Now
<1>4. PICK i : i = Now(c) /\ Fact(t, i) /\ i.op = op /\ i.n = q
  BY <1>1, <1>2, <1>3 DEF Core, FactInv
<1>5. q \in Procs /\ proc[q].state = (IF op = "unused" THEN "ZOMBIE" ELSE "EMBRYO") /\ (op = "start" => kern[q] = forkret)
  BY <1>4 DEF Fact
<1>6. boot.use_lock
  BY <1>5 DEF Core, EarlyInv
<1>7. op = "unused" => lock["ptable"] = c
  BY <1>1, <1>4, Apart DEF Fact, Core
<1>8. ASSUME NEW d \in Apics PROVE cpu[d].run # q
  <2>1. CASE op # "unused"
    BY <1>5, <2>1 DEF Core, RunInv, Procs
  <2>2. CASE op = "unused"
    <3> SUFFICES ASSUME cpu[d].run = q PROVE FALSE
      OBVIOUS
    <3>1. "off" \in Held(d)
      BY <1>5, <2>2 DEF Held, Procs
    <3>2. lock["ptable"] = d /\ Held(d) = {"ptable", "off"}
      BY <3>1, Offs
    <3>3. d = c
      BY <1>7, <2>2, <3>2
    <3>4. PICK k \in SUBSET Tokens : Leads(Held(c), i, k)
      BY <1>2, <1>4, Next1 DEF Core
    <3>5. Held(c) = {"ptable"}
      BY <1>4, <2>2, <3>4 DEF Leads
    <3> QED BY <3>1, <3>3, <3>5
  <2> QED BY <2>1, <2>2
<1>9. ASSUME NEW r \in Threads \ {t}, NEW b \in 1 .. Len(Code(r)), Code(r)[b].op \in {"kstack", "start", "unused"}
      PROVE  Code(r)[b].n # q
  <2>1. PICK j : j = Code(r)[b] /\ Fact(r, j)
    BY DEF Core, FactInv
  <2>2. CASE op # "unused" /\ j.op # "unused"
    BY <1>1, <1>2, <1>3, <1>4, <1>9, <2>1, <2>2 DEF Core, OnceInv
  <2>3. CASE op = "unused" /\ j.op = "unused"
    BY <1>1, <1>7, <2>1, <2>3 DEF Fact
  <2>4. CASE ~ (op = "unused" <=> j.op = "unused")
    BY <1>5, <1>9, <2>1, <2>4 DEF Fact
  <2> QED BY <2>2, <2>3, <2>4
<1>10. ASSUME NEW b \in 1 .. Len(Tail(Todo(c))) PROVE Tail(Todo(c))[b].op \notin Special
  <2>1. ~ Clash(Now(c), Tail(Todo(c))[b])
    BY <1>2, Later
  <2> QED BY <1>2, <2>1 DEF Clash, Special
<1> QED BY <1>1, <1>5, <1>6, <1>8, <1>9, <1>10

\* A process is given up, or can run for the first time.
LEMMA MadeSteps ==
  ASSUME Core, NEW c \in Apics, NEW op \in {"kstack", "start", "unused"}, Doing(c, op), NEW q, q = Now(c).n,
         Then(c, <<>>), UNCHANGED <<cpu, lock, boot, work, ticks, disk, given>>, DOMAIN proc' = Procs,
         DOMAIN proc'[q] = DOMAIN proc[q], \A p \in Procs \ {q} : proc'[p] = proc[p],
         proc'[q].state = (IF op = "start" THEN "RUNNABLE" ELSE "UNUSED")
  PROVE  Core'
<1>1. /\ q \in Procs /\ boot.use_lock
      /\ op = "start" => kern[q] = forkret
      /\ \A d \in Apics : cpu[d].run # q
      /\ \A r \in Threads \ {Running(c)} : \A b \in 1 .. Len(Code(r)) :
           Code(r)[b].op \in {"kstack", "start", "unused"} => Code(r)[b].n # q
      /\ \A b \in 1 .. Len(Tail(Todo(c))) : Tail(Todo(c))[b].op \notin Special
  BY Maker
<1>2. cpu[c].at = "run" /\ Todo(c) # <<>> /\ Now(c).op = op
  BY Doings
<1>3. DataTypes'
  <2>1. DOMAIN todo' = Apics /\ DOMAIN kern' = Procs
    BY GoesTo DEF Core, Then
  <2>2. \A p \in Procs : DOMAIN proc'[p] = {"state", "pid", "parent", "killed", "chan", "kstack", "intena", "r"}
    BY <1>1 DEF Core, DataTypes
  <2> QED BY <2>1, <2>2 DEF Core, DataTypes, CpuType
<1>4. Held(c)' = Held(c)
  <2>1. cpu[c].run # 0 => cpu[c].run \in Procs \ {q}
    BY <1>1 DEF Core, DataTypes, CpuType
  <2>2. cpu[c].run # 0 => (proc'[cpu[c].run].state = "RUNNING" <=> proc[cpu[c].run].state = "RUNNING")
    BY <2>1
  <2>3. UNCHANGED <<cpu, lock>> /\ boot'.use_lock = boot.use_lock
    OBVIOUS
  <2> QED BY <1>2, <2>2, <2>3, HeldStays
<1>5. ASSUME NEW k \in SUBSET Tokens, Leads(Held(c), Now(c), k) PROVE Held(c)' = k
  <2>1. Now(c).op \in LevelOps
    BY <1>2 DEF LevelOps
  <2> QED BY <1>4, <1>5, <2>1, Level
<1>6. PICK P : P = {q}
  OBVIOUS
<1>7. \A p \in Procs \ P : Standing(p)
  BY <1>6 DEF Standing
<1>8. Apartly(c, P)
  <2>1. Idle(q) /\ proc'[q].state \notin {"UNUSED", "EMBRYO"} => Path(kern[q], {"ptable"}, {})
    <3> HAVE Idle(q) /\ proc'[q].state \notin {"UNUSED", "EMBRYO"}
    <3>1. kern[q] = forkret
      BY <1>1
    <3>2. PICK X : X = ProcOps
      OBVIOUS
    <3>3. {"acquire", "release"} \subseteq X /\ {"forkret", "iret"} \subseteq X
      BY <3>2 DEF ProcOps
    <3>4. Good(forkret, X, {"ptable"}, {})
      BY <3>3, GoodSmall
    <3> QED BY <3>1, <3>4 DEF Good
  <2> QED BY <1>1, <1>6, <2>1 DEF Apartly
<1>9. \A b \in 1 .. Len(Tail(Todo(c))) :
         Tail(Todo(c))[b].op \in {"kstack", "start", "unused"} => Tail(Todo(c))[b].n \notin P
  BY <1>1 DEF Special
<1>10. op # "back" /\ boot'.cpus = boot.cpus /\ boot'.use_lock = boot.use_lock /\ boot'.use_lock
  BY <1>1
<1> QED BY <1>3, <1>5, <1>7, <1>8, <1>9, <1>10, MoveOn

LEMMA changeStep ==
  ASSUME Core, NEW c \in Apics, change(c)
  PROVE  Core'
<1>1. PICK op \in {"block", "tidy", "runnable", "wakeup1", "zombie", "kill", "start", "unused"} : Doing(c, op)
  BY DEF change
<1>2. CASE op \in {"tidy", "wakeup1", "kill"}
  BY <1>1, <1>2, changeCalmly
<1>3. CASE op \in {"block", "runnable", "zombie"}
  BY <1>1, <1>3, SleepSteps
<1>4. CASE op \in {"start", "unused"}
  <2>1. PICK q : q = Now(c).n
    OBVIOUS
  <2>2. op \in {"kstack", "start", "unused"} /\ Now(c).op = op
    BY <1>1, <1>4 DEF Doing
  <2>3. q \in Procs
    BY <1>1, <2>1, <2>2, Maker
  <2>4. Then(c, <<>>) /\ UNCHANGED <<cpu, lock, boot, work, ticks, disk, given>> /\ proc' = Change(c)
    BY DEF change
  <2>5. proc' = IF op = "start" THEN [proc EXCEPT ![q].state = "RUNNABLE"] ELSE [proc EXCEPT ![q] = Unused]
    BY <1>4, <2>1, <2>2, <2>4 DEF Change
  <2>6. DOMAIN proc = Procs /\ \A p \in Procs : DOMAIN proc[p] = {"state", "pid", "parent", "killed", "chan", "kstack", "intena", "r"}
    BY DEF Core, DataTypes
  <2>7. /\ DOMAIN proc' = Procs /\ DOMAIN proc'[q] = DOMAIN proc[q] /\ \A p \in Procs \ {q} : proc'[p] = proc[p]
        /\ proc'[q].state = (IF op = "start" THEN "RUNNABLE" ELSE "UNUSED")
    <3>1. CASE op = "start"
      BY <2>3, <2>5, <2>6, <3>1
    <3>2. CASE op = "unused"
      <4>1. proc' = [proc EXCEPT ![q] = Unused]
        BY <2>5, <3>2
      <4>2. DOMAIN Unused = {"state", "pid", "parent", "killed", "chan", "kstack", "intena", "r"} /\ Unused.state = "UNUSED"
        BY DEF Unused
      <4> QED BY <2>3, <2>6, <3>2, <4>1, <4>2
    <3> QED BY <1>4, <3>1, <3>2
  <2> QED BY <1>1, <2>1, <2>2, <2>4, <2>7, MadeSteps
<1> QED BY <1>2, <1>3, <1>4

LEMMA allocproc_findStep ==
  ASSUME Core, NEW c \in Apics, allocproc_find(c)
  PROVE  Core'
<1>1. PICK t \in Threads : t = Running(c) /\ Code(t) = Todo(c) /\ Todo(c) \in Seq(Instructions(OpsOf(t)))
  BY Runs DEF Core
<1>2. PICK op : op = "find" /\ Doing(c, op) /\ op # "back" /\ op \notin {"kfree", "acquire", "release"}
  BY DEF allocproc_find
<1>3. cpu[c].at = "run" /\ Todo(c) # <<>> /\ Now(c).op = "find" /\ op \in OpsOf(t)
  BY <1>1, <1>2, Doings
<1>4. UNCHANGED <<cpu, lock, boot, work, ticks, disk, given>>
  BY DEF allocproc_find
<1>5. Held(c) = {"ptable"} /\ \A k \in SUBSET Tokens : Leads(Held(c), Now(c), k) => k = {}
  <2>1. PICK k \in SUBSET Tokens : Leads(Held(c), Now(c), k)
    BY <1>3, Next1 DEF Core
  <2> QED BY <1>3, <2>1 DEF Leads
<1>6. PICK X : X = OpsOf(t) /\ {"acquire", "release", "find", "kalloc", "kstack"} \subseteq X
  <2>1. t[1] = "cpu" => t = <<"cpu", BSP>> /\ OpsOf(t) = CpuOps \cup BootOps
    <3> HAVE t[1] = "cpu"
    <3>1. "find" \notin CpuOps
      BY DEF CpuOps
    <3>2. t[2] = BSP
      BY <1>2, <1>3, <3>1 DEF OpsOf
    <3> QED BY <3>2, Kinds DEF OpsOf
  <2>2. t[1] # "cpu" => OpsOf(t) = ProcOps
    BY DEF OpsOf
  <2> QED BY <2>1, <2>2 DEF CpuOps, BootOps, ProcOps
<1>7. /\ Good(<<release("ptable")>>, X, {"ptable"}, {}) /\ Good(<<release("ptable")>>, X \ Wild, {"ptable"}, {})
  <2>1. PICK l \in Locks : l = "ptable"
    BY DEF Locks
  <2>2. PICK Y : Y = X \ Wild /\ {"acquire", "release"} \subseteq Y
    <3>1. "acquire" \notin Wild /\ "release" \notin Wild
      BY DEF Wild, Special
    <3>2. {"acquire", "release"} \subseteq X \ Wild
      BY <1>6, <3>1
    <3> QED BY <3>2
  <2>3. {"acquire", "release"} \subseteq X
    BY <1>6
  <2>4. Good(<<release(l)>>, X, {l}, {}) /\ Good(<<release(l)>>, Y, {l}, {})
    BY <2>2, <2>3, GoodLocks
  <2> QED BY <2>1, <2>2, <2>4
<1>8. PICK unused : unused = {q \in Procs : proc[q].state = "UNUSED"}
  OBVIOUS
<1>11. unused \in SUBSET Nat
  BY <1>8 DEF Procs
<1>9. CASE unused = {}
  <2>1. PICK code : code = <<release("ptable")>>
    OBVIOUS
  <2>2. Then(c, code) /\ proc' = proc
    BY <1>8, <1>9, <2>1 DEF allocproc_find
  <2>3. DOMAIN proc' = Procs /\ \A p \in Procs : DOMAIN proc'[p] = DOMAIN proc[p] /\ Stands(p)
    BY <2>2, AtRest DEF Core
  <2>4. \A k \in SUBSET Tokens : Leads(Held(c), Now(c), k) => Good(code, OpsOf(Running(c)) \ Wild, Held(c), k)
    BY <1>1, <1>5, <1>6, <1>7, <2>1
  <2>5. disk.queue \in Seq(Int) /\ ticks \in Int
    BY DEF Core, DataTypes
  <2>6. Calm(c, op, code)
    BY <1>2, <1>4, <2>2, <2>3, <2>4, <2>5 DEF Calm
  <2> QED BY <2>6, Calmly
<1>10. CASE unused # {}
  <2>1. PICK q \in unused : q = Min(unused)
    BY <1>10, <1>11, Least
  <2>2. PICK i, j, l, code : i = release("ptable") /\ j = Do("kalloc") /\ l = On("kstack", q) /\ code = <<i, j, l>>
    OBVIOUS
  <2>3. Then(c, code) /\ proc' = [proc EXCEPT ![q].state = "EMBRYO", ![q].pid = q]
    BY <1>8, <1>10, <2>1, <2>2 DEF allocproc_find
  <2>4. q \in Procs /\ proc[q].state = "UNUSED"
    BY <1>8, <2>1
  <2>5. DOMAIN proc = Procs /\ \A p \in Procs : DOMAIN proc[p] = {"state", "pid", "parent", "killed", "chan", "kstack", "intena", "r"}
    BY DEF Core, DataTypes
  <2>6. DOMAIN proc' = Procs /\ DOMAIN proc'[q] = DOMAIN proc[q] /\ proc'[q].state = "EMBRYO" /\ \A p \in Procs \ {q} : proc'[p] = proc[p]
    BY <2>3, <2>4, <2>5
  <2>7. DataTypes'
    <3>1. DOMAIN todo' = Apics /\ DOMAIN kern' = Procs
      BY <2>3, GoesTo DEF Core, Then
    <3>2. \A p \in Procs : DOMAIN proc'[p] = {"state", "pid", "parent", "killed", "chan", "kstack", "intena", "r"}
      BY <2>4, <2>5, <2>6
    <3> QED BY <1>4, <2>6, <3>1, <3>2 DEF Core, DataTypes, CpuType
  <2>8. \A d \in Apics : cpu[d].run # q
    BY <2>4 DEF Core, RunInv, Procs
  <2>9. \A r \in Threads : \A b \in 1 .. Len(Code(r)) : Code(r)[b].op \in {"kstack", "start", "unused"} => Code(r)[b].n # q
    BY <2>4, Unmade
  <2>10. Held(c)' = Held(c)
    <3>1. cpu[c].run # 0 => cpu[c].run \in Procs \ {q}
      BY <2>8 DEF Core, DataTypes, CpuType
    <3>2. cpu[c].run # 0 => (proc'[cpu[c].run].state = "RUNNING" <=> proc[cpu[c].run].state = "RUNNING")
      BY <2>6, <3>1
    <3>3. UNCHANGED <<cpu, lock>> /\ boot'.use_lock = boot.use_lock
      BY <1>4
    <3> QED BY <1>3, <3>2, <3>3, HeldStays
  <2>11. boot.use_lock
    <3> SUFFICES ASSUME ~ boot.use_lock PROVE FALSE
      OBVIOUS
    <3>1. t = <<"cpu", c>>
      BY <1>1, <1>3, Earliness
    <3>2. c = BSP
      <4>1. op \notin CpuOps
        BY <1>2 DEF CpuOps
      <4> QED BY <1>3, <3>1, <4>1 DEF OpsOf
    <3>3. "early" \in Held(c)
      BY <1>1, <1>3, <3>1, <3>2, Earliness
    <3> QED BY <1>5, <3>3
  <2>12. Good(code, X, {"ptable"}, {})
    <3>1. Good(<<j>>, X, {}, {})
      <4>1. PICK o \in X : o = "kalloc"
        BY <1>6
      <4>2. j = On(o, 0) /\ o \notin {"acquire", "release"}
        BY <2>2, <4>1 DEF Do
      <4>3. PICK m : m = On(o, 0) /\ m.op = "kalloc"
        BY <4>1, FieldsOn
      <4>4. Leads({}, m, {})
        BY <4>3 DEF Leads
      <4> QED BY <4>2, <4>3, <4>4, GoodOn, TokenSets
    <3>2. Good(<<l>>, X, {}, {})
      <4>1. PICK o \in X : o = "kstack"
        BY <1>6
      <4>2. l = On(o, q) /\ o \notin {"acquire", "release"} /\ q \in Int
        BY <2>2, <2>4, <4>1 DEF Procs
      <4>3. PICK m : m = On(o, q) /\ m.op = "kstack"
        BY <4>1, FieldsOn
      <4>4. Leads({}, m, {})
        BY <4>3 DEF Leads
      <4> QED BY <4>2, <4>3, <4>4, GoodOn, TokenSets
    <3> QED BY <1>7, <2>2, <3>1, <3>2, Good3
  <2>13. i.op = "release" /\ j.op = "kalloc" /\ l.op = "kstack" /\ l.n = q
    BY <2>2, FieldsLock, FieldsOn DEF Do
  <2>14. Len(code) = 3 /\ code[1] = i /\ code[2] = j /\ code[3] = l
    BY <2>2
  <2>15. Ordered(code)
    BY <2>13, <2>14 DEF Ordered, Clash, Special
  <2>16. ASSUME NEW b \in 1 .. Len(Tail(Todo(c)))
         PROVE  /\ \A a \in 1 .. Len(code) : ~ Clash(code[a], Tail(Todo(c))[b])
                /\ Tail(Todo(c))[b].op \in {"kstack", "start", "unused"} => Tail(Todo(c))[b].n \notin {q}
    <3>1. Tail(Todo(c))[b].op \notin Special
      BY <1>3, Later DEF Clash, Special
    <3>2. \A a \in 1 .. 3 : ~ Clash(code[a], Tail(Todo(c))[b])
      BY <2>13, <2>14, <3>1 DEF Clash, Special
    <3> QED BY <2>14, <3>1, <3>2 DEF Special
  <2>17. Fact(t, l)'
    BY <2>4, <2>6, <2>13 DEF Fact
  <2>18. ASSUME NEW a \in 1 .. Len(code)
         PROVE  /\ Fact(t, code[a])'
                /\ code[a].op \in {"kstack", "start"} =>
                     \A r \in Threads \ {t} : \A b \in 1 .. Len(Code(r)) :
                       Code(r)[b].op \in {"kstack", "start"} => Code(r)[b].n # code[a].n
    <3>1. CASE a = 3
      BY <2>9, <2>13, <2>14, <2>17, <3>1
    <3>2. CASE a # 3
      <4>1. PICK m : m = code[a] /\ m.op \notin Wild /\ m.op \notin {"kstack", "start"}
        BY <2>13, <2>14, <3>2 DEF Wild, Special
      <4>2. Fact(t, m)'
        BY <4>1, QuietFact
      <4> QED BY <4>1, <4>2
    <3> QED BY <3>1, <3>2
  <2>19. PICK P : P = {q}
    OBVIOUS
  <2>20. \A p \in Procs \ P : Standing(p)
    BY <2>6, <2>19 DEF Standing
  <2>21. Apartly(c, P)
    <3>1. proc'[q].state = "EMBRYO"
      BY <2>6
    <3> QED BY <2>4, <2>8, <2>9, <2>19, <3>1 DEF Apartly
  <2>22. \A k \in SUBSET Tokens : Leads(Held(c), Now(c), k) => Good(code, OpsOf(Running(c)), Held(c)', k)
    BY <1>1, <1>5, <1>6, <2>10, <2>12
  <2>23. boot'.cpus = boot.cpus /\ boot'.use_lock = boot.use_lock /\ boot'.use_lock
    BY <1>4, <2>11
  <2>24. Move(c, op, code, P)
    <3>1. \A b \in 1 .. Len(Tail(Todo(c))) :
            /\ \A a \in 1 .. Len(code) : ~ Clash(code[a], Tail(Todo(c))[b])
            /\ Tail(Todo(c))[b].op \in {"kstack", "start", "unused"} => Tail(Todo(c))[b].n \notin P
      BY <2>16, <2>19
    <3>2. \A a \in 1 .. Len(code) :
            /\ Fact(Running(c), code[a])'
            /\ code[a].op \in {"kstack", "start"} =>
                 \A r \in Threads \ {Running(c)} : \A b \in 1 .. Len(Code(r)) :
                   Code(r)[b].op \in {"kstack", "start"} => Code(r)[b].n # code[a].n
      <4>1. t = Running(c) /\ Running(c)' = Running(c)
        BY <1>1, <1>4 DEF Running
      <4> QED BY <2>18, <4>1
    <3> QED BY <1>2, <1>4, <2>3, <2>7, <2>15, <2>20, <2>21, <2>22, <2>23, <3>1, <3>2 DEF Move
  <2> QED BY <2>24, Moves
<1> QED BY <1>9, <1>10

LEMMA Join21 ==
  ASSUME NEW i, NEW j, NEW l
  PROVE  <<i, j>> \o <<l>> = <<i, j, l>>
<1>1. PICK S : S = {i, j, l}
  OBVIOUS
<1>2. <<i, j>> \in Seq(S) /\ <<l>> \in Seq(S) /\ <<i, j, l>> \in Seq(S)
  BY <1>1
<1>3. PICK s \in Seq(S), u \in Seq(S), r \in Seq(S) : s = <<i, j>> /\ u = <<l>> /\ r = <<i, j, l>>
  BY <1>2
<1>4. Len(s) = 2 /\ Len(u) = 1 /\ Len(r) = 3
  BY <1>3
<1>5. s \o u \in Seq(S) /\ Len(s \o u) = 3
      /\ \A x \in 1 .. 3 : (s \o u)[x] = IF x <= 2 THEN s[x] ELSE u[x - 2]
  BY <1>3, <1>4, ConcatProperties
<1>6. (s \o u)[1] = r[1] /\ (s \o u)[2] = r[2] /\ (s \o u)[3] = r[3]
  BY <1>3, <1>5
<1>7. \A x \in 1 .. 3 : (s \o u)[x] = r[x]
  <2>1. \A x \in 1 .. 3 : x = 1 \/ x = 2 \/ x = 3
    OBVIOUS
  <2> QED BY <1>6, <2>1
<1>8. s \o u = r
  BY <1>3, <1>4, <1>5, <1>7, SeqEqual
<1> QED BY <1>3, <1>8

\* What a thread still knows of the rest of its list.
LEMMA Rest ==
  ASSUME Core, NEW c \in Apics, Todo(c) # <<>>, NEW b \in 1 .. Len(Tail(Todo(c))), NEW i, i = Tail(Todo(c))[b],
         UNCHANGED <<cpu, lock, given>>, boot'.cpus = boot.cpus, \A d \in Apics : Asleep(d) => Asleep(d)',
         i.op \notin {"kstack", "start", "unused"}
  PROVE  Fact(Running(c), i)'
<1>1. PICK t \in Threads : t = Running(c)
  BY Runs DEF Core
<1>2. Fact(t, i)
  BY <1>1, Later DEF Core, FactInv
<1>3. \A d \in Apics : Running(d)' = Running(d)
  BY DEF Running
<1>4. Fact(t, i)'
  BY <1>2, <1>3, FactKept DEF Core
<1> QED BY <1>1, <1>3, <1>4

LEMMA allocproc_kstackStep ==
  ASSUME Core, NEW c \in Apics, allocproc_kstack(c)
  PROVE  Core'
<1>1. PICK op \in {"kstack", "start", "unused"} : op = "kstack" /\ Doing(c, op)
  BY DEF allocproc_kstack
<1>2. PICK q : q = Now(c).n
  OBVIOUS
<1>3. /\ q \in Procs /\ boot.use_lock /\ proc[q].state = "EMBRYO"
      /\ \A d \in Apics : cpu[d].run # q
      /\ \A r \in Threads \ {Running(c)} : \A b \in 1 .. Len(Code(r)) :
           Code(r)[b].op \in {"kstack", "start", "unused"} => Code(r)[b].n # q
      /\ \A b \in 1 .. Len(Tail(Todo(c))) : Tail(Todo(c))[b].op \notin Special
  BY <1>1, <1>2, Maker
<1>4. UNCHANGED <<cpu, lock, boot, work, ticks, disk, given>>
  BY DEF allocproc_kstack
<1>5. DOMAIN proc = Procs /\ \A p \in Procs : DOMAIN proc[p] = {"state", "pid", "parent", "killed", "chan", "kstack", "intena", "r"}
  BY DEF Core, DataTypes
<1>6. CASE Page(c) = 0
  <2>1. Then(c, <<>>) /\ proc' = [proc EXCEPT ![q].state = "UNUSED"]
    BY <1>2, <1>6 DEF allocproc_kstack
  <2>2. /\ DOMAIN proc' = Procs /\ DOMAIN proc'[q] = DOMAIN proc[q] /\ \A p \in Procs \ {q} : proc'[p] = proc[p]
        /\ proc'[q].state = (IF op = "start" THEN "RUNNABLE" ELSE "UNUSED")
    BY <1>1, <1>3, <1>5, <2>1
  <2> QED BY <1>1, <1>2, <1>4, <2>1, <2>2, MadeSteps
<1>7. CASE Page(c) # 0
  <2>1. PICK t \in Threads : t = Running(c) /\ Code(t) = Todo(c)
    BY Runs DEF Core
  <2>2. PICK X : X = OpsOf(t) /\ {"acquire", "release", "start"} \subseteq X
    <3>1. op \in OpsOf(t)
      BY <1>1, <2>1, Doings
    <3>2. op \notin CpuOps
      BY <1>1 DEF CpuOps
    <3>3. OpsOf(t) = CpuOps \cup BootOps \/ OpsOf(t) = ProcOps
      BY <3>1, <3>2 DEF OpsOf
    <3> QED BY <3>3 DEF CpuOps, BootOps, ProcOps
  <2>3. cpu[c].at = "run" /\ Todo(c) # <<>> /\ Now(c).op = "kstack" /\ cpu[c].proc = cpu[c].run
    BY <1>1, Doings
  <2>4. PICK r : r = Tail(Todo(c)) /\ r \in Seq(Instructions(X)) /\ Todo(c) \in Seq(Instructions(X))
    BY <2>1, <2>2, <2>3, Runs, Next1 DEF Core
  <2>5. Held(c) = {} /\ Path(r, {}, {})
    <3>1. PICK k \in SUBSET Tokens : Leads(Held(c), Now(c), k) /\ Path(r, k, {})
      BY <2>3, <2>4, Next1 DEF Core
    <3> QED BY <2>3, <3>1 DEF Leads
  <2>6. PICK i, j, l, code : i = acquire("ptable") /\ j = On("start", q) /\ l = release("ptable") /\ code = <<i, j, l>>
    OBVIOUS
  <2>7. Under("ptable", <<On("start", q)>>) = code
    <3>1. <<i>> \o <<j>> = <<i, j>> /\ <<i, j>> \o <<l>> = <<i, j, l>>
      BY Join2, Join21
    <3> QED BY <2>6, <3>1 DEF Under
  <2>8. Good(code, X, {}, {})
    <3>1. PICK n \in Locks : n = "ptable"
      BY DEF Locks
    <3>2. Good(<<acquire(n)>>, X, {}, {n}) /\ Good(<<release(n)>>, X, {n}, {})
      BY <2>2, GoodLocks
    <3>3. PICK o \in {"tidy", "intena", "kill", "start", "unused", "wakeup1"} \cap X : o = "start"
      BY <2>2
    <3>4. q \in Int
      BY <1>3 DEF Procs
    <3>5. Good(<<On(o, q)>>, X, {"ptable"}, {"ptable"})
      BY <3>3, <3>4, GoodOps
    <3> QED BY <2>6, <3>1, <3>2, <3>3, <3>5, Good3
  <2>9. i.op = "acquire" /\ j.op = "start" /\ j.n = q /\ l.op = "release"
    BY <2>6, FieldsLock, FieldsOn
  <2>10. Len(code) = 3 /\ code[1] = i /\ code[2] = j /\ code[3] = l
    BY <2>6
  <2>11. PICK S : S = code \o r
    OBVIOUS
  <2>12. S \in Seq(Instructions(X)) /\ Path(S, {}, {})
    BY <2>4, <2>5, <2>8, <2>11, PathConcat, ConcatProperties DEF Good
  <2>13. Ordered(S)
    <3>1. Ordered(r)
      BY <2>1, <2>3, <2>4, OrderedTail DEF Core, OrderInv
    <3>2. Ordered(code)
      BY <2>9, <2>10 DEF Ordered, Clash, Special
    <3>3. \A a \in 1 .. 3, b \in 1 .. Len(r) : ~ Clash(code[a], r[b])
      BY <1>3, <2>4, <2>9, <2>10 DEF Clash, Special
    <3> QED BY <2>4, <2>8, <2>10, <2>11, <3>1, <3>2, <3>3, OrderedConcat DEF Good
  <2>14. PICK u \in Threads : u = <<"proc", q>> /\ u # t
    <3>1. t # <<"proc", q>>
      <4>1. CASE cpu[c].run = 0
        <5>1. t = <<"cpu", c>>
          BY <2>1, <4>1 DEF Running
        <5> QED BY <5>1
      <4>2. CASE cpu[c].run # 0
        <5>1. t = <<"proc", cpu[c].run>>
          BY <2>1, <4>2 DEF Running
        <5> QED BY <1>3, <5>1
      <4> QED BY <4>1, <4>2
    <3> QED BY <1>3, <3>1, Names
  <2>15. proc' = [proc EXCEPT ![q].kstack = Page(c), ![q].parent = Me(c)]
    BY <1>2, <1>7 DEF allocproc_kstack
  <2>16. DOMAIN proc' = Procs /\ \A p \in Procs : DOMAIN proc'[p] = DOMAIN proc[p] /\ proc'[p].state = proc[p].state
    BY <1>3, <1>5, <2>15
  <2>17. /\ cpu[c].run = 0 => todo' = [todo EXCEPT ![c] = S] /\ kern' = [kern EXCEPT ![q] = forkret]
         /\ cpu[c].run # 0 => kern' = [kern EXCEPT ![cpu[c].run] = S, ![q] = forkret] /\ todo' = todo
    BY <1>2, <1>7, <2>4, <2>7, <2>11 DEF allocproc_kstack
  <2>18. DOMAIN todo = Apics /\ DOMAIN kern = Procs /\ cpu[c].run \in Procs \cup {0}
    BY DEF Core, DataTypes, CpuType
  <2>19. \A v \in Threads : Code(v)' = IF v = t THEN S ELSE IF v = u THEN forkret ELSE Code(v)
    <3>1. ASSUME NEW d \in Apics, NEW v \in Threads, v = <<"cpu", d>>
          PROVE  Code(v)' = IF v = t THEN S ELSE IF v = u THEN forkret ELSE Code(v)
      <4>1. v # u /\ Code(v) = todo[d] /\ Code(v)' = todo'[d]
        BY <1>3, <2>14, <3>1, Names
      <4>2. v = t <=> (cpu[c].run = 0 /\ d = c)
        BY <2>1, <3>1 DEF Running
      <4> QED BY <2>17, <2>18, <4>1, <4>2
    <3>2. ASSUME NEW p \in Procs, NEW v \in Threads, v = <<"proc", p>>
          PROVE  Code(v)' = IF v = t THEN S ELSE IF v = u THEN forkret ELSE Code(v)
      <4>1. (v = u <=> p = q) /\ Code(v) = kern[p] /\ Code(v)' = kern'[p]
        BY <2>14, <3>2, Names
      <4>2. v = t <=> (cpu[c].run # 0 /\ p = cpu[c].run)
        BY <2>1, <3>2 DEF Running
      <4> QED BY <1>3, <2>17, <2>18, <4>1, <4>2
    <3> QED BY <3>1, <3>2, Kinds
  <2>20. DataTypes'
    <3>1. DOMAIN todo' = Apics /\ DOMAIN kern' = Procs
      BY <2>17, <2>18
    <3>2. \A p \in Procs : DOMAIN proc'[p] = {"state", "pid", "parent", "killed", "chan", "kstack", "intena", "r"}
      BY <1>5, <2>16
    <3> QED BY <1>4, <2>16, <3>1, <3>2 DEF Core, DataTypes, CpuType
  <2>21. \A d \in Apics : Mine(d)' = Mine(d) /\ cpu'[d] = cpu[d]
    BY <1>4 DEF Mine
  <2>22. Held(c)' = {}
    <3>1. UNCHANGED <<cpu, lock>> /\ boot'.use_lock = boot.use_lock
      BY <1>4
    <3>2. cpu[c].run # 0 => (proc'[cpu[c].run].state = "RUNNING" <=> proc[cpu[c].run].state = "RUNNING")
      BY <2>16, <2>18
    <3> QED BY <2>3, <2>5, <3>1, <3>2, HeldStays
  <2>23. Todo(c)' = S
    BY <1>3, <1>4, <2>17, <2>18 DEF Todo
  <2>24. Sane(c)'
    <3>1. Sane(c)
      BY DEF Core, SaneInv
    <3> QED BY <2>3, <2>12, <2>21, <2>22, <2>23, <3>1 DEF Sane
  <2>25. ~ Asleep(c)
    BY <2>3, Awoken DEF Core
  <2>26. ASSUME NEW d \in Apics, Asleep(d) PROVE Asleep(d)'
    <3>1. PICK v \in Threads : v = <<"cpu", d>>
      BY Names
    <3>2. v # u /\ v # t
      BY <2>1, <2>14, <2>25, <2>26, <3>1 DEF Running
    <3> QED BY <2>19, <2>21, <2>26, <3>1, <3>2, SleepsOn
  <2>27. ASSUME NEW a \in 1 .. Len(S)
         PROVE  \/ S[a].op \notin Wild \/ S[a] = j
                \/ \E b \in 1 .. Len(r) : S[a] = r[b]
    <3>1. PICK I : I = Instructions(X) /\ code \in Seq(I) /\ r \in Seq(I) /\ a \in 1 .. Len(code \o r)
      BY <2>4, <2>8, <2>11 DEF Good
    <3>2. \/ a \in 1 .. Len(code) /\ (code \o r)[a] = code[a]
          \/ \E b \in 1 .. Len(r) : (code \o r)[a] = r[b]
      BY <3>1, InConcat
    <3> QED BY <2>9, <2>10, <2>11, <3>2 DEF Wild, Special
  <2>28. ASSUME NEW b \in 1 .. Len(r), NEW m, m = r[b] PROVE Fact(t, m)'
    <3>1. m.op \notin {"kstack", "start", "unused"}
      BY <1>3, <2>4, <2>28 DEF Special
    <3>2. Fact(Running(c), m)'
      BY <1>4, <2>3, <2>4, <2>26, <2>28, <3>1, Rest
    <3>3. Running(c)' = Running(c)
      BY <1>4 DEF Running
    <3> QED BY <2>1, <3>2, <3>3
  <2>29. Fact(t, j)'
    <3>1. proc'[q].state = "EMBRYO" /\ kern'[q] = forkret
      BY <1>3, <2>16, <2>17, <2>18
    <3> QED BY <1>3, <2>9, <3>1 DEF Fact
  <2>30. ASSUME NEW a \in 1 .. Len(S) PROVE Fact(t, S[a])'
    <3>1. CASE S[a].op \notin Wild
      BY <3>1, QuietFact
    <3>2. CASE S[a] = j
      BY <2>29, <3>2
    <3>3. CASE \E b \in 1 .. Len(r) : S[a] = r[b]
      <4>1. PICK m : m = S[a]
        OBVIOUS
      <4>2. Fact(t, m)'
        BY <2>28, <3>3, <4>1
      <4> QED BY <4>1, <4>2
    <3> QED BY <2>27, <3>1, <3>2, <3>3
  <2>31. ASSUME NEW a \in 1 .. Len(S), S[a].op \in {"kstack", "start"}
         PROVE  \A v \in Threads \ {t} : \A b \in 1 .. Len(Code(v)) :
                  Code(v)[b].op \in {"kstack", "start"} => Code(v)[b].n # S[a].n
    <3>1. S[a] = j
      BY <1>3, <2>4, <2>27, <2>31 DEF Wild, Special
    <3> QED BY <1>3, <2>1, <2>9, <3>1
  <2>32. PICK U : U = forkret /\ U \in Seq(Instructions(OpsOf(u) \ Wild))
    <3>3. OpsOf(u) = ProcOps
      BY <2>14 DEF OpsOf
    <3>4. PICK Y : Y = OpsOf(u) \ Wild
      OBVIOUS
    <3>1. {"acquire", "release"} \subseteq Y /\ {"forkret", "iret"} \subseteq Y
      BY <3>3, <3>4 DEF ProcOps, Wild, Special
    <3>2. Good(forkret, Y, {"ptable"}, {})
      BY <3>1, GoodSmall
    <3> QED BY <3>2, <3>4 DEF Good
  <2>33. PICK P : P = {}
    OBVIOUS
  <2>34. /\ \A p \in P : FALSE
         /\ \A p \in Procs \ P : proc'[p].state = proc[p].state
         /\ P \subseteq Procs /\ boot'.use_lock
    BY <1>3, <1>4, <2>16, <2>33
  <2>35. \A d \in Apics : u # <<"cpu", d>>
    BY <1>3, <2>14, Names
  <2>36. \A p \in Procs : u = <<"proc", p>> => proc[p].state = "EMBRYO" /\ proc'[p].state = "EMBRYO"
    BY <1>3, <2>14, <2>16
  <2>37. /\ boot'.cpus = boot.cpus /\ boot'.use_lock = boot.use_lock /\ given' = given /\ cpu'[c].run = cpu[c].run
         /\ \A m, n \in 1 .. Len(boot'.cpus) : boot'.cpus[m] = boot'.cpus[n] => m = n
         /\ IF cpu[c].run = 0 THEN cpu'[c].proc = 0 ELSE cpu'[c].proc = cpu[c].proc
    BY <1>4, <2>3 DEF Core, OnceInv
  <2>38. Turns(c, t, S, u, U, P)
    <3>1. S \in Seq(Instructions(OpsOf(t)))
      BY <2>2, <2>12
    <3>2. \A v \in Threads : Code(v)' = IF v = t THEN S ELSE IF v = u THEN U ELSE Code(v)
      BY <2>19, <2>32
    <3> QED BY <2>1, <2>13, <2>14, <2>20, <2>21, <2>24, <2>25, <2>30, <2>31, <2>32, <2>34, <2>35, <2>36, <2>37,
               <3>1, <3>2 DEF Turns
  <2> QED BY <2>38, Turn
<1> QED BY <1>6, <1>7

\* The first processor, before any process runs.
LEMMA Boots ==
  ASSUME Core, NEW c \in Apics, NEW op \in BootOps \ ProcOps, Doing(c, op)
  PROVE  /\ c = BSP /\ cpu[c].run = 0 /\ cpu[c].proc = 0
         /\ Running(c) = <<"cpu", BSP>> /\ OpsOf(Running(c)) = CpuOps \cup BootOps
         /\ cpu[c].at = "run" /\ Todo(c) # <<>> /\ Now(c).op = op
<1>1. Running(c) \in Threads /\ op \in OpsOf(Running(c)) /\ cpu[c].at = "run" /\ Todo(c) # <<>> /\ Now(c).op = op
  BY Doings
<1>2. op # "back" => cpu[c].proc = cpu[c].run
  BY Doings
<1>3. op \notin CpuOps \cup ProcOps
  BY DEF CpuOps, BootOps, ProcOps
<1>4. Running(c) = <<"cpu", BSP>> /\ OpsOf(Running(c)) = CpuOps \cup BootOps
  BY <1>1, <1>3, OfBoot
<1>5. c = BSP /\ cpu[c].run = 0
  BY <1>4 DEF Running
<1>6. op # "back"
  BY <1>3 DEF CpuOps
<1> QED BY <1>1, <1>2, <1>4, <1>5, <1>6

\* Its step that only changes how it goes on, and starts another.
LEMMA lapicstartapStep ==
  ASSUME Core, NEW c \in Apics, lapicstartap(c)
  PROVE  Core'
<1>1. PICK op \in BootOps \ ProcOps : op = "lapicstartap" /\ Doing(c, op)
  BY DEF lapicstartap, BootOps, ProcOps
<1>2. /\ c = BSP /\ cpu[c].run = 0 /\ cpu[c].proc = 0
      /\ Running(c) = <<"cpu", BSP>> /\ OpsOf(Running(c)) = CpuOps \cup BootOps
      /\ cpu[c].at = "run" /\ Todo(c) # <<>> /\ Now(c).op = "lapicstartap"
  BY <1>1, Boots
<1>3. PICK t \in Threads : t = Running(c) /\ t = <<"cpu", c>> /\ Code(t) = Todo(c) /\ Todo(c) = todo[c]
  BY <1>2, Runs DEF Core
<1>4. PICK X : X = OpsOf(t)
  OBVIOUS
<1>5. PICK S : S = Tail(Todo(c)) /\ S \in Seq(Instructions(X)) /\ Todo(c) \in Seq(Instructions(X))
  BY <1>2, <1>3, <1>4, Next1, Runs DEF Core
<1>6. 1 \in 1 .. Len(Todo(c)) /\ Todo(c)[1] = Now(c)
  BY <1>2, <1>5, HeadTailProperties, EmptySeq, LenProperties DEF Now
<1>7. PICK n : n = Now(c).n /\ n \in 1 .. Len(boot.cpus) /\ boot.cpus[n] # BSP /\ Asleep(boot.cpus[n])
  <2>1. Fact(t, Now(c))
    BY <1>3, <1>6 DEF Core, FactInv
  <2> QED BY <1>2, <2>1 DEF Fact
<1>8. PICK d \in Apics : d = boot.cpus[n] /\ d # c /\ Asleep(d)
  <2>1. boot.cpus \in Seq(Apics)
    BY DEF Core, DataTypes
  <2> QED BY <1>2, <1>7, <2>1, ElementOfSeq
<1>9. UNCHANGED <<cpu, lock, kern, proc, work, ticks, disk, given>> /\ boot' = [boot EXCEPT !.stack = Page(c)]
  BY DEF lapicstartap
<1>10. todo' = [todo EXCEPT ![c] = Tail(@), ![d] = mpenter]
  BY <1>7, <1>8 DEF lapicstartap
<1>11. DataTypes /\ DOMAIN todo = Apics /\ DOMAIN boot = {"cpus", "started", "stack", "use_lock", "locking", "route", "first"}
  BY DEF Core, DataTypes
<1>12. DOMAIN todo' = Apics /\ todo'[c] = S /\ todo'[d] = mpenter /\ \A e \in Apics \ {c, d} : todo'[e] = todo[e]
  BY <1>3, <1>5, <1>8, <1>10, <1>11
<1>13. DOMAIN boot' = DOMAIN boot /\ boot'.cpus = boot.cpus /\ boot'.use_lock = boot.use_lock
  BY <1>9, <1>11
<1>14. DataTypes'
  BY <1>9, <1>11, <1>12, <1>13 DEF DataTypes, CpuType
<1>15. PICK u \in Threads : u = <<"cpu", d>> /\ u # t
  <2>1. <<"cpu", d>> # <<"cpu", c>>
    BY <1>8
  <2>2. <<"cpu", d>> \in Threads
    BY Names
  <2> QED BY <1>3, <2>1, <2>2
<1>16. \A v \in Threads : Code(v)' = IF v = t THEN S ELSE IF v = u THEN mpenter ELSE Code(v)
  <2>1. ASSUME NEW e \in Apics, NEW v \in Threads, v = <<"cpu", e>>
        PROVE  Code(v)' = IF v = t THEN S ELSE IF v = u THEN mpenter ELSE Code(v)
    <3>1. Code(v) = todo[e] /\ Code(v)' = todo'[e] /\ (v = t <=> e = c) /\ (v = u <=> e = d)
      BY <1>3, <1>15, <2>1, Names
    <3> QED BY <1>12, <3>1
  <2>2. ASSUME NEW p \in Procs, NEW v \in Threads, v = <<"proc", p>>
        PROVE  Code(v)' = IF v = t THEN S ELSE IF v = u THEN mpenter ELSE Code(v)
    <3>1. Code(v) = kern[p] /\ Code(v)' = kern'[p] /\ v # t /\ v # u
      BY <1>3, <1>15, <2>2, Names
    <3> QED BY <1>9, <3>1
  <2> QED BY <2>1, <2>2, Kinds
<1>17. \A e \in Apics : Mine(e)' = Mine(e) /\ cpu'[e] = cpu[e] /\ Running(e)' = Running(e)
  BY <1>9 DEF Mine, Running
<1>18. Held(c)' = Held(c)
  <2>1. UNCHANGED <<cpu, lock>> /\ proc' = proc
    BY <1>9
  <2> QED BY <1>2, <1>13, <2>1, HeldStays
<1>19. PICK k \in SUBSET Tokens : Leads(Held(c), Now(c), k) /\ Path(S, k, {})
  BY <1>2, <1>5, Next1 DEF Core
<1>20. k = Held(c)
  BY <1>2, <1>19, Level DEF LevelOps
<1>21. Todo(c)' = S
  BY <1>2, <1>9, <1>12 DEF Todo
<1>22. Sane(c)'
  <2>1. Sane(c)
    BY DEF Core, SaneInv
  <2> QED BY <1>2, <1>9, <1>17, <1>18, <1>19, <1>20, <1>21, <2>1 DEF Sane
<1>23. ~ Asleep(c)
  BY <1>2, Awoken DEF Core
<1>24. ASSUME NEW e \in Apics \ {d}, Asleep(e) PROVE Asleep(e)'
  <2>1. todo'[e] = todo[e]
    BY <1>12, <1>23, <1>24
  <2> QED BY <1>17, <1>24, <2>1 DEF Asleep
<1>25. Ordered(S) /\ \A b \in 1 .. Len(S) : ~ Clash(Now(c), S[b])
  <2>1. Ordered(Todo(c))
    BY <1>3 DEF Core, OrderInv
  <2> QED BY <1>2, <1>5, <2>1, OrderedTail DEF Now
<1>26. ASSUME NEW b \in 1 .. Len(S), NEW i, i = S[b] PROVE Fact(t, i)'
  <2>1. Fact(t, i)
    <3>1. PICK e \in 1 .. Len(Todo(c)) : Todo(c)[e] = i
      BY <1>2, <1>5, <1>26, InTail
    <3> QED BY <1>3, <3>1 DEF Core, FactInv
  <2>2. i.op \notin {"lapicstartap", "mpinit"} /\ (i.op = "startothers" => n < i.n)
    BY <1>2, <1>7, <1>25, <1>26 DEF Clash
  <2>3. i.op = "startothers" =>
          i.n >= 1 /\ \A j \in 1 .. Len(boot'.cpus) : i.n <= j /\ boot'.cpus[j] # BSP => Asleep(boot.cpus[j])'
    <3> HAVE i.op = "startothers"
    <3>1. i.n \in Int /\ i.n >= 1
      <4>1. i \in Instructions(X)
        BY <1>5, <1>26, ElementOfSeq
      <4> QED BY <2>1, <4>1 DEF Fact, Instructions
    <3>2. ASSUME NEW j \in 1 .. Len(boot.cpus), i.n <= j, boot.cpus[j] # BSP PROVE Asleep(boot.cpus[j])'
      <4>1. PICK e \in Apics : e = boot.cpus[j]
        BY <1>11, <3>2, ElementOfSeq DEF DataTypes
      <4>2. Asleep(e)
        BY <2>1, <3>2, <4>1 DEF Fact
      <4>3. j # n
        <5>1. j \in Int /\ n \in Int
          BY <1>7
        <5> QED BY <2>2, <3>1, <3>2, <5>1
      <4>4. e # d
        BY <1>7, <1>8, <3>2, <4>1, <4>3 DEF Core, OnceInv
      <4>5. Asleep(e)'
        BY <1>24, <4>2, <4>4
      <4> QED BY <1>13, <4>1, <4>5 DEF Asleep, Mine
    <3> QED BY <1>13, <3>1, <3>2
  <2>4. i.op \in {"kstack", "start"} => i.n \in Procs /\ proc'[i.n].state = "EMBRYO"
    BY <1>9, <2>1 DEF Fact
  <2>5. i.op = "start" => kern'[i.n] = forkret
    BY <1>9, <2>1 DEF Fact
  <2>6. i.op = "unused" => i.n \in Procs /\ proc'[i.n].state = "ZOMBIE" /\ \E e \in Apics : Running(e)' = t /\ lock'["ptable"] = e
    BY <1>9, <1>17, <2>1 DEF Fact
  <2>7. boot'.cpus = boot.cpus
    BY <1>13
  <2> QED BY <2>2, <2>3, <2>4, <2>5, <2>6, <2>7 DEF Fact
<1>27. ASSUME NEW a \in 1 .. Len(S) PROVE Fact(t, S[a])'
  <2>1. PICK i : i = S[a]
    OBVIOUS
  <2>2. Fact(t, i)'
    BY <1>26, <2>1
  <2> QED BY <2>1, <2>2
<1>28. ASSUME NEW a \in 1 .. Len(S), S[a].op \in {"kstack", "start"}
       PROVE  \A v \in Threads \ {t} : \A b \in 1 .. Len(Code(v)) :
                Code(v)[b].op \in {"kstack", "start"} => Code(v)[b].n # S[a].n
  <2>1. PICK e \in 1 .. Len(Code(t)) : Code(t)[e] = S[a]
    BY <1>2, <1>3, <1>5, InTail
  <2> QED BY <1>3, <1>28, <2>1 DEF Core, OnceInv
<1>29. PICK U : U = mpenter /\ U \in Seq(Instructions(OpsOf(u) \ Wild)) /\ Path(U, {}, {})
  <2>1. PICK Y : Y = OpsOf(u) \ Wild
    OBVIOUS
  <2>3. CpuOps \subseteq Y
    <3>1. CpuOps \subseteq OpsOf(u)
      BY <1>15 DEF OpsOf
    <3>2. CpuOps \cap Wild = {}
      BY DEF CpuOps, Wild, Special
    <3> QED BY <2>1, <3>1, <3>2
  <2>2. Good(mpenter, Y, {}, {})
    BY <2>3, GoodStart
  <2> QED BY <2>1, <2>2 DEF Good
<1>30. cpu[d].run = 0 /\ cpu[d].at = "run" /\ cpu[d].proc = 0 /\ Held(d) = {}
  <2>1. cpu[d] = Off /\ Mine(d) = {}
    BY <1>8 DEF Asleep
  <2>2. cpu[d].run = 0 /\ cpu[d].at = "run" /\ cpu[d].proc = 0
    BY <2>1 DEF Off
  <2> QED BY <1>2, <1>8, <2>1, <2>2 DEF Held
<1>31. PICK P : P = {}
  OBVIOUS
<1>32. /\ \A p \in P : FALSE
       /\ \A p \in Procs \ P : proc'[p] = proc[p]
       /\ P \subseteq Procs
  BY <1>9, <1>31
<1>33. /\ \A e \in Apics : u = <<"cpu", e>> =>
            t = <<"cpu", BSP>> /\ cpu[e].run = 0 /\ cpu[e].at = "run" /\ cpu[e].proc = 0 /\ Path(U, Held(e), {})
       /\ \A p \in Procs : u # <<"proc", p>>
  <2>1. \A e \in Apics : u = <<"cpu", e>> => e = d
    BY <1>15
  <2> QED BY <1>2, <1>3, <1>15, <1>29, <1>30, <2>1
<1>34. ~ boot'.use_lock => ~ cpu'[BSP].IF /\ cpu'[BSP].intena # TRUE /\ \A p \in Procs : proc'[p].state = "UNUSED"
  BY <1>9, <1>13 DEF Core, EarlyInv
<1>35. /\ given' = given /\ cpu'[c].run = cpu[c].run /\ cpu'[c].proc = 0
       /\ \A m, o \in 1 .. Len(boot'.cpus) : boot'.cpus[m] = boot'.cpus[o] => m = o
  BY <1>2, <1>9, <1>13 DEF Core, OnceInv
<1>36. Turns(c, t, S, u, U, P)
  <2>1. S \in Seq(Instructions(OpsOf(t)))
    BY <1>4, <1>5
  <2>2. \A v \in Threads : Code(v)' = IF v = t THEN S ELSE IF v = u THEN U ELSE Code(v)
    BY <1>16, <1>29
  <2> QED BY <1>2, <1>3, <1>13, <1>14, <1>15, <1>17, <1>22, <1>23, <1>25, <1>27, <1>28, <1>29, <1>32, <1>33, <1>34, <1>35,
             <2>1, <2>2 DEF Turns
<1> QED BY <1>36, Turn

LEMMA mpinitStep ==
  ASSUME Core, NEW c \in Apics, mpinit(c)
  PROVE  Core'
<1>1. PICK op \in BootOps \ ProcOps : op = "mpinit" /\ Doing(c, op)
  BY DEF mpinit, BootOps, ProcOps
<1>2. /\ c = BSP /\ cpu[c].run = 0 /\ cpu[c].proc = 0
      /\ Running(c) = <<"cpu", BSP>> /\ OpsOf(Running(c)) = CpuOps \cup BootOps
      /\ cpu[c].at = "run" /\ Todo(c) # <<>> /\ Now(c).op = "mpinit"
  BY <1>1, Boots
<1>3. PICK t \in Threads : t = Running(c) /\ t = <<"cpu", c>> /\ Code(t) = Todo(c) /\ Todo(c) = todo[c]
  BY <1>2, Runs DEF Core
<1>4. PICK X : X = OpsOf(t) /\ X = CpuOps \cup BootOps
  BY <1>2, <1>3
<1>5. PICK r : r = Tail(Todo(c)) /\ r \in Seq(Instructions(X)) /\ Todo(c) \in Seq(Instructions(X))
  BY <1>2, <1>3, <1>4, Next1, Runs DEF Core
<1>6. 1 \in 1 .. Len(Todo(c)) /\ Todo(c)[1] = Now(c)
  BY <1>2, <1>5, HeadTailProperties, EmptySeq, LenProperties DEF Now
<1>7. PICK j \in Int : j = Now(c).n /\ j >= 1
  <2>1. Fact(t, Now(c))
    BY <1>3, <1>6 DEF Core, FactInv
  <2>2. Now(c).n \in Int
    BY <1>1, Doings
  <2> QED BY <1>2, <2>1, <2>2 DEF Fact
<1>8. /\ \A d \in Apics \ {BSP} : Asleep(d)
      /\ \A m \in 1 .. Len(boot.cpus) : \E k \in 1 .. Len(given.table) :
           k < j /\ given.table[k].type = "MPPROC" /\ given.table[k].apicid = boot.cpus[m]
  <2>1. Fact(t, Now(c))
    BY <1>3, <1>6 DEF Core, FactInv
  <2> QED BY <1>2, <1>7, <2>1 DEF Fact
<1>9. UNCHANGED <<cpu, lock, proc, work, ticks, disk, given>>
  BY DEF mpinit
<1>10. DataTypes /\ DOMAIN boot = {"cpus", "started", "stack", "use_lock", "locking", "route", "first"} /\ boot.cpus \in Seq(Apics)
  BY DEF Core, DataTypes
<1>11. PICK table : table = given.table /\ table \in Seq([type : STRING, apicid : Apics])
         /\ \A k, m \in 1 .. Len(table) :
              table[k].type = "MPPROC" /\ table[m].type = "MPPROC" /\ table[k].apicid = table[m].apicid => k = m
  BY MachineAssumption DEF Core, DataTypes
\* How it goes on, and what it has found.
<1>12. PICK code, n :
         /\ n \in Int /\ j <= n /\ code \in {<<>>, <<On("mpinit", n)>>} /\ Then(c, code)
         /\ \/ boot' = boot
            \/ /\ j \in 1 .. Len(table) /\ n = j + 1 /\ table[j].type = "MPPROC" /\ code = <<On("mpinit", n)>>
               /\ boot' = [boot EXCEPT !.cpus = Append(@, table[j].apicid)]
  <2>1. CASE j > Len(given.table)
    <3>1. Then(c, <<>>) /\ boot' = boot
      BY <1>7, <2>1 DEF mpinit
    <3> QED BY <3>1
  <2>2. CASE ~ (j > Len(given.table))
    <3>1. PICK n : n = IF table[j].type = "other" THEN j ELSE j + 1
      OBVIOUS
    <3>2. PICK code : code = <<On("mpinit", n)>>
      OBVIOUS
    <3>3. /\ Then(c, code)
          /\ boot' = IF table[j].type = "MPPROC" /\ Len(boot.cpus) < NCPU
                     THEN [boot EXCEPT !.cpus = Append(@, table[j].apicid)] ELSE boot
      BY <1>7, <1>11, <2>2, <3>1, <3>2 DEF mpinit
    <3>4. n \in Int /\ j <= n /\ (table[j].type = "MPPROC" => n = j + 1)
      BY <3>1
    <3>5. j \in 1 .. Len(table)
      BY <1>7, <1>11, <2>2, LenProperties
    <3>6. CASE boot' = boot
      BY <3>2, <3>3, <3>4, <3>6
    <3>7. CASE boot' # boot
      <4>1. table[j].type = "MPPROC" /\ boot' = [boot EXCEPT !.cpus = Append(@, table[j].apicid)]
        BY <3>3, <3>7
      <4> QED BY <3>2, <3>3, <3>4, <3>5, <4>1
    <3> QED BY <3>6, <3>7
  <2> QED BY <2>1, <2>2
<1>13. /\ DOMAIN boot' = DOMAIN boot /\ boot'.use_lock = boot.use_lock /\ boot'.cpus \in Seq(Apics)
       /\ \A m \in 1 .. Len(boot'.cpus) : \E k \in 1 .. Len(table) :
            k < n /\ table[k].type = "MPPROC" /\ table[k].apicid = boot'.cpus[m]
       /\ \A m, o \in 1 .. Len(boot'.cpus) : boot'.cpus[m] = boot'.cpus[o] => m = o
  <2>0. \A k \in 1 .. Len(table) : k \in Int
    OBVIOUS
  <2>1. CASE boot' = boot
    <3>1. \A m \in 1 .. Len(boot.cpus) : \E k \in 1 .. Len(table) :
            k < n /\ table[k].type = "MPPROC" /\ table[k].apicid = boot.cpus[m]
      BY <1>8, <1>11, <1>12, <2>0
    <3> QED BY <1>10, <2>1, <3>1 DEF Core, OnceInv
  <2>2. CASE boot' # boot
    <3>1. /\ j \in 1 .. Len(table) /\ n = j + 1 /\ table[j].type = "MPPROC"
          /\ boot' = [boot EXCEPT !.cpus = Append(@, table[j].apicid)]
      BY <1>12, <2>2
    <3>2. PICK s \in Seq(Apics), e \in Apics : s = boot.cpus /\ e = table[j].apicid
      <4>1. table[j] \in [type : STRING, apicid : Apics]
        BY <1>11, <3>1, ElementOfSeq
      <4> QED BY <1>10, <4>1
    <3>3. boot'.cpus = Append(s, e) /\ DOMAIN boot' = DOMAIN boot /\ boot'.use_lock = boot.use_lock
      BY <1>10, <3>1, <3>2
    <3>4. PICK l \in Nat : l = Len(s)
      BY <3>2, LenProperties
    <3>5. /\ Append(s, e) \in Seq(Apics) /\ Len(Append(s, e)) = l + 1
          /\ \A m \in 1 .. l : Append(s, e)[m] = s[m]
          /\ Append(s, e)[l + 1] = e
      BY <3>2, <3>4, AppendProperties
    <3>6. \A m \in 1 .. l : \E k \in 1 .. Len(table) : k < j /\ table[k].type = "MPPROC" /\ table[k].apicid = s[m]
      BY <1>8, <1>11, <3>2, <3>4
    <3>7. ASSUME NEW m \in 1 .. l + 1
          PROVE  \E k \in 1 .. Len(table) : k < n /\ table[k].type = "MPPROC" /\ table[k].apicid = Append(s, e)[m]
      <4>1. CASE m = l + 1
        <5>1. j < n /\ table[j].apicid = Append(s, e)[m]
          BY <3>1, <3>2, <3>5, <4>1
        <5> QED BY <3>1, <5>1
      <4>2. CASE m \in 1 .. l
        <5>1. PICK k \in 1 .. Len(table) : k < j /\ table[k].type = "MPPROC" /\ table[k].apicid = s[m]
          BY <3>6, <4>2
        <5>2. k < n /\ table[k].apicid = Append(s, e)[m]
          BY <3>1, <3>5, <4>2, <5>1
        <5> QED BY <5>1, <5>2
      <4>3. m = l + 1 \/ m \in 1 .. l
        OBVIOUS
      <4> QED BY <4>1, <4>2, <4>3
    <3>8. \A m \in 1 .. l : s[m] # e
      <4> SUFFICES ASSUME NEW m \in 1 .. l, s[m] = e PROVE FALSE
        OBVIOUS
      <4>1. PICK k \in 1 .. Len(table) : k < j /\ table[k].type = "MPPROC" /\ table[k].apicid = s[m]
        BY <3>6
      <4>2. k = j
        BY <1>11, <3>1, <3>2, <4>1
      <4> QED BY <1>7, <4>1, <4>2
    <3>9. \A m, o \in 1 .. l : s[m] = s[o] => m = o
      BY <3>2, <3>4 DEF Core, OnceInv
    <3>10. \A m, o \in 1 .. l + 1 : Append(s, e)[m] = Append(s, e)[o] => m = o
      <4> SUFFICES ASSUME NEW m \in 1 .. l + 1, NEW o \in 1 .. l + 1, Append(s, e)[m] = Append(s, e)[o] PROVE m = o
        OBVIOUS
      <4>1. \A x \in 1 .. l + 1 : x \in 1 .. l \/ x = l + 1
        OBVIOUS
      <4>2. CASE m \in 1 .. l /\ o \in 1 .. l
        BY <3>5, <3>9, <4>2
      <4>3. CASE m = l + 1 /\ o \in 1 .. l
        BY <3>5, <3>8, <4>3
      <4>4. CASE o = l + 1 /\ m \in 1 .. l
        BY <3>5, <3>8, <4>4
      <4> QED BY <4>1, <4>2, <4>3, <4>4
    <3> QED BY <3>3, <3>5, <3>7, <3>10
  <2> QED BY <2>1, <2>2
<1>14. Good(code, X, {"early"}, {"early"}) /\ Held(c) = {"early"} /\ Path(r, {"early"}, {})
  <2>1. PICK k \in SUBSET Tokens : Leads(Held(c), Now(c), k) /\ Path(r, k, {})
    BY <1>2, <1>5, Next1 DEF Core
  <2>2. Held(c) = {"early"} /\ k = {"early"}
    BY <1>2, <2>1 DEF Leads
  <2>3. CASE code = <<>>
    BY <2>1, <2>2, <2>3, GoodEmpty
  <2>4. CASE code = <<On("mpinit", n)>>
    <3>1. PICK o \in X : o = "mpinit"
      BY <1>4 DEF BootOps
    <3>2. PICK i : i = On(o, n) /\ i.op = "mpinit"
      BY <3>1, FieldsOn
    <3>3. Leads({"early"}, i, {"early"})
      BY <3>2 DEF Leads
    <3>4. o \notin {"acquire", "release"}
      BY <3>1
    <3>5. Good(<<On(o, n)>>, X, {"early"}, {"early"})
      BY <1>12, <3>2, <3>3, <3>4, GoodOn, TokenSets
    <3> QED BY <2>1, <2>2, <2>4, <3>1, <3>5
  <2> QED BY <1>12, <2>1, <2>2, <2>3, <2>4
<1>15. PICK S : S = code \o r
  OBVIOUS
<1>16. S \in Seq(Instructions(X)) /\ Path(S, {"early"}, {})
  BY <1>5, <1>14, <1>15, PathConcat, ConcatProperties DEF Good
<1>17. Ordered(r) /\ \A b \in 1 .. Len(r) : ~ Clash(Now(c), r[b])
  <2>1. Ordered(Todo(c))
    BY <1>3 DEF Core, OrderInv
  <2> QED BY <1>2, <1>5, <2>1, OrderedTail DEF Now
<1>18. \A b \in 1 .. Len(r) : r[b].op \in CpuOps \cup BootOps
  <2> SUFFICES ASSUME NEW b \in 1 .. Len(r) PROVE r[b].op \in CpuOps \cup BootOps
    OBVIOUS
  <2>1. r[b] \in Instructions(X)
    BY <1>5, ElementOfSeq
  <2> QED BY <1>4, <2>1 DEF Instructions
<1>19. \A a \in 1 .. Len(code) : a = 1 /\ Len(code) = 1 /\ code[a].op = "mpinit" /\ code[a].n = n
  <2>1. CASE code = <<>>
    BY <2>1
  <2>2. CASE code = <<On("mpinit", n)>>
    <3>1. PICK i : i = On("mpinit", n) /\ i.op = "mpinit" /\ i.n = n
      BY FieldsOn
    <3>2. Len(code) = 1 /\ code[1] = i
      BY <2>2, <3>1
    <3> QED BY <3>1, <3>2
  <2> QED BY <1>12, <2>1, <2>2
<1>20. Ordered(S)
  <2>1. Ordered(code)
    BY <1>19 DEF Ordered
  <2>2. ASSUME NEW a \in 1 .. Len(code), NEW b \in 1 .. Len(r) PROVE ~ Clash(code[a], r[b])
    <3>1. code[a].op = Now(c).op /\ code[a].op = "mpinit" /\ ~ Clash(Now(c), r[b])
      BY <1>2, <1>17, <1>19
    <3> QED BY <1>18, <3>1 DEF Clash, Special, CpuOps, BootOps
  <2> QED BY <1>5, <1>14, <1>15, <1>17, <2>1, <2>2, OrderedConcat DEF Good
<1>21. Goto(c, S)
  BY <1>5, <1>12, <1>15 DEF Then
<1>22. DOMAIN todo' = Apics /\ DOMAIN kern' = Procs /\ \A v \in Threads : Code(v)' = IF v = t THEN S ELSE Code(v)
  BY <1>3, <1>21, GoesTo DEF Core
<1>23. DataTypes'
  BY <1>9, <1>10, <1>13, <1>22 DEF DataTypes, CpuType
<1>24. \A e \in Apics : Mine(e)' = Mine(e) /\ cpu'[e] = cpu[e] /\ Running(e)' = Running(e)
  BY <1>9 DEF Mine, Running
<1>25. Held(c)' = {"early"}
  <2>1. UNCHANGED <<cpu, lock>> /\ proc' = proc
    BY <1>9
  <2>2. Held(c)' = Held(c)
    BY <1>2, <1>13, <2>1, HeldStays
  <2> QED BY <1>14, <2>2
<1>26. Todo(c)' = S
  BY <1>9, <1>21, TodoNext DEF Core
<1>27. Sane(c)'
  <2>1. Sane(c)
    BY DEF Core, SaneInv
  <2> QED BY <1>2, <1>9, <1>16, <1>24, <1>25, <1>26, <2>1 DEF Sane
<1>28. ~ Asleep(c)
  BY <1>2, Awoken DEF Core
<1>29. ASSUME NEW d \in Apics \ {BSP} PROVE Asleep(d)'
  <2>1. PICK v \in Threads : v = <<"cpu", d>> /\ v # t
    <3>1. <<"cpu", d>> # <<"cpu", c>>
      BY <1>2
    <3>2. <<"cpu", d>> \in Threads
      BY Names
    <3> QED BY <1>3, <3>1, <3>2
  <2>2. Asleep(d)
    BY <1>8
  <2> QED BY <1>22, <1>24, <2>1, <2>2, SleepsOn
<1>30. ASSUME NEW i, i.op = "mpinit", i.n = n PROVE Fact(t, i)'
  <2>1. n >= 1
    BY <1>7, <1>12
  <2>2. given'.table = table
    BY <1>9, <1>11
  <2> QED BY <1>13, <1>29, <1>30, <2>1, <2>2 DEF Fact
<1>31. ASSUME NEW b \in 1 .. Len(r), NEW i, i = r[b] PROVE Fact(t, i)'
  <2>1. Fact(t, i)
    <3>1. PICK e \in 1 .. Len(Todo(c)) : Todo(c)[e] = i
      BY <1>2, <1>5, <1>31, InTail
    <3> QED BY <1>3, <3>1 DEF Core, FactInv
  <2>2. i.op \notin {"lapicstartap", "mpinit"}
    BY <1>2, <1>17, <1>31 DEF Clash
  <2>3. i.op = "startothers" =>
          i.n >= 1 /\ \A m \in 1 .. Len(boot'.cpus) : i.n <= m /\ boot'.cpus[m] # BSP => Asleep(boot.cpus[m])'
    <3> HAVE i.op = "startothers"
    <3>1. i.n >= 1
      BY <2>1 DEF Fact
    <3>2. ASSUME NEW m \in 1 .. Len(boot'.cpus), boot'.cpus[m] # BSP PROVE Asleep(boot.cpus[m])'
      <4>1. PICK e \in Apics : e = boot'.cpus[m]
        BY <1>13, ElementOfSeq
      <4>2. Asleep(e)'
        BY <1>29, <3>2, <4>1
      <4> QED BY <4>1, <4>2 DEF Asleep, Mine
    <3> QED BY <3>1, <3>2
  <2>4. i.op \in {"kstack", "start"} => i.n \in Procs /\ proc'[i.n].state = "EMBRYO"
    BY <1>9, <2>1 DEF Fact
  <2>5. i.op \notin {"start", "unused"}
    <3>1. i.op # "start"
      <4> SUFFICES ASSUME i.op = "start" PROVE FALSE
        OBVIOUS
      <4>1. i.n \in Procs /\ proc[i.n].state = "EMBRYO"
        BY <2>1 DEF Fact
      <4>2. "early" \in Held(c)
        BY <1>14
      <4>3. ~ boot.use_lock
        BY <1>2, <4>2, Earliness DEF Core
      <4> QED BY <4>1, <4>3 DEF Core, EarlyInv
    <3>2. i.op # "unused"
      BY <1>18, <1>31 DEF CpuOps, BootOps
    <3> QED BY <3>1, <3>2
  <2> QED BY <2>2, <2>3, <2>4, <2>5 DEF Fact
<1>32. ASSUME NEW a \in 1 .. Len(S) PROVE Fact(t, S[a])' /\ ((S[a].op = "mpinit" /\ S[a].n = n) \/ \E b \in 1 .. Len(r) : S[a] = r[b])
  <2>1. PICK I : I = Instructions(X) /\ code \in Seq(I) /\ r \in Seq(I) /\ a \in 1 .. Len(code \o r)
    BY <1>5, <1>14, <1>15 DEF Good
  <2>2. \/ a \in 1 .. Len(code) /\ (code \o r)[a] = code[a]
        \/ \E b \in 1 .. Len(r) : (code \o r)[a] = r[b]
    BY <2>1, InConcat
  <2>3. PICK i : i = S[a]
    OBVIOUS
  <2>4. (i.op = "mpinit" /\ i.n = n) \/ \E b \in 1 .. Len(r) : i = r[b]
    BY <1>15, <1>19, <2>2, <2>3
  <2>5. Fact(t, i)'
    BY <1>30, <1>31, <2>4
  <2> QED BY <2>3, <2>4, <2>5
<1>33. ASSUME NEW a \in 1 .. Len(S), S[a].op \in {"kstack", "start"}
       PROVE  \A v \in Threads \ {t} : \A b \in 1 .. Len(Code(v)) :
                Code(v)[b].op \in {"kstack", "start"} => Code(v)[b].n # S[a].n
  <2>1. PICK b \in 1 .. Len(r) : S[a] = r[b]
    BY <1>32, <1>33
  <2>2. PICK e \in 1 .. Len(Code(t)) : Code(t)[e] = S[a]
    <3>1. b \in 1 .. Len(Tail(Todo(c))) /\ Tail(Todo(c))[b] = S[a] /\ Todo(c) # <<>>
      BY <1>2, <1>5, <2>1
    <3> QED BY <1>3, <3>1, Later
  <2> QED BY <1>3, <1>33, <2>2 DEF Core, OnceInv
<1>34. PICK P : P = {}
  OBVIOUS
<1>35. /\ \A p \in P : FALSE
       /\ \A p \in Procs \ P : proc'[p] = proc[p]
       /\ P \subseteq Procs
  BY <1>9, <1>34
<1>36. ~ boot'.use_lock => ~ cpu'[BSP].IF /\ cpu'[BSP].intena # TRUE /\ \A p \in Procs : proc'[p].state = "UNUSED"
  BY <1>9, <1>13 DEF Core, EarlyInv
<1>37. given' = given /\ cpu'[c].run = cpu[c].run /\ cpu'[c].proc = 0
  BY <1>2, <1>9
<1>38. Turns(c, t, S, t, S, P)
  <2>1. S \in Seq(Instructions(OpsOf(t)))
    BY <1>4, <1>16
  <2> QED BY <1>2, <1>3, <1>13, <1>20, <1>22, <1>23, <1>24, <1>27, <1>28, <1>32, <1>33, <1>35, <1>36, <1>37, <2>1 DEF Turns
<1> QED BY <1>38, Turn

\* A step that only puts code in the place of what it had to do.
LEMMA MoveStill ==
  ASSUME Core, NEW c \in Apics, NEW op, NEW code, Doing(c, op), op # "back", Then(c, code),
         UNCHANGED cpu, UNCHANGED data,
         \A k \in SUBSET Tokens : Leads(Held(c), Now(c), k) => Good(code, OpsOf(Running(c)), Held(c), k),
         Ordered(code), \A b \in 1 .. Len(Tail(Todo(c))), a \in 1 .. Len(code) : ~ Clash(code[a], Tail(Todo(c))[b]),
         \A a \in 1 .. Len(code) : Fact(Running(c), code[a])' /\ code[a].op \notin {"kstack", "start"}
  PROVE  Core'
<1>1. UNCHANGED <<lock, boot, proc, work, ticks, disk, given>>
  BY DEF data
<1>2. cpu[c].at = "run"
  BY Doings
<1>3. Held(c)' = Held(c)
  <2>1. cpu[c].run # 0 => (proc'[cpu[c].run].state = "RUNNING" <=> proc[cpu[c].run].state = "RUNNING")
    BY <1>1
  <2>2. UNCHANGED <<cpu, lock>> /\ boot'.use_lock = boot.use_lock
    BY <1>1
  <2> QED BY <1>2, <2>1, <2>2, HeldStays
<1>4. DataTypes'
  <2>1. DOMAIN todo' = Apics /\ DOMAIN kern' = Procs
    BY GoesTo DEF Core, Then
  <2> QED BY <1>1, <2>1 DEF Core, DataTypes, CpuType
<1>5. PICK P : P = {}
  OBVIOUS
<1>6. Apartly(c, P) /\ \A p \in Procs \ P : Standing(p)
  BY <1>1, <1>5 DEF Apartly, Standing
<1>7. ~ boot'.use_lock => \A p \in Procs : proc'[p].state = "UNUSED"
  BY <1>1 DEF Core, EarlyInv
<1>8. boot'.cpus = boot.cpus /\ boot'.use_lock = boot.use_lock
  BY <1>1
<1>9. Move(c, op, code, P)
  BY <1>1, <1>3, <1>4, <1>5, <1>6, <1>7, <1>8 DEF Move
<1> QED BY <1>9, Moves

\* Code that says nothing of the rest, with one operation more.
LEMMA QuietThen ==
  ASSUME NEW t, NEW X, NEW s, s \in Seq(Instructions(X \ Wild)), NEW i, i \in Instructions(X), Fact(t, i)',
         i.op \notin {"kstack", "start", "unused"}, NEW code, code = s \o <<i>>
  PROVE  /\ Ordered(code)
         /\ \A a \in 1 .. Len(code) : Fact(t, code[a])' /\ code[a].op \notin {"kstack", "start"}
         /\ \A a \in 1 .. Len(code) : code[a].op \notin Wild \/ code[a] = i
<1>1. s \in Seq(Instructions(X)) /\ \A a \in 1 .. Len(s) : s[a].op \notin Wild
  BY MoreOps, QuietOrder
<1>2. PICK r : r = <<i>>
  OBVIOUS
<1>3. r \in Seq(Instructions(X)) /\ Len(r) = 1 /\ r[1] = i
  BY <1>2
<1>4. Ordered(r) /\ \A b \in 1 .. Len(r) : r[b].op # "unused"
  BY <1>3 DEF Ordered
<1>5. Ordered(s \o r)
  BY <1>3, <1>4, Beside
<1>6. ASSUME NEW a \in 1 .. Len(code), NEW m, m = code[a]
      PROVE  Fact(t, m)' /\ m.op \notin {"kstack", "start"} /\ (m.op \notin Wild \/ m = i)
  <2>1. \/ a \in 1 .. Len(s) /\ m = s[a]
        \/ \E b \in 1 .. Len(r) : m = r[b]
    <3>1. PICK I : I = Instructions(X) /\ s \in Seq(I) /\ r \in Seq(I) /\ a \in 1 .. Len(s \o r)
      BY <1>1, <1>2, <1>3
    <3>2. \/ a \in 1 .. Len(s) /\ (s \o r)[a] = s[a]
          \/ \E b \in 1 .. Len(r) : (s \o r)[a] = r[b]
      BY <3>1, InConcat
    <3> QED BY <1>2, <1>6, <3>2
  <2>2. m = i \/ m.op \notin Wild
    BY <1>1, <1>3, <2>1
  <2>3. m.op \notin Wild => m.op \notin {"kstack", "start"}
    BY DEF Wild, Special
  <2> QED BY <2>2, <2>3, QuietFact
<1>7. ASSUME NEW a \in 1 .. Len(code) PROVE Fact(t, code[a])' /\ code[a].op \notin {"kstack", "start"}
  <2>1. PICK m : m = code[a]
    OBVIOUS
  <2>2. Fact(t, m)' /\ m.op \notin {"kstack", "start"}
    BY <1>6, <2>1
  <2> QED BY <2>1, <2>2
<1>8. \A a \in 1 .. Len(code) : code[a].op \notin Wild \/ code[a] = i
  BY <1>6
<1> QED BY <1>2, <1>5, <1>7, <1>8

LEMMA reapStep ==
  ASSUME Core, NEW c \in Apics, enter(c), Doing(c, "reap")
  PROVE  Core'
<1>1. PICK op : op = "reap" /\ Doing(c, op) /\ op # "back" /\ op \notin {"kfree", "acquire", "release"}
  OBVIOUS
<1>2. Then(c, Body(c)) /\ UNCHANGED cpu /\ UNCHANGED data
  BY DEF enter
<1>3. cpu[c].at = "run" /\ Todo(c) # <<>> /\ Now(c).op = "reap" /\ cpu[c].proc = cpu[c].run
  BY <1>1, Doings
<1>4. PICK t \in Threads : t = Running(c) /\ Code(t) = Todo(c)
  BY Runs DEF Core
<1>5. PICK X : X = OpsOf(t) /\ X = ProcOps /\ cpu[c].run # 0
  <2>1. op \notin CpuOps \cup BootOps /\ op \in OpsOf(t)
    BY <1>1, <1>4, Doings DEF CpuOps, BootOps
  <2>2. OpsOf(t) = ProcOps /\ \E p \in Procs : t = <<"proc", p>>
    BY <2>1, OfProc
  <2> QED BY <1>4, <2>2 DEF Running
<1>6. PICK p \in Procs : p = cpu[c].run /\ p = Me(c)
  BY <1>3, <1>5 DEF Me, Core, DataTypes, CpuType
<1>7. Held(c) = {"ptable"} /\ \A k \in SUBSET Tokens : Leads(Held(c), Now(c), k) => k = {}
  <2>1. PICK k \in SUBSET Tokens : Leads(Held(c), Now(c), k)
    BY <1>3, Next1 DEF Core
  <2> QED BY <1>3, <2>1 DEF Leads
<1>8. \A b \in 1 .. Len(Tail(Todo(c))) : Tail(Todo(c))[b].op \notin Special
  BY <1>3, Later DEF Clash, Special
<1>9. boot.use_lock /\ lock["ptable"] = c
  BY <1>3, <1>5, <1>7 DEF Core, EarlyInv, Held, Mine
<1>10. Body(c) = reap(p)
  BY <1>3, <1>6 DEF Body
<1>11. PICK kids : kids = {q \in Procs : proc[q].parent = p}
  OBVIOUS
<1>12. PICK dead : dead = {q \in kids : proc[q].state = "ZOMBIE"}
  OBVIOUS
<1>13. reap(p) = IF dead # {} THEN freeing(Min(dead))
                 ELSE IF kids = {} \/ proc[p].killed THEN <<release("ptable")>>
                 ELSE sleep(p, "ptable") \o <<Do("reap")>>
  BY <1>11, <1>12 DEF reap
<1>14. PICK Y : Y = X \ Wild
  OBVIOUS
<1>15. {"acquire", "release", "block", "sched", "tidy", "kfree"} \subseteq Y
  BY <1>5, <1>14 DEF ProcOps, Wild, Special
<1>16. Good(<<release("ptable")>>, Y, {"ptable"}, {})
  <2>1. PICK l \in Locks : l = "ptable"
    BY DEF Locks
  <2>2. {"acquire", "release"} \subseteq Y
    BY <1>15
  <2> QED BY <2>1, <2>2, GoodLocks
<1>17. Running(c)' = Running(c)
  BY <1>2 DEF Running
<1>18. CASE dead # {}
  <2>1. dead \in SUBSET Nat
    BY <1>11, <1>12 DEF Procs
  <2>2. PICK q \in Procs : q = Min(dead) /\ proc[q].state = "ZOMBIE"
    BY <1>11, <1>12, <1>18, <2>1, Least
  <2>3. PICK u, l, s, r, code : u = On("unused", q) /\ l = release("ptable") /\ s = kfree(q) /\ r = <<u, l>> /\ code = s \o r
    OBVIOUS
  <2>4. Then(c, code)
    BY <1>2, <1>10, <1>13, <1>18, <2>2, <2>3 DEF freeing
  <2>5. u.op = "unused" /\ u.n = q /\ l.op = "release" /\ Len(r) = 2 /\ r[1] = u /\ r[2] = l
    BY <2>3, FieldsOn, FieldsLock
  <2>6. PICK i, j, m : i = acquire("kmem") /\ j = On("kfree", q) /\ m = release("kmem") /\ s = <<i, j, m>>
    <3>1. PICK i, j, m : i = acquire("kmem") /\ j = On("kfree", q) /\ m = release("kmem")
      OBVIOUS
    <3>2. <<i>> \o <<j>> = <<i, j>> /\ <<i, j>> \o <<m>> = <<i, j, m>>
      BY Join2, Join21
    <3> QED BY <1>9, <2>3, <3>1, <3>2 DEF kfree, Under
  <2>7. /\ i.op = "acquire" /\ i.on = "kmem" /\ j.op = "kfree" /\ m.op = "release" /\ m.on = "kmem"
        /\ Len(s) = 3 /\ s[1] = i /\ s[2] = j /\ s[3] = m
    BY <2>6, FieldsOn, FieldsLock
  <2>8. Good(s, X, {"ptable"}, {"ptable"})
    <3>1. {"acquire", "release"} \subseteq X
      BY <1>14, <1>15
    <3>2. Good(<<i>>, X, {"ptable"}, {"ptable", "kmem"}) /\ Good(<<m>>, X, {"ptable", "kmem"}, {"ptable"})
      BY <2>6, <3>1, GoodLocks
    <3>3. PICK o \in {"kfree"} \cap X : o = "kfree"
      BY <1>14, <1>15
    <3>4. q \in Int
      BY DEF Procs
    <3>5. Good(<<On(o, q)>>, X, {"ptable", "kmem"}, {"ptable", "kmem"})
      BY <3>3, <3>4, GoodOps
    <3> QED BY <2>6, <3>2, <3>3, <3>5, Good3
  <2>9. Good(r, X, {"ptable"}, {})
    <3>1. PICK o \in {"tidy", "intena", "kill", "start", "unused", "wakeup1"} \cap X : o = "unused"
      BY <1>5 DEF ProcOps
    <3>2. q \in Int
      BY DEF Procs
    <3>3. Good(<<On(o, q)>>, X, {"ptable"}, {"ptable"})
      BY <3>1, <3>2, GoodOps
    <3>4. Y \subseteq X
      BY <1>14
    <3>5. Good(<<l>>, X, {"ptable"}, {})
      BY <1>16, <2>3, <3>4, GoodMore
    <3> QED BY <2>3, <3>1, <3>3, <3>5, Good2
  <2>10. Good(code, X, {"ptable"}, {})
    BY <2>3, <2>8, <2>9, GoodConcat
  <2>11. Ordered(code)
    <3>1. Ordered(s)
      BY <2>7 DEF Ordered, Clash, Special
    <3>2. Ordered(r)
      BY <2>5 DEF Ordered, Clash, Special
    <3>3. \A a \in 1 .. 3, b \in 1 .. 2 : ~ Clash(s[a], r[b])
      BY <2>5, <2>7 DEF Clash, Special, OfKmem
    <3> QED BY <2>3, <2>5, <2>7, <2>8, <2>9, <3>1, <3>2, <3>3, OrderedConcat DEF Good
  <2>12. ASSUME NEW a \in 1 .. Len(code) PROVE code[a] \in {i, j, m, u, l}
    <3>1. PICK I : I = Instructions(X) /\ s \in Seq(I) /\ r \in Seq(I) /\ a \in 1 .. Len(s \o r)
      BY <2>3, <2>8, <2>9 DEF Good
    <3>2. \/ a \in 1 .. Len(s) /\ (s \o r)[a] = s[a]
          \/ \E b \in 1 .. Len(r) : (s \o r)[a] = r[b]
      BY <3>1, InConcat
    <3> QED BY <2>3, <2>5, <2>7, <3>2
  <2>13. ASSUME NEW b \in 1 .. Len(Tail(Todo(c))), NEW a \in 1 .. Len(code) PROVE ~ Clash(code[a], Tail(Todo(c))[b])
    <3>1. Tail(Todo(c))[b].op \notin Special
      BY <1>8
    <3>2. code[a].op \in {"acquire", "kfree", "release", "unused"}
      BY <2>5, <2>7, <2>12
    <3> QED BY <3>1, <3>2 DEF Clash, Special
  <2>14. Fact(t, u)'
    <3>1. proc'[q].state = "ZOMBIE" /\ lock'["ptable"] = c /\ Running(c)' = t
      BY <1>2, <1>4, <1>9, <1>17, <2>2 DEF data
    <3> QED BY <2>5, <3>1 DEF Fact
  <2>15. ASSUME NEW a \in 1 .. Len(code) PROVE Fact(Running(c), code[a])' /\ code[a].op \notin {"kstack", "start"}
    <3>1. PICK e : e = code[a]
      OBVIOUS
    <3>2. e = u \/ e.op \notin Wild
      BY <2>5, <2>7, <2>12, <3>1 DEF Wild, Special
    <3>3. Fact(t, e)'
      BY <2>14, <3>2, QuietFact
    <3>4. e.op \notin {"kstack", "start"}
      BY <2>5, <3>2 DEF Wild, Special
    <3> QED BY <1>4, <1>17, <3>1, <3>3, <3>4
  <2>16. \A k \in SUBSET Tokens : Leads(Held(c), Now(c), k) => Good(code, OpsOf(Running(c)), Held(c), k)
    BY <1>4, <1>5, <1>7, <2>10
  <2> QED BY <1>1, <1>2, <2>4, <2>11, <2>13, <2>15, <2>16, MoveStill
<1>19. CASE dead = {} /\ (kids = {} \/ proc[p].killed)
  <2>1. PICK code : code = <<release("ptable")>>
    OBVIOUS
  <2>2. Then(c, code)
    BY <1>2, <1>10, <1>13, <1>19, <2>1
  <2>3. UNCHANGED <<lock, boot, proc, work, ticks, disk, given>>
    BY <1>2 DEF data
  <2>4. DOMAIN proc' = Procs /\ \A n \in Procs : DOMAIN proc'[n] = DOMAIN proc[n] /\ Stands(n)
    BY <2>3, AtRest DEF Core
  <2>5. \A k \in SUBSET Tokens : Leads(Held(c), Now(c), k) => Good(code, OpsOf(Running(c)) \ Wild, Held(c), k)
    BY <1>4, <1>5, <1>7, <1>14, <1>16, <2>1
  <2>6. disk.queue \in Seq(Int) /\ ticks \in Int
    BY DEF Core, DataTypes
  <2>7. Calm(c, op, code)
    BY <1>1, <1>2, <2>2, <2>3, <2>4, <2>5, <2>6 DEF Calm
  <2> QED BY <2>7, Calmly
<1>20. CASE dead = {} /\ ~ (kids = {} \/ proc[p].killed)
  <2>1. PICK s, i, code : s = sleep(p, "ptable") /\ i = Do("reap") /\ code = s \o <<i>>
    OBVIOUS
  <2>2. Then(c, code)
    BY <1>2, <1>10, <1>13, <1>20, <2>1
  <2>3. Good(s, Y, {"ptable"}, {"ptable"})
    <3>1. PICK l \in {"ptable", "tickslock", "idelock"} : l = "ptable"
      OBVIOUS
    <3>2. p \in Int
      BY DEF Procs
    <3>3. {"acquire", "release", "block", "sched", "tidy"} \subseteq Y
      BY <1>15
    <3> QED BY <2>1, <3>1, <3>2, <3>3, GoodSleep
  <2>4. Good(<<i>>, X, {"ptable"}, {}) /\ i \in Instructions(X) /\ i.op = "reap"
    <3>1. PICK o \in {"scan", "back", "find", "reap", "zombie exit"} \cap X : o = "reap"
      BY <1>5 DEF ProcOps
    <3>2. Good(<<Do(o)>>, X, {"ptable"}, {})
      BY <3>1, GoodDo
    <3>3. o \in X /\ o \notin {"acquire", "release"}
      BY <3>1
    <3>4. Do(o) \in Instructions(X)
      BY <3>3, TypeOfDo
    <3> QED BY <2>1, <3>1, <3>2, <3>4, FieldsOn DEF Do
  <2>5. Good(code, X, {"ptable"}, {})
    <3>1. Y \subseteq X
      BY <1>14
    <3>2. Good(s, X, {"ptable"}, {"ptable"})
      BY <2>3, <3>1, GoodMore
    <3> QED BY <2>1, <2>4, <3>2, GoodConcat
  <2>6. Fact(t, i)'
    BY <2>4 DEF Fact
  <2>7. /\ Ordered(code)
        /\ \A a \in 1 .. Len(code) : Fact(t, code[a])' /\ code[a].op \notin {"kstack", "start"}
        /\ \A a \in 1 .. Len(code) : code[a].op \notin Wild \/ code[a] = i
    <3>1. s \in Seq(Instructions(X \ Wild))
      BY <1>14, <2>3 DEF Good
    <3>2. i.op \notin {"kstack", "start", "unused"}
      BY <2>4
    <3>3. i \in Instructions(X) /\ code = s \o <<i>>
      BY <2>1, <2>4
    <3>4. Ordered(code)
      BY <2>6, <3>1, <3>2, <3>3, QuietThen
    <3>5. \A a \in 1 .. Len(code) : Fact(t, code[a])' /\ code[a].op \notin {"kstack", "start"}
      BY <2>6, <3>1, <3>2, <3>3, QuietThen
    <3>6. \A a \in 1 .. Len(code) : code[a].op \notin Wild \/ code[a] = i
      BY <2>6, <3>1, <3>2, <3>3, QuietThen
    <3> QED BY <3>4, <3>5, <3>6
  <2>8. ASSUME NEW b \in 1 .. Len(Tail(Todo(c))), NEW a \in 1 .. Len(code) PROVE ~ Clash(code[a], Tail(Todo(c))[b])
    <3>1. Tail(Todo(c))[b].op \notin Special
      BY <1>8
    <3>2. code[a].op \notin Wild \ {"reap"}
      BY <2>4, <2>7
    <3> QED BY <3>1, <3>2 DEF Clash, Special, Wild
  <2>9. \A k \in SUBSET Tokens : Leads(Held(c), Now(c), k) => Good(code, OpsOf(Running(c)), Held(c), k)
    BY <1>4, <1>5, <1>7, <2>5
  <2>10. ASSUME NEW a \in 1 .. Len(code) PROVE Fact(Running(c), code[a])' /\ code[a].op \notin {"kstack", "start"}
    BY <1>4, <1>17, <2>7
  <2> QED BY <1>1, <1>2, <2>2, <2>7, <2>8, <2>9, <2>10, MoveStill
<1> QED BY <1>18, <1>19, <1>20

LEMMA startothersStep ==
  ASSUME Core, NEW c \in Apics, enter(c), Doing(c, "startothers")
  PROVE  Core'
<1>1. PICK op \in BootOps \ ProcOps : op = "startothers" /\ Doing(c, op) /\ op # "back"
  BY DEF BootOps, ProcOps
<1>2. Then(c, Body(c)) /\ UNCHANGED cpu /\ UNCHANGED data
  BY DEF enter
<1>3. /\ c = BSP /\ cpu[c].run = 0 /\ Running(c) = <<"cpu", BSP>> /\ OpsOf(Running(c)) = CpuOps \cup BootOps
      /\ cpu[c].at = "run" /\ Todo(c) # <<>> /\ Now(c).op = "startothers"
  BY <1>1, Boots
<1>4. PICK t \in Threads : t = Running(c) /\ t = <<"cpu", c>> /\ Code(t) = Todo(c) /\ Todo(c) \in Seq(Instructions(OpsOf(t)))
  BY <1>3, Runs DEF Core
<1>5. PICK X : X = OpsOf(t) /\ X = CpuOps \cup BootOps
  BY <1>3, <1>4
<1>6. 1 \in 1 .. Len(Todo(c)) /\ Todo(c)[1] = Now(c)
  BY <1>3, <1>4, HeadTailProperties, EmptySeq, LenProperties DEF Now
<1>7. PICK j \in Int : j = Now(c).n /\ j >= 1 /\ \A n \in 1 .. Len(boot.cpus) : j <= n /\ boot.cpus[n] # BSP => Asleep(boot.cpus[n])
  <2>1. Fact(t, Now(c))
    BY <1>4, <1>6 DEF Core, FactInv
  <2>2. Now(c).n \in Int
    BY <1>1, Doings
  <2> QED BY <1>3, <2>1, <2>2 DEF Fact
<1>8. Held(c) = {"early"} /\ \A k \in SUBSET Tokens : Leads(Held(c), Now(c), k) => k = {"early"}
  <2>1. PICK k \in SUBSET Tokens : Leads(Held(c), Now(c), k)
    BY <1>3, Next1 DEF Core
  <2> QED BY <1>3, <2>1 DEF Leads
<1>9. \A b \in 1 .. Len(Tail(Todo(c))) :
        Tail(Todo(c))[b].op \notin {"startothers", "lapicstartap", "mpinit", "unused"}
  <2> SUFFICES ASSUME NEW b \in 1 .. Len(Tail(Todo(c)))
               PROVE  Tail(Todo(c))[b].op \notin {"startothers", "lapicstartap", "mpinit", "unused"}
    OBVIOUS
  <2>1. ~ Clash(Now(c), Tail(Todo(c))[b])
    BY <1>3, Later
  <2> QED BY <1>3, <2>1 DEF Clash, OfKmem
<1>10. Body(c) = startothers(c, j)
  BY <1>3, <1>7 DEF Body
<1>11. boot.cpus \in Seq(Apics)
  BY DEF Core, DataTypes
<1>12. Running(c)' = Running(c)
  BY <1>2 DEF Running
<1>13. CASE j > Len(boot.cpus)
  <2>1. PICK code : code = <<>>
    OBVIOUS
  <2>2. Then(c, code)
    BY <1>2, <1>10, <1>13, <2>1 DEF startothers
  <2>3. Len(code) = 0 /\ Ordered(code)
    BY <2>1 DEF Ordered
  <2>4. \A k \in SUBSET Tokens : Leads(Held(c), Now(c), k) => Good(code, OpsOf(Running(c)), Held(c), k)
    <3>1. Good(code, X, {"early"}, {"early"})
      BY <2>1, GoodEmpty, TokenSets
    <3> SUFFICES ASSUME NEW k \in SUBSET Tokens, Leads(Held(c), Now(c), k) PROVE Good(code, OpsOf(Running(c)), Held(c), k)
      OBVIOUS
    <3>2. Held(c) = {"early"} /\ k = {"early"} /\ X = OpsOf(Running(c))
      BY <1>4, <1>5, <1>8
    <3> QED BY <3>1, <3>2
  <2> QED BY <1>1, <1>2, <2>2, <2>3, <2>4, MoveStill
<1>14. CASE ~ (j > Len(boot.cpus))
  <2>1. PICK a, l, w, e : a = Do("kalloc") /\ l = On("lapicstartap", j) /\ w = On("wait", j) /\ e = On("startothers", j + 1)
    OBVIOUS
  <2>2. a.op = "kalloc" /\ l.op = "lapicstartap" /\ l.n = j /\ w.op = "wait" /\ e.op = "startothers" /\ e.n = j + 1
    BY <2>1, FieldsOn DEF Do
  <2>3. PICK s : s = IF boot.cpus[j] = c THEN <<>> ELSE <<a, l, w>>
    OBVIOUS
  <2>4. PICK r : r = <<e>>
    OBVIOUS
  <2>5. Len(r) = 1 /\ r[1] = e
    BY <2>4
  <2>6. PICK code : code = s \o r
    OBVIOUS
  <2>7. Then(c, code)
    BY <1>2, <1>10, <1>14, <2>1, <2>3, <2>4, <2>6 DEF startothers
  <2>8. ASSUME NEW o \in {"kalloc", "lapicstartap", "wait", "startothers"}, NEW n \in Int
        PROVE  Good(<<On(o, n)>>, X, {"early"}, {"early"})
    <3>1. o \in X /\ o \notin {"acquire", "release"}
      BY <1>5 DEF BootOps
    <3>2. PICK m : m = On(o, n) /\ m.op = o
      BY FieldsOn
    <3>3. Leads({"early"}, m, {"early"})
      BY <3>2 DEF Leads
    <3> QED BY <3>1, <3>2, <3>3, GoodOn, TokenSets
  <2>9. Good(<<a>>, X, {"early"}, {"early"}) /\ Good(<<l>>, X, {"early"}, {"early"})
    BY <2>1, <2>8 DEF Do
  <2>10. Good(<<w>>, X, {"early"}, {"early"}) /\ Good(r, X, {"early"}, {"early"})
    BY <2>1, <2>4, <2>8
  <2>11. Good(s, X, {"early"}, {"early"})
    <3>1. Good(<<a, l, w>>, X, {"early"}, {"early"})
      BY <2>9, <2>10, Good3
    <3>2. Good(<<>>, X, {"early"}, {"early"})
      BY GoodEmpty, TokenSets
    <3> QED BY <2>3, <3>1, <3>2
  <2>12. Good(code, X, {"early"}, {"early"})
    BY <2>6, <2>10, <2>11, GoodConcat
  <2>13. boot.cpus[j] # c => Len(s) = 3 /\ s[1] = a /\ s[2] = l /\ s[3] = w
    BY <2>3
  <2>14. boot.cpus[j] = c => Len(s) = 0
    BY <2>3
  <2>15. Ordered(code)
    <3>1. Ordered(s)
      BY <2>2, <2>13, <2>14 DEF Ordered, Clash, Special
    <3>2. Ordered(r)
      BY <2>5 DEF Ordered
    <3>3. \A m \in 1 .. Len(s) : ~ Clash(s[m], e)
      BY <2>2, <2>13, <2>14 DEF Clash, Special
    <3>4. \A m \in 1 .. Len(s), b \in 1 .. Len(r) : ~ Clash(s[m], r[b])
      BY <2>5, <3>3
    <3> QED BY <2>6, <2>10, <2>11, <3>1, <3>2, <3>4, OrderedConcat DEF Good
  <2>16. ASSUME NEW m \in 1 .. Len(code) PROVE code[m] = e \/ (boot.cpus[j] # c /\ code[m] \in {a, l, w})
    <3>1. PICK I : I = Instructions(X) /\ s \in Seq(I) /\ r \in Seq(I) /\ m \in 1 .. Len(s \o r)
      BY <2>6, <2>10, <2>11 DEF Good
    <3>2. \/ m \in 1 .. Len(s) /\ (s \o r)[m] = s[m]
          \/ \E b \in 1 .. Len(r) : (s \o r)[m] = r[b]
      BY <3>1, InConcat
    <3> QED BY <2>5, <2>6, <2>13, <2>14, <3>2
  <2>17. ASSUME NEW b \in 1 .. Len(Tail(Todo(c))), NEW m \in 1 .. Len(code) PROVE ~ Clash(code[m], Tail(Todo(c))[b])
    <3>1. code[m].op \in {"kalloc", "lapicstartap", "wait", "startothers"}
      BY <2>2, <2>16
    <3> QED BY <1>9, <3>1 DEF Clash, Special
  <2>18. ASSUME NEW n \in 1 .. Len(boot.cpus), j <= n, boot.cpus[n] # BSP PROVE Asleep(boot.cpus[n])'
    <3>1. PICK d \in Apics : d = boot.cpus[n] /\ Asleep(d)
      BY <1>7, <1>11, <2>18, ElementOfSeq
    <3>2. PICK v \in Threads : v = <<"cpu", d>> /\ v # t
      <4>1. <<"cpu", d>> # <<"cpu", c>>
        BY <1>3, <2>18, <3>1
      <4>2. <<"cpu", d>> \in Threads
        BY Names
      <4> QED BY <1>4, <4>1, <4>2
    <3>3. Code(v)' = Code(v)
      BY <1>4, <2>7, <3>2, GoesTo DEF Core, Then
    <3>4. cpu'[d] = cpu[d] /\ Mine(d)' = Mine(d)
      BY <1>2 DEF data, Mine
    <3>5. Asleep(d)'
      BY <3>1, <3>2, <3>3, <3>4, SleepsOn
    <3> QED BY <1>2, <3>1, <3>5 DEF Asleep, Mine, data
  <2>19. boot'.cpus = boot.cpus
    BY <1>2 DEF data
  <2>20. Fact(t, e)'
    <3>1. j + 1 >= 1
      BY <1>7
    <3>2. \A n \in 1 .. Len(boot.cpus) : j + 1 <= n => j <= n
      BY <1>7
    <3> QED BY <2>2, <2>18, <2>19, <3>1, <3>2 DEF Fact
  <2>21. boot.cpus[j] # c => Fact(t, l)'
    <3> HAVE boot.cpus[j] # c
    <3>1. j \in 1 .. Len(boot.cpus) /\ boot.cpus[j] # BSP /\ j <= j
      BY <1>3, <1>7, <1>11, <1>14, LenProperties
    <3> QED BY <2>2, <2>18, <2>19, <3>1 DEF Fact
  <2>22. ASSUME NEW m \in 1 .. Len(code) PROVE Fact(Running(c), code[m])' /\ code[m].op \notin {"kstack", "start"}
    <3>1. PICK i : i = code[m]
      OBVIOUS
    <3>2. i = e \/ (i = l /\ boot.cpus[j] # c) \/ i.op \notin Wild
      BY <2>2, <2>16, <3>1 DEF Wild, Special
    <3>3. Fact(t, i)'
      BY <2>20, <2>21, <3>2, QuietFact
    <3>4. i.op \notin {"kstack", "start"}
      BY <2>2, <3>2 DEF Wild, Special
    <3> QED BY <1>4, <1>12, <3>1, <3>3, <3>4
  <2>23. \A k \in SUBSET Tokens : Leads(Held(c), Now(c), k) => Good(code, OpsOf(Running(c)), Held(c), k)
    <3> SUFFICES ASSUME NEW k \in SUBSET Tokens, Leads(Held(c), Now(c), k) PROVE Good(code, OpsOf(Running(c)), Held(c), k)
      OBVIOUS
    <3>1. Held(c) = {"early"} /\ k = {"early"} /\ X = OpsOf(Running(c))
      BY <1>4, <1>5, <1>8
    <3> QED BY <2>12, <3>1
  <2> QED BY <1>1, <1>2, <2>7, <2>15, <2>17, <2>22, <2>23, MoveStill
<1> QED BY <1>13, <1>14

LEMMA enterStep ==
  ASSUME Core, NEW c \in Apics, enter(c)
  PROVE  Core'
<1>1. PICK op \in {"reap", "since", "doze", "quit", "preempt", "kalloc", "cprintf", "startothers"} : Doing(c, op)
  BY DEF enter
<1>2. CASE op = "reap"
  BY <1>1, <1>2, reapStep
<1>3. CASE op = "startothers"
  BY <1>1, <1>3, startothersStep
<1>4. CASE op \in {"since", "doze", "quit", "preempt", "kalloc", "cprintf"}
  BY <1>1, <1>4, enterCalmly
<1> QED BY <1>2, <1>3, <1>4

----------------------------------------------------------------------------
(* The switch from one thread to another.                                  *)

\* The thread of processor c, which has the process table, goes on with S when it runs again.
Leaves(c, t, S) ==
  /\ t = Running(c) /\ cpu[c].at = "run" /\ Todo(c) # <<>> /\ lock["ptable"] = c
  /\ UNCHANGED <<lock, boot, given>> /\ DataTypes' /\ \A d \in Apics \ {c} : cpu'[d] = cpu[d]
  /\ \A r \in Threads : Code(r)' = IF r = t THEN S ELSE Code(r)
  /\ S \in Seq(Instructions(OpsOf(t)))
  /\ \E i : i.op \notin Wild /\ S = <<i>> \o Tail(Todo(c))
  /\ \A b \in 1 .. Len(Todo(c)) : Todo(c)[b].op # "unused"
  /\ \A p \in Procs : proc[p].state = "EMBRYO" => proc'[p].state = "EMBRYO"

LEMMA Leaving ==
  ASSUME Core, NEW c \in Apics, NEW t, NEW S, Leaves(c, t, S)
  PROVE  CodeTypes' /\ OrderInv' /\ FactInv' /\ OnceInv'
<1>1. /\ t = Running(c) /\ t \in Threads /\ Code(t) = Todo(c) /\ Todo(c) \in Seq(Instructions(OpsOf(t))) /\ Todo(c) # <<>>
  BY Runs DEF Core, Leaves
<1>2. PICK X : X = OpsOf(t)
  OBVIOUS
<1>3. PICK i : i.op \notin Wild /\ S = <<i>> \o Tail(Todo(c))
  BY DEF Leaves
<1>4. PICK s, r : s = <<i>> /\ r = Tail(Todo(c))
  OBVIOUS
<1>5. S = s \o r /\ S \in Seq(Instructions(X)) /\ r \in Seq(Instructions(X))
  BY <1>1, <1>2, <1>3, <1>4, Next1 DEF Leaves, Core
<1>6. PICK I : r \in Seq(I) /\ s \in Seq(I) /\ Len(s) = 1 /\ s[1] = i
  <2>1. PICK I : I = Instructions(X) \cup {i}
    OBVIOUS
  <2>2. r \in Seq(I)
    <3>1. r \in Seq(Instructions(X)) /\ \A a \in 1 .. Len(r) : r[a] \in Instructions(X)
      BY <1>5, ElementOfSeq
    <3>2. \A a \in 1 .. Len(r) : r[a] \in I
      BY <2>1, <3>1
    <3>3. Instructions(X) \subseteq I
      BY <2>1
    <3> QED BY <3>1, <3>2, <3>3
  <2>3. i \in I
    BY <2>1
  <2>4. s \in Seq(I) /\ Len(s) = 1 /\ s[1] = i
    BY <1>4, <2>3
  <2> QED BY <2>2, <2>4
<1>7. \A r1 \in Threads : Code(r1)' = IF r1 = t THEN S ELSE Code(r1)
  BY DEF Leaves
<1>8. \A b \in 1 .. Len(r) : r[b].op # "unused" /\ \E e \in 1 .. Len(Code(t)) : Code(t)[e] = r[b]
  BY <1>1, <1>4, Later DEF Leaves
<1>9. ASSUME NEW a \in 1 .. Len(S) PROVE S[a] = i \/ \E b \in 1 .. Len(r) : S[a] = r[b]
  <2>1. PICK J : s \in Seq(J) /\ r \in Seq(J) /\ a \in 1 .. Len(s \o r)
    BY <1>5, <1>6
  <2>2. \/ a \in 1 .. Len(s) /\ (s \o r)[a] = s[a]
        \/ \E b \in 1 .. Len(r) : (s \o r)[a] = r[b]
    BY <2>1, InConcat
  <2> QED BY <1>5, <1>6, <2>2
<1>10. CodeTypes'
  <2>1. ASSUME NEW v \in Threads PROVE Code(v)' \in Seq(Instructions(OpsOf(v)))
    BY <1>2, <1>5, <1>7 DEF Core, CodeTypes
  <2> QED BY <2>1 DEF CodeTypes
<1>11. OrderInv'
  <2>1. Ordered(r)
    <3>1. Ordered(Todo(c))
      BY <1>1 DEF Core, OrderInv
    <3> QED BY <1>1, <1>4, <3>1, OrderedTail
  <2>2. Ordered(s)
    BY <1>6 DEF Ordered
  <2>3. \A a \in 1 .. Len(s), b \in 1 .. Len(r) : ~ Clash(s[a], r[b])
    BY <1>3, <1>6, <1>8 DEF Clash, Wild, Special
  <2>4. Ordered(S)
    BY <1>5, <1>6, <2>1, <2>2, <2>3, OrderedConcat
  <2>5. ASSUME NEW v \in Threads PROVE Ordered(Code(v)')
    BY <1>7, <2>4 DEF Core, OrderInv
  <2> QED BY <2>5 DEF OrderInv, Ordered, Clash, OfKmem
<1>12. ASSUME NEW v \in Threads, NEW b \in 1 .. Len(Code(v)) PROVE Code(v)[b].op # "unused"
  <2>1. CASE v = t
    BY <1>1, <1>12, <2>1 DEF Leaves
  <2>2. CASE v # t
    <3> SUFFICES ASSUME Code(v)[b].op = "unused" PROVE FALSE
      OBVIOUS
    <3>1. PICK j : j = Code(v)[b] /\ Fact(v, j)
      BY DEF Core, FactInv
    <3>2. PICK d \in Apics : Running(d) = v /\ lock["ptable"] = d
      BY <3>1 DEF Fact
    <3> QED BY <1>1, <2>2, <3>2 DEF Leaves
  <2> QED BY <2>1, <2>2
<1>13. ~ Asleep(c)
  BY <1>1, Awoken DEF Core
<1>14. ASSUME NEW d \in Apics, Asleep(d) PROVE Asleep(d)'
  <2>1. PICK v \in Threads : v = <<"cpu", d>>
    BY Names
  <2>2. v # t
    <3>1. CASE cpu[c].run = 0
      <4>1. t = <<"cpu", c>>
        BY <1>1, <3>1 DEF Running
      <4> QED BY <1>13, <1>14, <2>1, <4>1
    <3>2. CASE cpu[c].run # 0
      <4>1. t = <<"proc", cpu[c].run>>
        BY <1>1, <3>2 DEF Running
      <4> QED BY <2>1, <4>1
    <3> QED BY <3>1, <3>2
  <2>3. cpu'[d] = cpu[d] /\ Mine(d)' = Mine(d)
    BY <1>13, <1>14 DEF Leaves, Mine
  <2> QED BY <1>7, <1>14, <2>1, <2>2, <2>3, SleepsOn
<1>15. ASSUME NEW v \in Threads, NEW b \in 1 .. Len(Code(v)), NEW j, j = Code(v)[b] PROVE Fact(v, j)'
  <2>1. Fact(v, j) /\ j.op # "unused"
    BY <1>12, <1>15 DEF Core, FactInv
  <2>2. j.op \in {"kstack", "start"} => proc'[j.n].state = "EMBRYO"
    BY <2>1 DEF Fact, Leaves
  <2>3. j.op = "start" => kern'[j.n] = forkret
    <3> HAVE j.op = "start"
    <3>1. j.n \in Procs /\ proc[j.n].state = "EMBRYO" /\ kern[j.n] = forkret
      BY <2>1 DEF Fact
    <3>2. PICK u \in Threads : u = <<"proc", j.n>> /\ kern[j.n] = Code(u) /\ kern'[j.n] = Code(u)'
      BY <3>1, Names
    <3>3. u # t
      <4>1. CASE cpu[c].run = 0
        <5>1. t = <<"cpu", c>>
          BY <1>1, <4>1 DEF Running
        <5> QED BY <3>2, <5>1
      <4>2. CASE cpu[c].run # 0
        <5>1. t = <<"proc", cpu[c].run>> /\ cpu[c].run # j.n
          BY <1>1, <3>1, <4>2 DEF Core, RunInv, Running
        <5> QED BY <3>2, <5>1
      <4> QED BY <4>1, <4>2
    <3> QED BY <1>7, <3>1, <3>2, <3>3
  <2>4. boot'.cpus = boot.cpus /\ given' = given
    BY DEF Leaves
  <2> QED BY <1>14, <2>1, <2>2, <2>3, <2>4, FactKept DEF Core
<1>16. FactInv'
  <2>1. ASSUME NEW v \in Threads, NEW a \in 1 .. Len(Code(v)') PROVE Fact(v, Code(v)[a])'
    <3>1. CASE v = t
      <4>1. PICK m : m = S[a]
        OBVIOUS
      <4>2. m = i \/ \E b \in 1 .. Len(r) : m = r[b]
        BY <1>7, <1>9, <2>1, <3>1, <4>1
      <4>3. m = i \/ \E e \in 1 .. Len(Code(t)) : Code(t)[e] = m
        BY <1>8, <4>2
      <4>4. Fact(t, m)'
        BY <1>1, <1>3, <1>15, <4>3, QuietFact
      <4> QED BY <1>7, <3>1, <4>1, <4>4
    <3>2. CASE v # t
      <4>1. Code(v)' = Code(v)
        BY <1>7, <3>2
      <4>2. PICK m : m = Code(v)[a]
        OBVIOUS
      <4>3. Fact(v, m)'
        BY <1>15, <2>1, <4>1, <4>2
      <4> QED BY <4>1, <4>2, <4>3
    <3> QED BY <3>1, <3>2
  <2> QED BY <2>1 DEF FactInv
<1>17. OnceInv'
  <2>1. ASSUME NEW v \in Threads, NEW a \in 1 .. Len(Code(v)'), Code(v)'[a].op \in {"kstack", "start"}
        PROVE  \E e \in 1 .. Len(Code(v)) : Code(v)[e] = Code(v)'[a]
    <3>1. CASE v = t
      <4>1. PICK m : m = S[a] /\ m = Code(v)'[a] /\ a \in 1 .. Len(S)
        BY <1>7, <2>1, <3>1
      <4>2. m # i
        BY <1>3, <2>1, <4>1 DEF Wild, Special
      <4>3. \E b \in 1 .. Len(r) : m = r[b]
        BY <1>9, <4>1, <4>2
      <4> QED BY <1>8, <3>1, <4>1, <4>3
    <3>2. CASE v # t
      BY <1>7, <2>1, <3>2
    <3> QED BY <3>1, <3>2
  <2>2. \A j, k \in 1 .. Len(boot'.cpus) : boot'.cpus[j] = boot'.cpus[k] => j = k
    BY DEF Leaves, Core, OnceInv
  <2>3. ASSUME NEW v \in Threads, NEW w \in Threads, NEW a \in 1 .. Len(Code(v)'), NEW b \in 1 .. Len(Code(w)'),
               Code(v)'[a].op \in {"kstack", "start"}, Code(w)'[b].op \in {"kstack", "start"}, Code(v)'[a].n = Code(w)'[b].n
        PROVE  v = w
    <3>1. PICK e \in 1 .. Len(Code(v)) : Code(v)[e] = Code(v)'[a]
      BY <2>1, <2>3
    <3>2. PICK f \in 1 .. Len(Code(w)) : Code(w)[f] = Code(w)'[b]
      BY <2>1, <2>3
    <3> QED BY <2>3, <3>1, <3>2 DEF Core, OnceInv
  <2> QED BY <2>2, <2>3 DEF OnceInv
<1> QED BY <1>10, <1>11, <1>16, <1>17


\* What a processor is left out of does not touch it.
LEMMA Aside ==
  ASSUME NEW d, Sane(d), cpu'[d] = cpu[d], Mine(d)' = Mine(d), Todo(d)' = Todo(d), boot'.use_lock = boot.use_lock,
         cpu[d].run # 0 => (proc'[cpu[d].run].state = "RUNNING" <=> proc[cpu[d].run].state = "RUNNING")
  PROVE  Sane(d)'
<1>1. Now(d)' = Now(d)
  BY DEF Now
<1>2. Held(d)' = Held(d)
  BY <1>1 DEF Held
<1> QED BY <1>1, <1>2 DEF Sane

\* The scheduler of a processor, which looks for a process to run.
LEMMA Scanning ==
  ASSUME Core, NEW c \in Apics, Doing(c, "scan")
  PROVE  /\ cpu[c].at = "run" /\ cpu[c].run = 0 /\ Running(c) = <<"cpu", c>> /\ CpuOps \subseteq OpsOf(Running(c))
         /\ Todo(c) = todo[c] /\ Todo(c) # <<>> /\ Now(c).op = "scan" /\ Now(c).n \in Int
         /\ Held(c) = {"ptable"} /\ Mine(c) = {"ptable"} /\ Path(Tail(Todo(c)), {}, {})
<1>1. PICK op : op = "scan" /\ Doing(c, op)
  OBVIOUS
<1>2. /\ cpu[c].at = "run" /\ Todo(c) # <<>> /\ Now(c).op = "scan" /\ Running(c) \in Threads
      /\ op \in OpsOf(Running(c)) /\ Now(c).n \in Int /\ cpu[c].run \in Procs \cup {0}
  BY <1>1, Doings
<1>3. op \notin ProcOps
  BY <1>1 DEF ProcOps
<1>4. PICK d \in Apics : Running(c) = <<"cpu", d>> /\ CpuOps \subseteq OpsOf(Running(c))
  BY <1>2, <1>3, OfCpu
<1>5. cpu[c].run = 0 /\ d = c
  <2>1. CASE cpu[c].run = 0
    BY <1>4, <2>1 DEF Running
  <2>2. CASE cpu[c].run # 0
    BY <1>4, <2>2 DEF Running
  <2> QED BY <2>1, <2>2
<1>6. Held(c) = {"ptable"} /\ Path(Tail(Todo(c)), {}, {})
  <2>1. PICK k \in SUBSET Tokens : Leads(Held(c), Now(c), k) /\ Path(Tail(Todo(c)), k, {})
    BY <1>2, Next1 DEF Core
  <2> QED BY <1>2, <2>1 DEF Leads
<1>7. Mine(c) = {"ptable"}
  <2>1. Held(c) = Mine(c) \cup (IF c = BSP /\ ~ boot.use_lock THEN {"early"} ELSE {})
    BY <1>2, <1>5 DEF Held
  <2> QED BY <1>6, <2>1
<1>8. Todo(c) = todo[c]
  BY <1>5 DEF Todo
<1> QED BY <1>2, <1>4, <1>5, <1>6, <1>7, <1>8

LEMMA scanStep ==
  ASSUME Core, NEW c \in Apics, scan(c)
  PROVE  Core'
<1>1. Doing(c, "scan")
  BY DEF scan
<1>2. /\ cpu[c].at = "run" /\ cpu[c].run = 0 /\ CpuOps \subseteq OpsOf(Running(c))
      /\ Todo(c) = todo[c] /\ Todo(c) # <<>> /\ Now(c).op = "scan" /\ Now(c).n \in Int
      /\ Held(c) = {"ptable"} /\ Mine(c) = {"ptable"} /\ Path(Tail(Todo(c)), {}, {})
  BY <1>1, Scanning
<1>3. PICK t \in Threads : t = Running(c) /\ Code(t) = Todo(c) /\ t = <<"cpu", c>> /\ Todo(c) \in Seq(Instructions(OpsOf(t)))
  BY <1>2, Runs DEF Core
<1>4. PICK R : R = {q \in Procs : q >= Now(c).n /\ proc[q].state = "RUNNABLE"}
  OBVIOUS
<1>5. UNCHANGED <<lock, boot, work, ticks, disk, given>>
  BY DEF scan
<1>6. DataTypes /\ DOMAIN proc = Procs
  BY DEF Core, DataTypes
<1>7. CASE R = {}
  <2>1. Then(c, <<release("ptable")>> \o scheduler) /\ UNCHANGED <<cpu, proc>>
    BY <1>4, <1>7 DEF scan
  <2>2. PICK X, code : X = OpsOf(Running(c)) \ Wild /\ code = <<release("ptable")>> \o scheduler
    OBVIOUS
  <2>3. {"acquire", "release", "sti", "scan"} \subseteq X
    BY <1>2, <2>2 DEF CpuOps, Wild, Special
  <2>4. Good(scheduler, X, {}, {})
    BY <2>3, GoodSmall
  <2>5. Good(<<release("ptable")>>, X, {"ptable"}, {})
    <3>1. PICK n \in Locks : n = "ptable"
      BY DEF Locks
    <3>2. {"acquire", "release"} \subseteq X
      BY <2>3
    <3>3. Good(<<release(n)>>, X, {n}, {})
      BY <3>2, GoodLocks
    <3> QED BY <3>1, <3>3
  <2>6. Good(code, X, {"ptable"}, {})
    BY <2>2, <2>4, <2>5, GoodConcat
  <2>7. \A k \in SUBSET Tokens : Leads(Held(c), Now(c), k) => Good(code, OpsOf(Running(c)) \ Wild, Held(c), k)
    <3>1. ASSUME NEW k \in SUBSET Tokens, Leads(Held(c), Now(c), k) PROVE k = {}
      BY <1>2, <3>1 DEF Leads
    <3> QED BY <1>2, <2>2, <2>6, <3>1
  <2>8. DOMAIN proc' = Procs /\ \A p \in Procs : DOMAIN proc'[p] = DOMAIN proc[p] /\ Stands(p)
    BY <1>6, <2>1, AtRest
  <2>9. disk'.queue \in Seq(Int) /\ ticks' \in Int /\ DOMAIN boot' = DOMAIN boot /\ DOMAIN disk' = DOMAIN disk
        /\ boot'.cpus = boot.cpus /\ boot'.use_lock = boot.use_lock
    BY <1>5, <1>6 DEF DataTypes
  <2>10. PICK op : op = "scan" /\ op # "back" /\ op \notin {"kfree", "acquire", "release"}
    OBVIOUS
  <2>11. Calm(c, op, code)
    BY <1>1, <1>5, <2>1, <2>2, <2>7, <2>8, <2>9, <2>10 DEF Calm
  <2> QED BY <2>11, Calmly
<1>8. CASE R # {}
  <2>1. PICK q : q = Min(R)
    OBVIOUS
  <2>2. q \in Procs /\ proc[q].state = "RUNNABLE" /\ q # 0
    <3>1. R \in SUBSET Nat
      BY <1>4 DEF Procs
    <3>2. q \in R
      BY <1>8, <2>1, <3>1, Least
    <3> QED BY <1>4, <3>2 DEF Procs
  <2>3. /\ proc' = [proc EXCEPT ![q].state = "RUNNING"]
        /\ cpu' = [cpu EXCEPT ![c] = [switchuvm(@, q) EXCEPT !.proc = q, !.run = q]]
        /\ Then(c, <<On("back", q)>>)
    BY <1>4, <1>8, <2>1 DEF scan
  <2>4. boot.use_lock
    BY <2>2 DEF Core, EarlyInv
  <2>5. ASSUME NEW d \in Apics PROVE cpu[d].run # q
    <3> SUFFICES ASSUME cpu[d].run = q PROVE FALSE
      OBVIOUS
    <3>1. "off" \in Held(d)
      BY <2>2 DEF Held
    <3>2. lock["ptable"] = d
      BY <3>1, Offs
    <3>3. lock["ptable"] = c
      BY <1>2 DEF Mine
    <3> QED BY <1>2, <2>2, <3>2, <3>3
  <2>6. PICK S, r : r = Tail(Todo(c)) /\ S = <<On("back", q)>> \o r
    OBVIOUS
  <2>7. todo' = [todo EXCEPT ![c] = S] /\ kern' = kern
    BY <1>2, <2>3, <2>6 DEF Then, Goto
  <2>8. DOMAIN todo = Apics /\ DOMAIN kern = Procs /\ DOMAIN cpu = Apics /\ CpuType(cpu[c])
    BY <1>6 DEF DataTypes
  <2>9. DOMAIN todo' = Apics /\ todo'[c] = S /\ \A d \in Apics \ {c} : todo'[d] = todo[d]
    BY <2>7, <2>8
  <2>10. /\ DOMAIN cpu' = Apics /\ CpuType(cpu'[c]) /\ \A d \in Apics \ {c} : cpu'[d] = cpu[d]
         /\ cpu'[c].run = q /\ cpu'[c].proc = q /\ cpu'[c].at = cpu[c].at /\ cpu'[c].ncli = cpu[c].ncli
         /\ cpu'[c].IF = cpu[c].IF
    BY <2>2, <2>3, <2>8 DEF CpuType, switchuvm
  <2>11. /\ DOMAIN proc' = Procs /\ \A p \in Procs : DOMAIN proc'[p] = DOMAIN proc[p]
         /\ proc'[q].state = "RUNNING" /\ \A p \in Procs \ {q} : proc'[p] = proc[p]
    <3>1. DOMAIN proc[q] = {"state", "pid", "parent", "killed", "chan", "kstack", "intena", "r"}
      BY <1>6, <2>2 DEF DataTypes
    <3> QED BY <1>6, <2>2, <2>3, <3>1
  <2>12. DataTypes'
    <3>1. \A d \in Apics : CpuType(cpu'[d])
      BY <1>6, <2>10 DEF DataTypes
    <3> QED BY <1>5, <1>6, <2>7, <2>9, <2>10, <2>11, <3>1 DEF DataTypes, CpuType
  <2>13. r \in Seq(Instructions(OpsOf(t)))
    BY <1>2, <1>3, <2>6, Next1 DEF Core
  <2>14. Good(<<On("back", q)>>, OpsOf(t), {"ptable"}, {})
    <3>1. PICK op \in {"back"} : TRUE
      OBVIOUS
    <3>2. op \in {"scan", "back", "find", "reap", "zombie exit"} \cap OpsOf(t)
      BY <1>2, <1>3 DEF CpuOps
    <3>3. q \in Int
      BY <2>2 DEF Procs
    <3> QED BY <3>1, <3>2, <3>3, GoodOps
  <2>15. S \in Seq(Instructions(OpsOf(t))) /\ Path(S, {"ptable"}, {})
    <3>1. Good(r, OpsOf(t), {}, {})
      BY <1>2, <2>6, <2>13 DEF Good
    <3> QED BY <2>6, <2>14, <3>1, GoodConcat DEF Good
  <2>16. S # <<>> /\ Head(S).op = "back"
    <3>1. PICK i : i = On("back", q) /\ i.op = "back"
      BY FieldsOn
    <3>2. PICK I : <<i>> \in Seq(I) /\ r \in Seq(I)
      <4>1. <<i>> \in Seq(Instructions(OpsOf(t)))
        BY <2>14, <3>1 DEF Good
      <4> QED BY <2>13, <4>1
    <3>3. Len(<<i>>) = 1 /\ <<i>>[1] = i
      OBVIOUS
    <3>4. PICK n \in Nat : n = Len(r)
      BY <2>13, LenProperties
    <3>5. S \in Seq(I) /\ Len(S) = 1 + n /\ S[1] = i
      <4>1. <<i>> \o r \in Seq(I) /\ Len(<<i>> \o r) = Len(<<i>>) + Len(r)
            /\ \A a \in 1 .. Len(<<i>>) + Len(r) : (<<i>> \o r)[a] = IF a <= Len(<<i>>) THEN <<i>>[a] ELSE r[a - Len(<<i>>)]
        BY <3>2, ConcatProperties
      <4>2. 1 \in 1 .. 1 + n
        OBVIOUS
      <4> QED BY <2>6, <3>1, <3>3, <3>4, <4>1, <4>2
    <3>6. S # <<>>
      BY <3>5, EmptySeq
    <3> QED BY <3>1, <3>5, <3>6, HeadTailProperties
  <2>17. \A v \in Threads : Code(v)' = IF v = t THEN S ELSE Code(v)
    <3>1. ASSUME NEW d \in Apics PROVE Code(<<"cpu", d>>)' = IF d = c THEN S ELSE Code(<<"cpu", d>>)
      BY <2>9, Names
    <3>2. ASSUME NEW p \in Procs PROVE Code(<<"proc", p>>)' = Code(<<"proc", p>>)
      BY <2>7, Names
    <3>3. ASSUME NEW v \in Threads PROVE Code(v)' = IF v = t THEN S ELSE Code(v)
      <4>1. CASE \E d \in Apics : v = <<"cpu", d>>
        <5>1. PICK d \in Apics : v = <<"cpu", d>>
          BY <4>1
        <5>2. v = t <=> d = c
          BY <1>3, <5>1
        <5> QED BY <3>1, <5>1, <5>2
      <4>2. CASE \E p \in Procs : v = <<"proc", p>>
        <5>1. PICK p \in Procs : v = <<"proc", p>>
          BY <4>2
        <5>2. v # t
          BY <1>3, <5>1
        <5> QED BY <3>2, <5>1, <5>2
      <4> QED BY <4>1, <4>2, Kinds
    <3> QED BY <3>3
  <2>18. \A b \in 1 .. Len(Todo(c)) : Todo(c)[b].op # "unused"
    <3>1. ASSUME NEW b \in 1 .. Len(Todo(c)) PROVE Todo(c)[b].op \in OpsOf(t)
      <4>1. Todo(c)[b] \in Instructions(OpsOf(t))
        BY <1>3, ElementOfSeq
      <4> QED BY <4>1 DEF Instructions
    <3>2. OpsOf(t) \subseteq CpuOps \cup BootOps
      BY <1>3 DEF OpsOf
    <3> QED BY <3>1, <3>2 DEF CpuOps, BootOps
  <2>19. \A p \in Procs : proc[p].state = "EMBRYO" => proc'[p].state = "EMBRYO"
    BY <2>2, <2>11
  <2>20. Leaves(c, t, S)
    <3>1. PICK i : i = On("back", q) /\ i.op \notin Wild
      BY FieldsOn DEF Wild, Special
    <3>2. S = <<i>> \o Tail(Todo(c))
      BY <2>6, <3>1
    <3>3. lock["ptable"] = c
      BY <1>2 DEF Mine
    <3> QED BY <1>2, <1>3, <1>5, <2>10, <2>12, <2>15, <2>17, <2>18, <2>19, <3>1, <3>2, <3>3 DEF Leaves
  <2>21. CodeTypes' /\ OrderInv' /\ FactInv' /\ OnceInv'
    BY <2>20, Leaving
  <2>22. \A d \in Apics : Mine(d)' = Mine(d)
    BY <1>5 DEF Mine
  <2>23. \A d \in Apics \ {c} : Todo(d)' = Todo(d)
    BY <2>7, <2>9, <2>10 DEF Todo
  <2>24. SaneInv'
    <3>1. ASSUME NEW d \in Apics \ {c} PROVE Sane(d)'
      <4>1. cpu[d].run # q /\ cpu[d].run \in Procs \cup {0}
        BY <1>6, <2>5 DEF DataTypes, CpuType
      <4>2. cpu[d].run # 0 => (proc'[cpu[d].run].state = "RUNNING" <=> proc[cpu[d].run].state = "RUNNING")
        BY <2>11, <4>1
      <4>3. boot'.use_lock = boot.use_lock /\ cpu'[d] = cpu[d] /\ Mine(d)' = Mine(d) /\ Todo(d)' = Todo(d) /\ Sane(d)
        BY <1>5, <2>10, <2>22, <2>23 DEF Core, SaneInv
      <4> QED BY <4>2, <4>3, Aside
    <3>2. Sane(c)'
      <4>1. Todo(c)' = kern[q]
        BY <2>2, <2>7, <2>10 DEF Todo
      <4>2. Path(kern[q], {"ptable"}, {})
        BY <2>2, <2>5 DEF Core, Sounds, Idle
      <4>3. Held(c)' = {"ptable"}
        BY <1>2, <2>2, <2>10, <2>11, <2>22 DEF Held
      <4>4. Sane(c)
        BY DEF Core, SaneInv
      <4> QED BY <1>2, <2>10, <2>22, <4>1, <4>2, <4>3, <4>4 DEF Sane
    <3> QED BY <3>1, <3>2 DEF SaneInv
  <2>25. Sounds'
    <3>1. ASSUME NEW d \in Apics, cpu'[d].run # 0 PROVE Path(todo'[d], {"ptable"}, {})
      BY <2>9, <2>10, <2>15, <3>1 DEF Core, Sounds
    <3>2. ASSUME NEW p \in Procs, Idle(p)', proc'[p].state \notin {"UNUSED", "EMBRYO"} PROVE Path(kern'[p], {"ptable"}, {})
      <4>1. p # q
        BY <2>10, <3>2 DEF Idle
      <4>2. ASSUME NEW d \in Apics PROVE cpu[d].run # p
        <5>1. cpu'[d].run # p
          BY <3>2 DEF Idle
        <5>2. CASE d = c
          BY <1>2, <5>2 DEF Procs
        <5>3. CASE d # c
          BY <2>10, <5>1, <5>3
        <5> QED BY <5>2, <5>3
      <4>3. Idle(p) /\ proc[p].state \notin {"UNUSED", "EMBRYO"}
        BY <2>11, <3>2, <4>1, <4>2 DEF Idle
      <4> QED BY <2>7, <4>3 DEF Core, Sounds
    <3> QED BY <3>1, <3>2 DEF Sounds
  <2>26. RunInv'
    <3>1. ASSUME NEW d \in Apics, cpu'[d].run # 0
          PROVE  /\ cpu'[d].proc = cpu'[d].run /\ proc'[cpu'[d].run].state \notin {"UNUSED", "EMBRYO"}
                 /\ todo'[d] # <<>> /\ Head(todo'[d]).op = "back"
                 /\ \A e \in Apics : cpu'[e].run = cpu'[d].run => e = d
      <4>1. CASE d = c
        <5>1. \A e \in Apics : cpu'[e].run = q => e = c
          BY <2>5, <2>10
        <5> QED BY <2>9, <2>10, <2>11, <2>16, <4>1, <5>1
      <4>2. CASE d # c
        <5>1. cpu'[d] = cpu[d] /\ cpu[d].run # 0 /\ cpu[d].run # q /\ cpu[d].run \in Procs /\ todo'[d] = todo[d]
          BY <1>6, <2>5, <2>9, <2>10, <3>1, <4>2 DEF DataTypes, CpuType
        <5>2. /\ cpu[d].proc = cpu[d].run /\ proc[cpu[d].run].state \notin {"UNUSED", "EMBRYO"}
              /\ todo[d] # <<>> /\ Head(todo[d]).op = "back"
              /\ \A e \in Apics : cpu[e].run = cpu[d].run => e = d
          BY <5>1 DEF Core, RunInv
        <5>3. proc'[cpu[d].run] = proc[cpu[d].run]
          BY <2>11, <5>1
        <5>4. \A e \in Apics : cpu'[e].run = cpu[d].run => e = d
          BY <2>10, <5>1, <5>2
        <5> QED BY <5>1, <5>2, <5>3, <5>4
      <4> QED BY <4>1, <4>2
    <3>2. ASSUME NEW d \in Apics, cpu'[d].run = 0 PROVE (cpu[d].proc = 0)' \/ (Todo(d) # <<>> /\ Now(d).op = "back")'
      <4>1. d # c
        BY <2>2, <2>10, <3>2
      <4>2. cpu[d].run = 0 /\ cpu'[d] = cpu[d] /\ Todo(d)' = Todo(d)
        BY <2>10, <2>23, <3>2, <4>1
      <4>3. cpu[d].proc = 0 \/ (Todo(d) # <<>> /\ Now(d).op = "back")
        BY <4>2 DEF Core, RunInv
      <4> QED BY <4>2, <4>3 DEF Now
    <3> QED BY <3>1, <3>2 DEF RunInv
  <2>27. EarlyInv'
    BY <1>5, <2>4 DEF EarlyInv
  <2> QED BY <2>12, <2>21, <2>24, <2>25, <2>26, <2>27 DEF Core
<1> QED BY <1>7, <1>8

LEMMA schedStep ==
  ASSUME Core, NEW c \in Apics, sched(c)
  PROVE  Core'
<1>1. PICK op : op = "sched" /\ Doing(c, op)
  BY DEF sched
<1>2. /\ cpu[c].at = "run" /\ Todo(c) # <<>> /\ Now(c).op = "sched" /\ cpu[c].proc = cpu[c].run
      /\ Running(c) \in Threads /\ op \in OpsOf(Running(c))
  BY <1>1, Doings
<1>3. op \notin CpuOps \cup BootOps
  BY <1>1 DEF CpuOps, BootOps
<1>4. PICK p \in Procs : Running(c) = <<"proc", p>>
  BY <1>2, <1>3, OfProc
<1>5. cpu[c].run = p /\ p # 0 /\ Me(c) = p
  <2>1. CASE cpu[c].run = 0
    BY <1>4, <2>1 DEF Running
  <2>2. CASE cpu[c].run # 0
    BY <1>2, <1>4, <2>2 DEF Running, Procs, Me
  <2> QED BY <2>1, <2>2
<1>6. PICK t \in Threads : t = Running(c) /\ Code(t) = Todo(c) /\ t = <<"proc", p>> /\ Todo(c) \in Seq(Instructions(OpsOf(t))) /\ Todo(c) = kern[p]
  BY <1>4, <1>5, Runs DEF Core
<1>7. OpsOf(t) = ProcOps
  BY <1>6 DEF OpsOf
<1>8. Held(c) = {"ptable", "off"} /\ Path(Tail(Todo(c)), {"ptable"}, {})
  <2>1. PICK k \in SUBSET Tokens : Leads(Held(c), Now(c), k) /\ Path(Tail(Todo(c)), k, {})
    BY <1>2, Next1 DEF Core
  <2> QED BY <1>2, <2>1 DEF Leads
<1>9. Mine(c) = {"ptable"} /\ lock["ptable"] = c
  <2>1. lock["ptable"] = c
    BY <1>8, Offs
  <2>2. Mine(c) \subseteq Held(c) /\ Mine(c) \subseteq Locks /\ "off" \notin Locks /\ "ptable" \in Locks
    BY DEF Held, Mine, Locks
  <2>3. "ptable" \in Mine(c)
    BY <2>1, <2>2 DEF Mine
  <2> QED BY <1>8, <2>1, <2>2, <2>3
<1>10. boot.use_lock
  BY <1>5 DEF Core, EarlyInv
<1>11. DataTypes /\ DOMAIN proc = Procs /\ DOMAIN cpu = Apics /\ CpuType(cpu[c]) /\ DOMAIN kern = Procs /\ DOMAIN todo = Apics
  BY DEF Core, DataTypes
<1>12. /\ proc' = [proc EXCEPT ![p].intena = cpu[c].intena] /\ cpu' = [cpu EXCEPT ![c].run = 0] /\ Then(c, Kept)
       /\ UNCHANGED <<lock, boot, work, ticks, disk, given>>
  BY <1>5 DEF sched
<1>13. PICK S, r : r = Tail(Todo(c)) /\ S = <<Do("intena")>> \o r
  OBVIOUS
<1>14. kern' = [kern EXCEPT ![p] = S] /\ todo' = todo
  BY <1>5, <1>12, <1>13 DEF Then, Goto, Kept
<1>15. DOMAIN kern' = Procs /\ kern'[p] = S /\ \A q \in Procs \ {p} : kern'[q] = kern[q]
  BY <1>11, <1>14
<1>16. /\ DOMAIN cpu' = Apics /\ CpuType(cpu'[c]) /\ \A d \in Apics \ {c} : cpu'[d] = cpu[d]
       /\ cpu'[c].run = 0 /\ cpu'[c].at = cpu[c].at /\ cpu'[c].ncli = cpu[c].ncli /\ cpu'[c].IF = cpu[c].IF
  BY <1>11, <1>12 DEF CpuType
<1>17. /\ DOMAIN proc' = Procs /\ \A q \in Procs : DOMAIN proc'[q] = DOMAIN proc[q] /\ proc'[q].state = proc[q].state
  <2>1. DOMAIN proc[p] = {"state", "pid", "parent", "killed", "chan", "kstack", "intena", "r"}
    BY <1>11 DEF DataTypes
  <2> QED BY <1>11, <1>12, <2>1
<1>18. DataTypes'
  <2>1. \A d \in Apics : CpuType(cpu'[d])
    BY <1>11, <1>16 DEF DataTypes
  <2> QED BY <1>11, <1>12, <1>14, <1>15, <1>16, <1>17, <2>1 DEF DataTypes, CpuType
<1>19. r \in Seq(Instructions(OpsOf(t)))
  BY <1>2, <1>6, <1>13, Next1 DEF Core
<1>20. S \in Seq(Instructions(OpsOf(t))) /\ Path(S, {"ptable"}, {})
  <2>1. Good(r, OpsOf(t), {"ptable"}, {})
    BY <1>8, <1>13, <1>19 DEF Good
  <2>2. Good(<<Do("intena")>>, OpsOf(t), {"ptable"}, {"ptable"})
    <3>1. PICK o \in {"intena"} : TRUE
      OBVIOUS
    <3>2. o \in {"tidy", "intena", "kill", "start", "unused", "wakeup1"} \cap OpsOf(t)
      BY <1>7 DEF ProcOps
    <3> QED BY <3>1, <3>2, GoodDo
  <2> QED BY <1>13, <2>1, <2>2, GoodConcat DEF Good
<1>21. \A v \in Threads : Code(v)' = IF v = t THEN S ELSE Code(v)
  <2>1. Goto(c, S)
    BY <1>12, <1>13 DEF Then, Kept
  <2> QED BY <1>6, <2>1, GoesTo DEF Core
<1>22. \A b \in 1 .. Len(Todo(c)) : Todo(c)[b].op # "unused"
  <2>1. Ordered(Todo(c))
    BY <1>6 DEF Core, OrderInv
  <2>2. Todo(c)[1] = Now(c)
    BY <1>2, <1>6, HeadTailProperties DEF Now
  <2>3. ASSUME NEW b \in 1 .. Len(Todo(c)) PROVE Todo(c)[b].op # "unused"
    <3>1. PICK n \in Nat : n = Len(Todo(c))
      BY <1>6, LenProperties
    <3>2. CASE b = 1
      BY <1>2, <2>2, <3>2
    <3>3. CASE b # 1
      <4>1. 1 \in 1 .. Len(Todo(c)) /\ 1 < b
        BY <3>1, <3>3
      <4>2. ~ Clash(Todo(c)[1], Todo(c)[b])
        BY <2>1, <4>1 DEF Ordered
      <4>3. ~ OfKmem(Now(c))
        BY <1>2 DEF OfKmem
      <4> QED BY <2>2, <4>2, <4>3 DEF Clash
    <3> QED BY <3>2, <3>3
  <2> QED BY <2>3
<1>23. Leaves(c, t, S)
  <2>1. PICK i : i = Do("intena") /\ i.op \notin Wild
    BY FieldsOn DEF Do, Wild, Special
  <2>2. S = <<i>> \o Tail(Todo(c))
    BY <1>13, <2>1
  <2>3. \A q \in Procs : proc[q].state = "EMBRYO" => proc'[q].state = "EMBRYO"
    BY <1>17
  <2> QED BY <1>2, <1>6, <1>9, <1>12, <1>16, <1>18, <1>20, <1>21, <1>22, <2>1, <2>2, <2>3 DEF Leaves
<1>24. CodeTypes' /\ OrderInv' /\ FactInv' /\ OnceInv'
  BY <1>23, Leaving
<1>25. \A d \in Apics : Mine(d)' = Mine(d)
  BY <1>12 DEF Mine
<1>26. \A d \in Apics \ {c} : cpu[d].run # p /\ cpu[d].run \in Procs \cup {0}
  BY <1>5, <1>11 DEF Core, RunInv, DataTypes, CpuType
<1>27. \A d \in Apics \ {c} : Todo(d)' = Todo(d)
  <2>1. ASSUME NEW d \in Apics \ {c} PROVE Todo(d)' = Todo(d)
    <3>1. cpu[d].run # p /\ cpu[d].run \in Procs \cup {0} /\ cpu'[d] = cpu[d]
      BY <1>16, <1>26
    <3>2. CASE cpu[d].run = 0
      BY <1>14, <3>1, <3>2 DEF Todo
    <3>3. CASE cpu[d].run # 0
      BY <1>15, <3>1, <3>3 DEF Todo
    <3> QED BY <3>2, <3>3
  <2> QED BY <2>1
<1>28. todo[c] # <<>> /\ Head(todo[c]).op = "back" /\ Path(todo[c], {"ptable"}, {}) /\ Todo(c)' = todo[c]
  <2>1. todo[c] # <<>> /\ Head(todo[c]).op = "back" /\ Path(todo[c], {"ptable"}, {})
    BY <1>5 DEF Core, RunInv, Sounds
  <2> QED BY <1>14, <1>16, <2>1 DEF Todo
<1>29. SaneInv'
  <2>1. ASSUME NEW d \in Apics \ {c} PROVE Sane(d)'
    <3>1. cpu[d].run # 0 => (proc'[cpu[d].run].state = "RUNNING" <=> proc[cpu[d].run].state = "RUNNING")
      BY <1>17, <1>26
    <3>2. boot'.use_lock = boot.use_lock /\ cpu'[d] = cpu[d] /\ Mine(d)' = Mine(d) /\ Todo(d)' = Todo(d) /\ Sane(d)
      BY <1>12, <1>16, <1>25, <1>27 DEF Core, SaneInv
    <3> QED BY <3>1, <3>2, Aside
  <2>2. Sane(c)'
    <3>1. Held(c)' = {"ptable"}
      BY <1>2, <1>9, <1>10, <1>12, <1>16, <1>25 DEF Held
    <3>2. Sane(c)
      BY DEF Core, SaneInv
    <3> QED BY <1>2, <1>16, <1>25, <1>28, <3>1, <3>2 DEF Sane
  <2> QED BY <2>1, <2>2 DEF SaneInv
<1>30. Sounds'
  <2>1. ASSUME NEW d \in Apics, cpu'[d].run # 0 PROVE Path(todo'[d], {"ptable"}, {})
    <3>1. d # c /\ cpu[d].run # 0
      BY <1>16, <2>1
    <3> QED BY <1>14, <3>1 DEF Core, Sounds
  <2>2. ASSUME NEW q \in Procs, Idle(q)', proc'[q].state \notin {"UNUSED", "EMBRYO"} PROVE Path(kern'[q], {"ptable"}, {})
    <3>1. CASE q = p
      BY <1>15, <1>20, <3>1
    <3>2. CASE q # p
      <4>1. ASSUME NEW d \in Apics PROVE cpu[d].run # q
        <5>1. cpu'[d].run # q
          BY <2>2 DEF Idle
        <5> QED BY <1>5, <1>16, <3>2, <5>1
      <4>2. Idle(q) /\ proc[q].state \notin {"UNUSED", "EMBRYO"}
        BY <1>17, <2>2, <4>1 DEF Idle
      <4> QED BY <1>15, <3>2, <4>2 DEF Core, Sounds
    <3> QED BY <3>1, <3>2
  <2> QED BY <2>1, <2>2 DEF Sounds
<1>31. RunInv'
  <2>1. ASSUME NEW d \in Apics, cpu'[d].run # 0
        PROVE  /\ cpu'[d].proc = cpu'[d].run /\ proc'[cpu'[d].run].state \notin {"UNUSED", "EMBRYO"}
               /\ todo'[d] # <<>> /\ Head(todo'[d]).op = "back"
               /\ \A e \in Apics : cpu'[e].run = cpu'[d].run => e = d
    <3>1. d # c /\ cpu'[d] = cpu[d] /\ cpu[d].run # 0 /\ cpu[d].run \in Procs /\ todo'[d] = todo[d]
      BY <1>14, <1>16, <1>26, <2>1
    <3>2. /\ cpu[d].proc = cpu[d].run /\ proc[cpu[d].run].state \notin {"UNUSED", "EMBRYO"}
          /\ todo[d] # <<>> /\ Head(todo[d]).op = "back"
          /\ \A e \in Apics : cpu[e].run = cpu[d].run => e = d
      BY <3>1 DEF Core, RunInv
    <3>3. \A e \in Apics : cpu'[e].run = cpu[d].run => e = d
      BY <1>16, <3>1, <3>2
    <3>4. proc'[cpu[d].run].state = proc[cpu[d].run].state
      BY <1>17, <3>1
    <3> QED BY <3>1, <3>2, <3>3, <3>4
  <2>2. ASSUME NEW d \in Apics, cpu'[d].run = 0 PROVE (cpu[d].proc = 0)' \/ (Todo(d) # <<>> /\ Now(d).op = "back")'
    <3>1. CASE d = c
      BY <1>28, <3>1 DEF Now
    <3>2. CASE d # c
      <4>1. cpu[d].run = 0 /\ cpu'[d] = cpu[d] /\ Todo(d)' = Todo(d)
        BY <1>16, <1>27, <2>2, <3>2
      <4>2. cpu[d].proc = 0 \/ (Todo(d) # <<>> /\ Now(d).op = "back")
        BY <4>1 DEF Core, RunInv
      <4> QED BY <4>1, <4>2 DEF Now
    <3> QED BY <3>1, <3>2
  <2> QED BY <2>1, <2>2 DEF RunInv
<1>32. EarlyInv'
  BY <1>10, <1>12 DEF EarlyInv
<1> QED BY <1>18, <1>24, <1>29, <1>30, <1>31, <1>32 DEF Core

----------------------------------------------------------------------------
(* The start, and all steps.                                               *)

LEMMA QuietAfter ==
  ASSUME NEW i, NEW j, j.op \notin Wild
  PROVE  ~ Clash(i, j)
  BY DEF Clash, Wild, Special

\* What is in the list of the first processor.
LEMMA MainKnows ==
  /\ Ordered(main)
  /\ \A a \in 1 .. Len(main) :
       /\ main[a].op \notin {"kstack", "start", "unused", "lapicstartap"}
       /\ main[a].op \in {"mpinit", "startothers"} => main[a].n = 1
<1>0. {"acquire", "release"} \subseteq CpuOps \cup BootOps /\ "find" \in CpuOps \cup BootOps
  BY DEF CpuOps, BootOps
<1>1. PICK X : X = CpuOps \cup BootOps /\ {"acquire", "release"} \subseteq X /\ "find" \in X
  BY <1>0
<1>2. PICK s : s = <<Do("kinit1"), Do("kalloc"), On("mpinit", 1), Do("lapicinit"), Do("consoleinit"), Do("ideinit"),
                     On("startothers", 1), Do("freerange"), Do("use_lock")>>
  OBVIOUS
<1>3. Len(s) = 9 /\ s[3].op = "mpinit" /\ s[7].op = "startothers" /\ s[3].n = 1 /\ s[7].n = 1
      /\ s[1].op = "kinit1" /\ s[2].op = "kalloc" /\ s[4].op = "lapicinit" /\ s[5].op = "consoleinit"
      /\ s[6].op = "ideinit" /\ s[8].op = "freerange" /\ s[9].op = "use_lock"
  BY <1>2 DEF Do, On
<1>4. ASSUME NEW a \in 1 .. Len(s)
      PROVE  /\ s[a].op \notin {"find", "kstack", "start", "reap", "unused", "lapicstartap"}
             /\ s[a].op \in {"mpinit", "startothers"} => s[a].n = 1
             /\ s[a].op = "mpinit" => a = 3
             /\ s[a].op = "startothers" => a = 7
  <2>1. a \in 1 .. 9
    BY <1>3
  <2>2. a = 1 \/ a = 2 \/ a = 3 \/ a = 4 \/ a = 5 \/ a = 6 \/ a = 7 \/ a = 8 \/ a = 9
    BY <2>1
  <2> QED BY <1>3, <2>2
<1>5. Ordered(s)
  <2>1. ASSUME NEW a \in 1 .. Len(s), NEW b \in 1 .. Len(s), a < b PROVE ~ Clash(s[a], s[b])
    <3>1. s[a].op \notin Special /\ s[b].op \notin Special /\ s[b].op \notin {"unused", "lapicstartap"}
      BY <1>4 DEF Special
    <3>2. ~ (s[a].op = "mpinit" /\ s[b].op = "mpinit") /\ ~ (s[a].op = "startothers" /\ s[b].op = "startothers")
      BY <1>4, <2>1
    <3>3. ~ (s[a].op = "startothers" /\ s[b].op = "mpinit") /\ s[a].op # "lapicstartap"
      BY <1>4, <2>1
    <3> QED BY <3>1, <3>2, <3>3 DEF Clash
  <2> QED BY <2>1 DEF Ordered
<1>6. s \in Seq(Instructions(X))
  <2>1. \A op \in {"kinit1", "kalloc", "mpinit", "lapicinit", "consoleinit", "ideinit", "startothers", "freerange", "use_lock"} :
          Do(op) \in Instructions(X) /\ On(op, 1) \in Instructions(X)
    <3>1. ASSUME NEW op \in {"kinit1", "kalloc", "mpinit", "lapicinit", "consoleinit", "ideinit", "startothers", "freerange", "use_lock"}
          PROVE  Do(op) \in Instructions(X) /\ On(op, 1) \in Instructions(X)
      <4>1. op \in X /\ op \notin {"acquire", "release"} /\ 1 \in Int
        BY <1>1 DEF CpuOps, BootOps
      <4> QED BY <4>1, TypeOfDo
    <3> QED BY <3>1
  <2>2. /\ Do("kinit1") \in Instructions(X) /\ Do("kalloc") \in Instructions(X) /\ On("mpinit", 1) \in Instructions(X)
        /\ Do("lapicinit") \in Instructions(X) /\ Do("consoleinit") \in Instructions(X) /\ Do("ideinit") \in Instructions(X)
        /\ On("startothers", 1) \in Instructions(X) /\ Do("freerange") \in Instructions(X) /\ Do("use_lock") \in Instructions(X)
    BY <2>1
  <2> QED BY <1>2, <2>2
<1>7. PICK u, w : u = allocproc /\ w = mpmain
  OBVIOUS
<1>8. u \in Seq(Instructions(X)) /\ Ordered(u) /\ \A a \in 1 .. Len(u) : u[a].op \in {"acquire", "find"}
  <2>1. u \in Seq(Instructions(X))
    BY <1>1, <1>7, GoodSmall DEF Good
  <2>2. PICK i, j : i = acquire("ptable") /\ j = Do("find") /\ i.op = "acquire" /\ j.op = "find"
    BY FieldsLock, FieldsOn DEF Do
  <2>3. u = <<i, j>>
    BY <1>7, <2>2 DEF allocproc
  <2>4. Ordered(u)
    BY <2>2, <2>3, OrderedPair DEF Wild, Special
  <2>5. Len(u) = 2 /\ u[1] = i /\ u[2] = j
    BY <2>3
  <2> QED BY <2>1, <2>2, <2>4, <2>5
<1>9. w \in Seq(Instructions(X \ Wild)) /\ Ordered(w) /\ \A a \in 1 .. Len(w) : w[a].op \notin Wild
  <2>1. PICK Y : Y = X \ Wild /\ {"acquire", "release"} \subseteq Y /\ {"cprintf", "idtinit", "started"} \subseteq Y
    BY <1>1 DEF CpuOps, Wild, Special
  <2>2. w \in Seq(Instructions(Y))
    BY <1>7, <2>1, GoodSmall DEF Good
  <2> QED BY <2>1, <2>2, QuietOrder
<1>10. PICK v : v = s \o u
  OBVIOUS
<1>11. v \in Seq(Instructions(X)) /\ w \in Seq(Instructions(X))
  <2>1. X \ Wild \subseteq X
    OBVIOUS
  <2> QED BY <1>6, <1>8, <1>9, <1>10, <2>1, MoreOps, ConcatProperties
<1>12. Ordered(v)
  <2>1. ASSUME NEW a \in 1 .. Len(s), NEW b \in 1 .. Len(u) PROVE ~ Clash(s[a], u[b])
    <3>1. s[a].op \notin Special /\ u[b].op \in {"acquire", "find"}
      BY <1>4, <1>8 DEF Special
    <3> QED BY <3>1 DEF Clash
  <2>2. Ordered(s \o u)
    BY <1>5, <1>6, <1>8, <2>1, OrderedConcat
  <2> QED BY <1>10, <2>2
<1>13. Ordered(v \o w)
  <2>1. \A a \in 1 .. Len(v), b \in 1 .. Len(w) : ~ Clash(v[a], w[b])
    BY <1>9, QuietAfter
  <2> QED BY <1>9, <1>11, <1>12, <2>1, OrderedConcat
<1>14. main = v \o w
  BY <1>2, <1>7, <1>10 DEF main
<1>15. ASSUME NEW a \in 1 .. Len(v)
       PROVE  /\ v[a].op \notin {"kstack", "start", "unused", "lapicstartap"}
              /\ v[a].op \in {"mpinit", "startothers"} => v[a].n = 1
  <2>1. PICK I : I = Instructions(X) /\ s \in Seq(I) /\ u \in Seq(I) /\ a \in 1 .. Len(s \o u)
    BY <1>6, <1>8, <1>10
  <2>2. \/ a \in 1 .. Len(s) /\ (s \o u)[a] = s[a]
        \/ \E b \in 1 .. Len(u) : (s \o u)[a] = u[b]
    BY <2>1, InConcat
  <2>3. CASE a \in 1 .. Len(s) /\ v[a] = s[a]
    BY <1>4, <2>3
  <2>4. CASE \E b \in 1 .. Len(u) : v[a] = u[b]
    BY <1>8, <2>4
  <2> QED BY <1>10, <2>2, <2>3, <2>4
<1>16. ASSUME NEW a \in 1 .. Len(main)
       PROVE  /\ main[a].op \notin {"kstack", "start", "unused", "lapicstartap"}
              /\ main[a].op \in {"mpinit", "startothers"} => main[a].n = 1
  <2>1. PICK I : I = Instructions(X) /\ v \in Seq(I) /\ w \in Seq(I) /\ a \in 1 .. Len(v \o w)
    BY <1>11, <1>14
  <2>2. \/ a \in 1 .. Len(v) /\ (v \o w)[a] = v[a]
        \/ \E b \in 1 .. Len(w) : (v \o w)[a] = w[b]
    BY <2>1, InConcat
  <2>3. CASE a \in 1 .. Len(v) /\ main[a] = v[a]
    BY <1>15, <2>3
  <2>4. CASE \E b \in 1 .. Len(w) : main[a] = w[b]
    BY <1>9, <2>4 DEF Wild, Special
  <2> QED BY <1>14, <2>2, <2>3, <2>4
<1> QED BY <1>13, <1>14, <1>16

LEMMA InitCore ==
  ASSUME Init
  PROVE  Core
<1>1. PICK g \in Scenarios : Start(g)
  BY DEF Init
<1>2. /\ given = g /\ work = g.work
      /\ cpu = [c \in Apics |-> Off] /\ lock = [l \in Locks |-> Nobody]
      /\ boot = [cpus |-> <<>>, started |-> {}, stack |-> 0, use_lock |-> FALSE, locking |-> FALSE,
                 route |-> Nobody, first |-> TRUE]
      /\ todo = [c \in Apics |-> IF c = BSP THEN main ELSE <<>>]
      /\ kern = [p \in Procs |-> <<>>] /\ proc = [p \in Procs |-> Unused] /\ ticks = 0
      /\ disk = [queue |-> <<>>, busy |-> FALSE, done |-> {}]
  BY <1>1 DEF Start
<1>3. BSP \in Apics /\ Apics \subseteq Nat /\ Nobody \notin Apics
  BY MachineAssumption DEF Nobody
<1>4. \A c \in Apics : cpu[c] = Off
  BY <1>2
<1>5. /\ Off.IF = FALSE /\ Off.ncli = 0 /\ Off.intena = FALSE /\ Off.run = 0 /\ Off.proc = 0 /\ Off.at = "run"
      /\ CpuType(Off)
  BY DEF Off, CpuType, Locks
<1>6. \A p \in Procs : proc[p].state = "UNUSED" /\ kern[p] = <<>>
  BY <1>2 DEF Unused
<1>7. todo[BSP] = main /\ \A c \in Apics \ {BSP} : todo[c] = <<>>
  BY <1>2, <1>3
<1>8. \A c \in Apics : Mine(c) = {}
  BY <1>2, <1>3 DEF Mine
<1>9. boot.cpus = <<>> /\ boot.use_lock = FALSE /\ Len(boot.cpus) = 0
  BY <1>2
<1>10. DataTypes
  <2>1. work \in [Procs -> Seq(Calls)] \/ (DOMAIN work = Procs /\ \A p \in Procs : work[p] \in Seq(Calls))
    <3>1. DOMAIN g.work = Procs /\ \A p \in Procs : g.work[p] \in Seq([op : {"fork", "wait", "kill", "sleep", "read", "exit"}, n : Int])
      BY MachineAssumption
    <3> QED BY <1>2, <3>1 DEF Calls
  <2>2. DOMAIN cpu = Apics /\ \A c \in Apics : CpuType(cpu[c])
    BY <1>2, <1>5
  <2>3. DOMAIN lock = Locks /\ \A l \in Locks : lock[l] \in Apics \cup {Nobody}
    BY <1>2
  <2>4. /\ DOMAIN boot = {"cpus", "started", "stack", "use_lock", "locking", "route", "first"}
        /\ boot.cpus \in Seq(Apics) /\ boot.use_lock \in BOOLEAN
    BY <1>2
  <2>5. DOMAIN todo = Apics /\ DOMAIN kern = Procs /\ DOMAIN proc = Procs
    BY <1>2
  <2>6. \A p \in Procs : DOMAIN proc[p] = {"state", "pid", "parent", "killed", "chan", "kstack", "intena", "r"}
    BY <1>2 DEF Unused
  <2>7. DOMAIN disk = {"queue", "busy", "done"} /\ disk.queue \in Seq(Int) /\ ticks \in Int /\ given \in Scenarios
    BY <1>2
  <2> QED BY <2>1, <2>2, <2>3, <2>4, <2>5, <2>6, <2>7 DEF DataTypes
<1>11. PICK b : b = <<"cpu", BSP>> /\ b \in Threads /\ Code(b) = main
  BY <1>3, <1>7, Names
<1>12. ASSUME NEW t \in Threads, t # b PROVE Code(t) = <<>>
  <2>1. CASE \E d \in Apics : t = <<"cpu", d>>
    BY <1>7, <1>11, <1>12, <2>1, Names
  <2>2. CASE \E p \in Procs : t = <<"proc", p>>
    BY <1>6, <2>2, Names
  <2> QED BY <2>1, <2>2, Kinds
<1>13. Good(main, OpsOf(b), {"early"}, {})
  <2>1. OpsOf(b) = CpuOps \cup BootOps
    BY <1>11 DEF OpsOf
  <2> QED BY <2>1, GoodStart
<1>14. CodeTypes
  <2>1. ASSUME NEW t \in Threads PROVE Code(t) \in Seq(Instructions(OpsOf(t)))
    <3>1. CASE t = b
      BY <1>11, <1>13, <3>1 DEF Good
    <3>2. CASE t # b
      <4>1. \A X : <<>> \in Seq(X)
        OBVIOUS
      <4> QED BY <1>12, <3>2, <4>1
    <3> QED BY <3>1, <3>2
  <2> QED BY <2>1 DEF CodeTypes
<1>15. SaneInv
  <2>1. ASSUME NEW c \in Apics PROVE Sane(c)
    <3>1. Todo(c) = todo[c]
      BY <1>4, <1>5 DEF Todo
    <3>2. Cardinality(Mine(c)) = 0
      BY <1>8, FS_EmptySet
    <3>3. Path(Todo(c), Held(c), {})
      <4>1. CASE c = BSP
        <5>1. Held(c) = {"early"}
          BY <1>4, <1>5, <1>8, <1>9, <4>1 DEF Held
        <5> QED BY <1>7, <1>13, <3>1, <4>1, <5>1 DEF Good
      <4>2. CASE c # BSP
        <5>1. Held(c) = {}
          BY <1>4, <1>5, <1>8, <1>9, <4>2 DEF Held
        <5>2. Path(<<>>, {}, {})
          BY PathEmpty
        <5> QED BY <1>7, <3>1, <4>2, <5>1, <5>2
      <4> QED BY <4>1, <4>2
    <3> QED BY <1>4, <1>5, <3>2, <3>3 DEF Sane
  <2> QED BY <2>1 DEF SaneInv
<1>16. Sounds /\ RunInv /\ EarlyInv
  BY <1>3, <1>4, <1>5, <1>6 DEF Sounds, RunInv, EarlyInv
<1>17. OrderInv
  <2>1. ASSUME NEW t \in Threads PROVE Ordered(Code(t))
    <3>1. CASE t = b
      BY <1>11, <3>1, MainKnows
    <3>2. CASE t # b
      <4>1. Len(Code(t)) = 0
        BY <1>12, <3>2
      <4> QED BY <4>1 DEF Ordered
    <3> QED BY <3>1, <3>2
  <2> QED BY <2>1 DEF OrderInv
<1>18. ASSUME NEW t \in Threads, NEW a \in 1 .. Len(Code(t))
       PROVE  /\ Code(t)[a].op \notin {"kstack", "start", "unused", "lapicstartap"}
              /\ Code(t)[a].op \in {"mpinit", "startothers"} => Code(t)[a].n = 1
  <2>1. CASE t = b
    BY <1>11, <1>18, <2>1, MainKnows
  <2>2. CASE t # b
    <3>1. Len(Code(t)) = 0
      BY <1>12, <2>2
    <3> QED BY <1>18, <3>1
  <2> QED BY <2>1, <2>2
<1>19. FactInv
  <2>1. ASSUME NEW t \in Threads, NEW a \in 1 .. Len(Code(t)), NEW i, i = Code(t)[a] PROVE Fact(t, i)
    <3>1. i.op \notin {"kstack", "start", "unused", "lapicstartap"} /\ (i.op \in {"mpinit", "startothers"} => i.n = 1)
      BY <1>18, <2>1
    <3>2. \A d \in Apics \ {BSP} : Asleep(d)
      BY <1>4, <1>7, <1>8 DEF Asleep
    <3> QED BY <1>9, <3>1, <3>2 DEF Fact
  <2>2. ASSUME NEW t \in Threads, NEW a \in 1 .. Len(Code(t)) PROVE Fact(t, Code(t)[a])
    <3>1. PICK i : i = Code(t)[a]
      OBVIOUS
    <3> QED BY <2>1, <3>1
  <2> QED BY <2>2 DEF FactInv
<1>20. OnceInv
  BY <1>9, <1>18 DEF OnceInv
<1> QED BY <1>10, <1>14, <1>15, <1>16, <1>17, <1>19, <1>20 DEF Core

LEMMA StepCore ==
  ASSUME Core, NEW c \in Apics, Step(c), ~ panic'
  PROVE  Core'
<1>1. CASE acquire_cli(c) \/ acquire_xchg(c) \/ release_unlock(c) \/ release_popcli(c)
  BY <1>1, acquire_cliStep, acquire_xchgStep, release_unlockStep, release_popcliStep
<1>2. CASE sti(c) \/ back(c) \/ sched_intena(c) \/ kalloc_peek(c) \/ iret(c) \/ lapicinit(c) \/ entry(c) \/ idtinit(c)
  BY <1>2, RegisterSteps
<1>3. CASE scan(c) \/ sched(c)
  BY <1>3, scanStep, schedStep
<1>4. CASE change(c) \/ allocproc_find(c) \/ allocproc_kstack(c)
  BY <1>4, changeStep, allocproc_findStep, allocproc_kstackStep
<1>5. CASE kalloc_take(c) \/ kfree_push(c) \/ freerange(c) \/ tick(c) \/ startothers_wait(c)
  BY <1>5, AllocatorSteps
<1>6. CASE timer(c) \/ ide(c)
  BY <1>6, InterruptSteps
<1>7. CASE request(c) \/ idestart(c) \/ ideintr(c) \/ await(c)
  BY <1>7, DiskDoneSteps, ideintrStep, awaitStep
<1>8. CASE syscall(c) \/ enter(c)
  BY <1>8, syscallStep, enterStep
<1>9. CASE mpinit(c) \/ use_lock(c) \/ lapicstartap(c)
  BY <1>9, mpinitStep, use_lockStep, lapicstartapStep
<1>10. CASE consoleinit(c) \/ ideinit(c) \/ started(c) \/ forkret_first(c)
  BY <1>10, BootFlagSteps
<1> QED BY <1>1, <1>2, <1>3, <1>4, <1>5, <1>6, <1>7, <1>8, <1>9, <1>10 DEF Step

LEMMA StillCore ==
  ASSUME Core, UNCHANGED vars
  PROVE  Core'
<1>1. PICK v : v = vars /\ vars' = v
  OBVIOUS
<1>2. /\ cpu' = cpu /\ lock' = lock /\ boot' = boot /\ todo' = todo /\ kern' = kern /\ proc' = proc /\ work' = work
      /\ ticks' = ticks /\ disk' = disk /\ given' = given
  BY DEF vars
<1>3. DataTypes'
  BY <1>2 DEF Core, DataTypes, CpuType
<1>4. \A t : Code(t)' = Code(t)
  BY <1>2 DEF Code
<1>5. CodeTypes' /\ OrderInv'
  BY <1>4 DEF Core, CodeTypes, OrderInv, Ordered, Clash, OfKmem
<1>6. \A c : Mine(c)' = Mine(c) /\ Todo(c)' = Todo(c) /\ Now(c)' = Now(c) /\ Running(c)' = Running(c)
  BY <1>2 DEF Mine, Todo, Now, Running
<1>7. \A c : Held(c)' = Held(c) /\ Asleep(c)' = Asleep(c)
  BY <1>2, <1>6 DEF Held, Asleep
<1>8. SaneInv'
  BY <1>2, <1>6, <1>7 DEF Core, SaneInv, Sane
<1>9. Sounds' /\ RunInv' /\ EarlyInv'
  BY <1>2, <1>6 DEF Core, Sounds, Idle, RunInv, EarlyInv
<1>10. OnceInv'
  BY <1>2, <1>4 DEF Core, OnceInv
<1>11. FactInv'
  <2>1. ASSUME NEW t \in Threads, NEW a \in 1 .. Len(Code(t)) PROVE Fact(t, Code(t)[a])'
    <3>1. PICK i : i = Code(t)[a] /\ Fact(t, i)
      BY DEF Core, FactInv
    <3>2. Fact(t, i)'
      <4>1. DataTypes
        BY DEF Core
      <4>2. i.op \in {"kstack", "start"} => proc'[i.n].state = "EMBRYO"
        BY <1>2, <3>1 DEF Fact
      <4>3. i.op = "start" => kern'[i.n] = forkret
        BY <1>2, <3>1 DEF Fact
      <4>4. i.op = "unused" => proc'[i.n].state = "ZOMBIE" /\ lock'["ptable"] = lock["ptable"] /\ \A d \in Apics : Running(d)' = Running(d)
        BY <1>2, <1>6, <3>1 DEF Fact
      <4>5. boot'.cpus = boot.cpus /\ given' = given /\ \A d \in Apics : Asleep(d) => Asleep(d)'
        BY <1>2, <1>7
      <4> QED BY <3>1, <4>1, <4>2, <4>3, <4>4, <4>5, FactKept
    <3> QED BY <1>4, <3>1, <3>2
  <2> QED BY <1>4, <2>1 DEF FactInv
<1> QED BY <1>3, <1>5, <1>8, <1>9, <1>10, <1>11 DEF Core

----------------------------------------------------------------------------
(* The theorems.                                                           *)

\* The inductive invariant: what a thread holds leads, along all that it has still to do in
\* the kernel, to no lock at all; the count of pushcli is that of the locks; and what a
\* thread is about to do to a process or a processor it may still do when it comes to it.
THEOREM MachineInvariant == Spec => []IInv
<1>1. Init => IInv
  BY InitCore DEF IInv
<1>2. IInv /\ [Next]_vars => IInv'
  <2> SUFFICES ASSUME IInv, [Next]_vars, ~ panic' PROVE Core'
    BY DEF IInv
  <2>1. CASE Next
    <3>1. Core /\ \E c \in Apics : Step(c)
      BY <2>1 DEF Next, IInv
    <3> QED BY <3>1, StepCore
  <2>2. CASE UNCHANGED vars
    <3>1. ~ panic
      BY <2>2 DEF vars
    <3>2. Core
      BY <3>1 DEF IInv
    <3> QED BY <2>2, <3>2, StillCore
  <2> QED BY <2>1, <2>2
<1> QED BY <1>1, <1>2, PTL DEF Spec

\* pushcli and popcli are matched (spinlock.c): the count of a processor is the number of
\* locks it holds, one more in the middle of acquire and of release, through every switch
\* of swtch and every interrupt.
THEOREM MachineNcliRight == Spec => []NcliRight
<1>1. IInv => NcliRight
  BY DEF IInv, Core, SaneInv, Sane, NcliRight
<1> QED BY <1>1, MachineInvariant, PTL

\* No interrupt comes to a processor that holds a lock, or is in the middle of acquire or
\* of release: a handler never finds its own processor in the way.
NoLockOpen == ~ panic => \A c \in Apics : cpu[c].IF => cpu[c].ncli = 0 /\ cpu[c].at = "run" /\ Mine(c) = {}

\* The same as a property of the machine: see NoLockOpen (pushcli of spinlock.c, trap.c).
THEOREM MachineNoLockOpen == Spec => []NoLockOpen
<1>1. ASSUME IInv, ~ panic, NEW c \in Apics, cpu[c].IF PROVE cpu[c].ncli = 0 /\ cpu[c].at = "run" /\ Mine(c) = {}
  <2>1. Core /\ Sane(c)
    BY <1>1 DEF IInv, Core, SaneInv
  <2>2. PICK n \in Nat : n = Cardinality(Mine(c))
    BY MineFinite DEF Locks
  <2>3. cpu[c].ncli = 0 /\ cpu[c].ncli = n + (IF cpu[c].at = "run" THEN 0 ELSE 1)
    BY <1>1, <2>1, <2>2 DEF Sane
  <2>4. cpu[c].at = "run"
    BY <2>2, <2>3
  <2> QED BY <2>1, <2>3, <2>4, Free
<1>2. IInv => NoLockOpen
  BY <1>1 DEF NoLockOpen
<1> QED BY <1>2, MachineInvariant, PTL

\* What a thread has, of which an operation of the table needs one.
LEMMA Guards ==
  ASSUME Core, NEW c \in Apics, cpu[c].at = "run", Todo(c) # <<>>, NEW l \in Locks, l \in Held(c)
  PROVE  lock[l] = c
<1>1. l \notin {"early", "off"}
  BY DEF Locks
<1>2. l \in Mine(c)
  BY <1>1 DEF Held
<1> QED BY <1>2 DEF Mine

LEMMA AccessLocked ==
  ASSUME Core
  PROVE  EveryAccessLocked
<1> SUFFICES ASSUME NEW c \in Apics, cpu[c].at = "run", Todo(c) # <<>>, Now(c).op \in DOMAIN Guarded,
                    NEW l, l = Guarded[Now(c).op]
             PROVE  IF l = "kmem" /\ ~ boot.use_lock THEN c = BSP ELSE lock[l] = c
  BY DEF EveryAccessLocked
<1>1. PICK k \in SUBSET Tokens : Leads(Held(c), Now(c), k)
  BY Next1 DEF Core
<1>2. PICK i, h : i = Now(c) /\ h = Held(c) /\ Leads(h, i, k) /\ i.op \in DOMAIN Guarded /\ l = Guarded[i.op]
  BY <1>1
<1>3. CASE i.op \in {"scan", "back", "sched", "find", "reap", "block", "tidy", "runnable", "wakeup1", "zombie",
                     "kill", "start", "unused"}
  <2>1. l = "ptable"
    BY <1>2, <1>3 DEF Guarded
  <2>2. "ptable" \in h
    BY <1>2, <1>3 DEF Leads
  <2> QED BY <1>2, <2>1, <2>2, Guards DEF Locks
<1>4. CASE i.op \in {"tick", "since", "doze"}
  <2>1. l = "tickslock"
    BY <1>2, <1>4 DEF Guarded
  <2>2. "tickslock" \in h
    BY <1>2, <1>4 DEF Leads
  <2> QED BY <1>2, <2>1, <2>2, Guards DEF Locks
<1>5. CASE i.op \in {"request", "ideintr", "idestart", "await"}
  <2>1. l = "idelock"
    BY <1>2, <1>5 DEF Guarded
  <2>2. "idelock" \in h
    BY <1>2, <1>5 DEF Leads
  <2> QED BY <1>2, <2>1, <2>2, Guards DEF Locks
<1>6. CASE i.op \in {"peek", "take", "kfree", "kinit1", "freerange"}
  <2>1. l = "kmem"
    BY <1>2, <1>6 DEF Guarded
  <2>2. "kmem" \in h \/ "early" \in h
    BY <1>2, <1>6 DEF Leads
  <2>3. CASE boot.use_lock
    <3>1. "early" \notin h
      <4>1. "early" \notin Mine(c) /\ Now(c).op \notin {"acquire", "release"}
        BY <1>2, <1>6 DEF Mine, Locks
      <4> QED BY <1>2, <2>3, <4>1 DEF Held
    <3> QED BY <1>2, <2>1, <2>2, <2>3, <3>1, Guards DEF Locks
  <2>4. CASE ~ boot.use_lock
    <3>1. Running(c) = <<"cpu", c>>
      BY <2>4 DEF Core, EarlyInv, Running
    <3>2. i.op \in OpsOf(Running(c))
      <4>1. Now(c) \in Instructions(OpsOf(Running(c)))
        BY Next1 DEF Core
      <4> QED BY <1>2, <4>1 DEF Instructions
    <3>3. c = BSP
      BY <1>6, <3>1, <3>2 DEF OpsOf, CpuOps
    <3> QED BY <2>1, <2>4, <3>3
  <2> QED BY <2>3, <2>4
<1> QED BY <1>2, <1>3, <1>4, <1>5, <1>6 DEF Guarded

\* What a lock is for is touched only by its holder (proc.c, trap.c, ide.c, kalloc.c), also
\* across the switch from one thread to another, and the allocator only by the processor
\* that boots until its lock is in use.
THEOREM MachineAccessLocked == Spec => [](~ panic => EveryAccessLocked)
<1>1. IInv => (~ panic => EveryAccessLocked)
  BY AccessLocked DEF IInv
<1> QED BY <1>1, MachineInvariant, PTL

\* Who spins has only locks of a lower place in the order.
LEMMA SpinsBelow ==
  ASSUME Core, NEW c \in Apics, Spins(c)
  PROVE  cpu[c].lk \in Locks /\ Mine(c) \subseteq Below(cpu[c].lk)
<1>1. Todo(c) # <<>> /\ Now(c).op = "acquire" /\ cpu[c].lk = Now(c).on
  BY DEF Core, SaneInv, Sane, Spins
<1>2. PICK k \in SUBSET Tokens : Leads(Held(c), Now(c), k)
  BY <1>1, Next1 DEF Core
<1>3. Held(c) \subseteq Below(Now(c).on)
  BY <1>1, <1>2 DEF Leads
<1>4. Mine(c) \subseteq Held(c)
  BY DEF Held
<1>5. cpu[c].lk \in Locks
  BY DEF Core, DataTypes, CpuType
<1> QED BY <1>1, <1>3, <1>4, <1>5

\* No set of processors spins in a circle, however many there are: in each set one does not
\* spin for what another one of the set holds.
NoCircle == ~ panic => \A S \in SUBSET Apics : S # {} => \E c \in S : \A d \in S : ~ Awaits(c, d)

\* Spin locks are taken in one order (tickslock and idelock, then ptable.lock, then that of
\* kmem), so that acquire of spinlock.c cannot deadlock: see NoCircle.
THEOREM MachineNoCircle == Spec => []NoCircle
<1>1. ASSUME Core, NEW S \in SUBSET Apics, S # {} PROVE \E c \in S : \A d \in S : ~ Awaits(c, d)
  <2> SUFFICES ASSUME \A c \in S : \E d \in S : Awaits(c, d) PROVE FALSE
    OBVIOUS
  <2>1. ASSUME NEW c \in S
        PROVE  /\ cpu[c].lk \in {"ptable", "kmem"}
               /\ cpu[c].lk = "ptable" => \E d \in S : cpu[d].lk = "kmem"
               /\ cpu[c].lk # "kmem"
    <3>1. PICK d \in S : Awaits(c, d)
      OBVIOUS
    <3>2. Spins(c) /\ lock[cpu[c].lk] = d
      BY <3>1 DEF Awaits
    <3>3. PICK e \in S : Awaits(d, e)
      OBVIOUS
    <3>4. Spins(d)
      BY <3>3 DEF Awaits
    <3>5. PICK l \in Locks, m \in Locks : l = cpu[c].lk /\ m = cpu[d].lk /\ Mine(d) \subseteq Below(m)
      BY <1>1, <3>2, <3>4, SpinsBelow
    <3>6. l \in Mine(d)
      BY <3>2, <3>5 DEF Mine
    <3>7. l \in Below(m)
      BY <3>5, <3>6
    <3>8. (m = "ptable" /\ l \in {"tickslock", "idelock"}) \/ (m = "kmem" /\ l = "ptable")
      BY <3>7 DEF Below
    <3>9. PICK f \in S : Awaits(e, f)
      OBVIOUS
    <3>10. Spins(e) /\ lock[cpu[d].lk] = e
      BY <3>3, <3>9 DEF Awaits
    <3>11. PICK n \in Locks : n = cpu[e].lk /\ Mine(e) \subseteq Below(n)
      BY <1>1, <3>10, SpinsBelow
    <3>12. m \in Below(n)
      BY <3>5, <3>10, <3>11 DEF Mine
    <3>13. m = "ptable" /\ n = "kmem"
      BY <3>8, <3>12 DEF Below
    <3>14. PICK g \in S : Awaits(f, g)
      OBVIOUS
    <3>15. Spins(f) /\ lock[cpu[e].lk] = f
      BY <3>9, <3>14 DEF Awaits
    <3>16. PICK o \in Locks : o = cpu[f].lk /\ Mine(f) \subseteq Below(o)
      BY <1>1, <3>15, SpinsBelow
    <3>17. n \in Below(o)
      BY <3>11, <3>15, <3>16 DEF Mine
    <3> QED BY <3>13, <3>17 DEF Below
  <2> QED BY <1>1, <2>1
<1>2. IInv => NoCircle
  BY <1>1 DEF IInv, NoCircle
<1> QED BY <1>2, MachineInvariant, PTL

\* No process runs on two processors, and mycpu()->proc is the one that runs: between swtch
\* and the next line of scheduler the process that has just stopped.
OneProcessor ==
  ~ panic => \A c \in Apics : cpu[c].run # 0 =>
    /\ cpu[c].proc = cpu[c].run /\ proc[cpu[c].run].state \notin {"UNUSED", "EMBRYO"}
    /\ \A d \in Apics : cpu[d].run = cpu[c].run => d = c

\* The scheduler of a processor never takes a process that another one runs: see OneProcessor.
THEOREM MachineOneProcessor == Spec => []OneProcessor
<1>1. IInv => OneProcessor
  BY DEF IInv, Core, RunInv, OneProcessor
<1> QED BY <1>1, MachineInvariant, PTL

\* None of the panics of spinlock.c and of sched happens: release of a lock that is not
\* held, popcli too often or with interrupts on, sched without ptable.lock, with another
\* lock, of a process that is RUNNING, or with interrupts on; and acquire never finds its own
\* processor to be the holder, so that its panic is that of mycpu.
NoLockPanic ==
  \A c \in Apics :
    /\ release_unlock(c) \/ release_popcli(c) \/ sched(c) => ~ panic'
    /\ acquire_cli(c) /\ panic' => ~ Known(c)

LEMMA LocksDoNotPanic ==
  ASSUME Core
  PROVE  NoLockPanic
<1>1. ASSUME NEW c \in Apics, release_unlock(c) PROVE ~ panic'
  <2>1. PICK op \in {"release"} : Doing(c, op)
    BY <1>1 DEF release_unlock
  <2>2. cpu[c].at = "run" /\ Todo(c) # <<>> /\ Now(c).op = "release" /\ Now(c).on \in Locks
    BY <2>1, Doings
  <2>3. PICK k \in SUBSET Tokens : Leads(Held(c), Now(c), k)
    BY <2>2, Next1 DEF Core
  <2>4. Now(c).on \in Held(c)
    BY <2>2, <2>3 DEF Leads
  <2>5. lock[Now(c).on] = c
    BY <2>2, <2>4, Guards
  <2> QED BY <1>1, <2>5 DEF release_unlock, holding
<1>2. ASSUME NEW c \in Apics, release_popcli(c) PROVE ~ panic'
  <2>1. PICK n \in Nat : n = Cardinality(Mine(c))
    BY MineFinite DEF Locks
  <2>2. cpu[c].ncli = n + 1
    BY <1>2, <2>1 DEF release_popcli, Core, SaneInv, Sane
  <2>3. ~ cpu[c].IF
    BY <2>1, <2>2 DEF Core, SaneInv, Sane
  <2>4. panic' = (cpu[c].IF \/ cpu[c].ncli = 0)
    BY <1>2 DEF release_popcli
  <2>5. cpu[c].ncli # 0
    BY <2>1, <2>2
  <2> QED BY <2>3, <2>4, <2>5
<1>3. ASSUME NEW c \in Apics, sched(c) PROVE ~ panic'
  <2>1. PICK op : op = "sched" /\ Doing(c, op) /\ op \notin CpuOps \cup BootOps /\ op # "back"
    <3>1. "sched" \notin CpuOps \cup BootOps /\ "sched" # "back"
      BY DEF CpuOps, BootOps
    <3> QED BY <1>3, <3>1 DEF sched
  <2>2. /\ cpu[c].at = "run" /\ Todo(c) # <<>> /\ Now(c).op = "sched" /\ cpu[c].proc = cpu[c].run
        /\ Running(c) \in Threads /\ op \in OpsOf(Running(c))
    BY <2>1, Doings
  <2>3. cpu[c].run # 0
    <3>1. \E p \in Procs : Running(c) = <<"proc", p>>
      BY <2>1, <2>2, OfProc
    <3> QED BY <3>1 DEF Running
  <2>4. PICK k \in SUBSET Tokens : Leads(Held(c), Now(c), k)
    BY <2>2, Next1 DEF Core
  <2>5. Held(c) = {"ptable", "off"}
    BY <2>2, <2>4 DEF Leads
  <2>6. lock["ptable"] = c
    BY <2>5, Offs
  <2>7. Mine(c) = {"ptable"}
    <3>1. Mine(c) \subseteq Held(c) /\ Mine(c) \subseteq Locks /\ "off" \notin Locks /\ "ptable" \in Locks
      BY DEF Held, Mine, Locks
    <3>2. "ptable" \in Mine(c)
      BY <2>6, <3>1 DEF Mine
    <3> QED BY <2>5, <3>1, <3>2
  <2>8. cpu[c].ncli = 1
    <3>1. Cardinality(Mine(c)) = 1
      BY <2>7, FS_Singleton
    <3> QED BY <2>2, <3>1 DEF Core, SaneInv, Sane
  <2>9. proc[Me(c)].state # "RUNNING"
    <3>1. "off" \notin Mine(c) /\ "off" \in Held(c)
      BY <2>5, <2>7
    <3> QED BY <2>2, <2>3, <3>1 DEF Held, Me
  <2>10. ~ cpu[c].IF
    BY <2>8 DEF Core, SaneInv, Sane
  <2> QED BY <1>3, <2>6, <2>8, <2>9, <2>10 DEF sched, holding
<1>4. ASSUME NEW c \in Apics, acquire_cli(c), panic' PROVE ~ Known(c)
  <2>1. PICK op \in {"acquire"} : Doing(c, op)
    BY <1>4 DEF acquire_cli
  <2>2. cpu[c].at = "run" /\ Todo(c) # <<>> /\ Now(c).op = "acquire" /\ Now(c).on \in Locks
    BY <2>1, Doings
  <2>3. PICK k \in SUBSET Tokens : Leads(Held(c), Now(c), k)
    BY <2>2, Next1 DEF Core
  <2>4. Held(c) \subseteq Below(Now(c).on)
    BY <2>2, <2>3 DEF Leads
  <2>5. Now(c).on \notin Mine(c)
    BY <2>4 DEF Held, Below
  <2>6. ~ holding(c, Now(c).on)
    BY <2>2, <2>5 DEF Mine, holding
  <2> QED BY <1>4, <2>6 DEF acquire_cli
<1> QED BY <1>1, <1>2, <1>3, <1>4 DEF NoLockPanic

\* No step of the machine is one of these panics: see NoLockPanic.
THEOREM MachineNoLockPanic == Spec => [][NoLockPanic]_vars
<1>1. IInv /\ [Next]_vars => [NoLockPanic]_vars
  <2> SUFFICES ASSUME IInv, Next PROVE NoLockPanic
    BY DEF IInv
  <2>1. Core
    BY DEF IInv, Next
  <2> QED BY <2>1, LocksDoNotPanic
<1> QED BY <1>1, MachineInvariant, PTL DEF Spec
=============================================================================
