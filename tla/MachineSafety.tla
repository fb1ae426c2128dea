---------------------------- MODULE MachineSafety ----------------------------
(***************************************************************************)
(* Proof that MachineInv!ListInv, TrapInv and WakeInv are invariants of     *)
(* Machine: that interrupts are off where they must be, and that no wakeup  *)
(* is lost.                                                                *)
(***************************************************************************)
EXTENDS MachineProofs

----------------------------------------------------------------------------
(* Lists in which nothing is out of order.                                 *)

\* Where the elements of two lists are in the one they make.
LEMMA ConcatIs ==
  ASSUME NEW S, NEW s \in Seq(S), NEW r \in Seq(S), NEW m \in Nat, NEW n \in Nat, m = Len(s), n = Len(r)
  PROVE  /\ s \o r \in Seq(S) /\ Len(s \o r) = m + n
         /\ \A x \in 1 .. m : (s \o r)[x] = s[x]
         /\ \A x \in 1 .. n : (s \o r)[m + x] = r[x]
<1>1. /\ s \o r \in Seq(S) /\ Len(s \o r) = Len(s) + Len(r)
      /\ \A i \in 1 .. Len(s) + Len(r) : (s \o r)[i] = IF i <= Len(s) THEN s[i] ELSE r[i - Len(s)]
  BY ConcatProperties
<1>2. \A x \in 1 .. m : x \in 1 .. m + n /\ x <= m
  OBVIOUS
<1>3. \A x \in 1 .. n : m + x \in 1 .. m + n /\ ~ (m + x <= m) /\ (m + x) - m = x
  OBVIOUS
<1>4. \A x \in 1 .. m : (s \o r)[x] = s[x]
  BY <1>1, <1>2
<1>5. \A x \in 1 .. n : (s \o r)[m + x] = r[x]
  BY <1>1, <1>3
<1> QED BY <1>1, <1>4, <1>5

LEMMA SmoothConcat ==
  ASSUME NEW S, NEW s \in Seq(S), NEW r \in Seq(S), Smooth(s), Smooth(r),
         \A a \in 1 .. Len(s), b \in 1 .. Len(r) : ~ Rough(s[a], r[b])
  PROVE  Smooth(s \o r)
<1>1. PICK m \in Nat, n \in Nat : m = Len(s) /\ n = Len(r)
  BY LenProperties
<1>2. Len(s \o r) = m + n /\ \A i \in 1 .. m + n : (s \o r)[i] = IF i <= m THEN s[i] ELSE r[i - m]
  BY <1>1, ConcatProperties
<1>3. ASSUME NEW a \in 1 .. m + n, NEW b \in 1 .. m + n, a < b PROVE ~ Rough((s \o r)[a], (s \o r)[b])
  <2>1. CASE b <= m
    <3>1. a \in 1 .. m /\ b \in 1 .. m /\ (s \o r)[a] = s[a] /\ (s \o r)[b] = s[b]
      BY <1>1, <1>2, <1>3, <2>1
    <3> QED BY <1>1, <1>3, <3>1 DEF Smooth
  <2>2. CASE a <= m /\ ~ (b <= m)
    <3>1. a \in 1 .. m /\ b - m \in 1 .. n /\ (s \o r)[a] = s[a] /\ (s \o r)[b] = r[b - m]
      BY <1>1, <1>2, <1>3, <2>2
    <3> QED BY <1>1, <3>1
  <2>3. CASE ~ (a <= m) /\ ~ (b <= m)
    <3>1. a - m \in 1 .. n /\ b - m \in 1 .. n /\ a - m < b - m /\ (s \o r)[a] = r[a - m] /\ (s \o r)[b] = r[b - m]
      BY <1>1, <1>2, <1>3, <2>3
    <3> QED BY <1>1, <3>1 DEF Smooth
  <2>4. ~ (b <= m) \/ a <= m
    BY <1>1, <1>3
  <2> QED BY <2>1, <2>2, <2>3, <2>4
<1> QED BY <1>2, <1>3 DEF Smooth

LEMMA SmoothTail ==
  ASSUME NEW S, NEW s \in Seq(S), s # <<>>, Smooth(s)
  PROVE  Smooth(Tail(s)) /\ \A b \in 1 .. Len(Tail(s)) : ~ Rough(Head(s), Tail(s)[b])
<1>1. Len(s) \in Nat \ {0} /\ Len(Tail(s)) = Len(s) - 1 /\ Head(s) = s[1] /\ \A b \in 1 .. Len(Tail(s)) : Tail(s)[b] = s[b + 1]
  BY HeadTailProperties, EmptySeq
<1>2. \A b \in 1 .. Len(Tail(s)) : b + 1 \in 1 .. Len(s) /\ 1 < b + 1 /\ 1 \in 1 .. Len(s)
  BY <1>1
<1>3. \A b \in 1 .. Len(Tail(s)) : ~ Rough(Head(s), Tail(s)[b])
  BY <1>1, <1>2 DEF Smooth
<1>4. ASSUME NEW a \in 1 .. Len(Tail(s)), NEW b \in 1 .. Len(Tail(s)), a < b PROVE ~ Rough(Tail(s)[a], Tail(s)[b])
  <2>1. a + 1 \in 1 .. Len(s) /\ b + 1 \in 1 .. Len(s) /\ a + 1 < b + 1
    BY <1>4, <1>1
  <2> QED BY <2>1, <1>1 DEF Smooth
<1> QED BY <1>3, <1>4 DEF Smooth

\* What is never rough to come to.
RoughOps == {"iret", "intena", "wakeup1", "ideintr", "tick", "idestart", "block", "await", "request"}

LEMMA SmoothPair ==
  ASSUME NEW i, NEW j, j.op \notin RoughOps
  PROVE  ~ Rough(i, j)
<1>1. j # Irq
  BY FieldsOn DEF Irq, RoughOps
<1> QED BY <1>1 DEF Rough, RoughOps

LEMMA OpsAre ==
  ASSUME NEW X, NEW s \in Seq(Instructions(X)), NEW a \in 1 .. Len(s)
  PROVE  s[a] \in Instructions(X) /\ s[a].op \in X
<1>1. s[a] \in Instructions(X)
  BY ElementOfSeq
<1> QED BY <1>1 DEF Instructions

LEMMA SmoothMild ==
  ASSUME NEW X, X \cap RoughOps = {}, NEW s \in Seq(Instructions(X))
  PROVE  Smooth(s)
<1>1. ASSUME NEW a \in 1 .. Len(s), NEW b \in 1 .. Len(s) PROVE ~ Rough(s[a], s[b])
  <2>1. s[b].op \notin RoughOps
    BY OpsAre
  <2> QED BY <2>1, SmoothPair
<1> QED BY <1>1 DEF Smooth

\* Where what comes first is no rougher than i, that had the rest behind it.
LEMMA SmoothInFront ==
  ASSUME NEW S, NEW s \in Seq(S), NEW r \in Seq(S), Smooth(s), Smooth(r), NEW i,
         \A b \in 1 .. Len(r) : ~ Rough(i, r[b]),
         i.op \notin {"acquire", "release", "tick", "wakeup1"},
         \A a \in 1 .. Len(s) : (s[a].op \in Opens => i.op \in Opens) /\ (s[a].op \in {"await", "forkret"} => i.op \in {"await", "forkret"})
  PROVE  Smooth(s \o r)
<1>1. ASSUME NEW a \in 1 .. Len(s), NEW b \in 1 .. Len(r) PROVE ~ Rough(s[a], r[b])
  <2>1. ~ Rough(i, r[b])
    OBVIOUS
  <2>2. (s[a].op \in Opens => i.op \in Opens) /\ (s[a].op \in {"await", "forkret"} => i.op \in {"await", "forkret"})
    OBVIOUS
  <2> QED BY <2>1, <2>2 DEF Rough
<1> QED BY <1>1, SmoothConcat

\* What wakes somebody, in a list by itself.
LEMMA SmoothOne ==
  ASSUME NEW i
  PROVE  Smooth(<<i>>)
<1>1. Len(<<i>>) = 1
  OBVIOUS
<1> QED BY <1>1 DEF Smooth

LEMMA SmoothTwo ==
  ASSUME NEW i, NEW j, ~ Rough(i, j)
  PROVE  Smooth(<<i, j>>)
<1>1. Len(<<i, j>>) = 2 /\ <<i, j>>[1] = i /\ <<i, j>>[2] = j
  OBVIOUS
<1>2. \A a, b \in 1 .. 2 : a < b => a = 1 /\ b = 2
  OBVIOUS
<1> QED BY <1>1, <1>2 DEF Smooth

LEMMA SmoothThree ==
  ASSUME NEW i, NEW j, NEW k, ~ Rough(i, j), ~ Rough(i, k), ~ Rough(j, k)
  PROVE  Smooth(<<i, j, k>>)
<1>1. Len(<<i, j, k>>) = 3 /\ <<i, j, k>>[1] = i /\ <<i, j, k>>[2] = j /\ <<i, j, k>>[3] = k
  OBVIOUS
<1>2. \A a, b \in 1 .. 3 : a < b => (a = 1 /\ b = 2) \/ (a = 1 /\ b = 3) \/ (a = 2 /\ b = 3)
  OBVIOUS
<1> QED BY <1>1, <1>2 DEF Smooth

----------------------------------------------------------------------------
(* The code of sleep and wakeup.                                           *)

\* What sleep does when it has a lock to give up, place by place.
LEMMA SleepIs ==
  ASSUME NEW chan \in Int, NEW lk \in {"tickslock", "idelock"}, NEW s, s = sleep(chan, lk)
  PROVE  /\ s \in Seq(Instructions({"acquire", "release", "block", "sched", "tidy"})) /\ Len(s) = 7
         /\ s[1] = acquire("ptable") /\ s[2] = release(lk) /\ s[3] = On("block", chan) /\ s[4] = Do("sched")
         /\ s[5] = Do("tidy") /\ s[6] = release("ptable") /\ s[7] = acquire(lk)
<1>1. PICK X : X = {"acquire", "release", "block", "sched", "tidy"}
  OBVIOUS
<1>2. s \in Seq(Instructions(X))
  BY <1>1, GoodSleep DEF Good
<1>3. PICK i1, i2, i3, i4, i5, i6, i7 :
        /\ i1 = acquire("ptable") /\ i2 = release(lk) /\ i3 = On("block", chan) /\ i4 = Do("sched")
        /\ i5 = Do("tidy") /\ i6 = release("ptable") /\ i7 = acquire(lk)
  OBVIOUS
<1>4. s = <<i1, i2>> \o <<i3, i4, i5>> \o <<i6, i7>>
  BY <1>3 DEF sleep
<1>5. PICK S : S = {i1, i2, i3, i4, i5, i6, i7}
  OBVIOUS
<1>6. PICK a \in Seq(S), b \in Seq(S), e \in Seq(S) : a = <<i1, i2>> /\ b = <<i3, i4, i5>> /\ e = <<i6, i7>>
  <2>1. <<i1, i2>> \in Seq(S) /\ <<i3, i4, i5>> \in Seq(S) /\ <<i6, i7>> \in Seq(S)
    BY <1>5
  <2> QED BY <2>1
<1>7. /\ Len(a) = 2 /\ a[1] = i1 /\ a[2] = i2 /\ Len(b) = 3 /\ b[1] = i3 /\ b[2] = i4 /\ b[3] = i5
      /\ Len(e) = 2 /\ e[1] = i6 /\ e[2] = i7
  BY <1>6
<1>8. /\ a \o b \in Seq(S) /\ Len(a \o b) = 5
      /\ (\A x \in 1 .. 2 : (a \o b)[x] = a[x]) /\ \A x \in 1 .. 3 : (a \o b)[2 + x] = b[x]
  <2>1. PICK m \in Nat, n \in Nat : m = 2 /\ n = 3
    OBVIOUS
  <2>2. m = Len(a) /\ n = Len(b)
    BY <1>7, <2>1
  <2>3. /\ a \o b \in Seq(S) /\ Len(a \o b) = m + n
        /\ (\A x \in 1 .. m : (a \o b)[x] = a[x]) /\ \A x \in 1 .. n : (a \o b)[m + x] = b[x]
    BY <2>2, ConcatIs
  <2> QED BY <2>1, <2>3
<1>9. PICK f \in Seq(S) : f = a \o b
  BY <1>8
<1>10. f[1] = i1 /\ f[2] = i2 /\ f[3] = i3 /\ f[4] = i4 /\ f[5] = i5 /\ Len(f) = 5
  <2>1. f[1] = a[1] /\ f[2] = a[2]
    BY <1>8, <1>9
  <2>2. f[2 + 1] = b[1] /\ f[2 + 2] = b[2] /\ f[2 + 3] = b[3]
    BY <1>8, <1>9
  <2> QED BY <1>7, <1>8, <1>9, <2>1, <2>2
<1>11. /\ Len(f \o e) = 7
       /\ (\A x \in 1 .. 5 : (f \o e)[x] = f[x]) /\ \A x \in 1 .. 2 : (f \o e)[5 + x] = e[x]
  <2>1. PICK m \in Nat, n \in Nat : m = 5 /\ n = 2
    OBVIOUS
  <2>2. m = Len(f) /\ n = Len(e)
    BY <1>7, <1>10, <2>1
  <2>3. PICK g : g = f \o e
    OBVIOUS
  <2>4. Len(g) = m + n /\ (\A x \in 1 .. m : g[x] = f[x]) /\ \A x \in 1 .. n : g[m + x] = e[x]
    BY <2>2, <2>3, ConcatIs
  <2>5. Len(g) = 7 /\ \A x \in 1 .. 5 : g[x] = f[x]
    BY <2>1, <2>4
  <2>6. \A x \in 1 .. 2 : g[5 + x] = e[x]
    BY <2>1, <2>4
  <2> QED BY <2>3, <2>5, <2>6
<1>12. s = f \o e
  BY <1>4, <1>6, <1>9
<1>13. s[1] = f[1] /\ s[2] = f[2] /\ s[3] = f[3] /\ s[4] = f[4] /\ s[5] = f[5]
  <2>1. \A x \in 1 .. 5 : s[x] = f[x]
    BY <1>11, <1>12
  <2> QED BY <2>1
<1>14. s[6] = e[1] /\ s[7] = e[2]
  <2>1. 1 \in 1 .. 2 /\ 2 \in 1 .. 2 /\ 5 + 1 = 6 /\ 5 + 2 = 7
    OBVIOUS
  <2>2. (f \o e)[5 + 1] = e[1] /\ (f \o e)[5 + 2] = e[2]
    BY <1>11, <2>1
  <2> QED BY <1>12, <2>1, <2>2
<1> QED BY <1>1, <1>2, <1>3, <1>7, <1>10, <1>11, <1>12, <1>13, <1>14

\* What wait does of it, that has ptable.lock.
LEMMA SleepHere ==
  ASSUME NEW chan \in Int, NEW s, s = sleep(chan, "ptable")
  PROVE  /\ s \in Seq(Instructions({"acquire", "release", "block", "sched", "tidy"})) /\ Len(s) = 3
         /\ s[1] = On("block", chan) /\ s[2] = Do("sched") /\ s[3] = Do("tidy")
<1>1. PICK X : X = {"acquire", "release", "block", "sched", "tidy"}
  OBVIOUS
<1>2. s \in Seq(Instructions(X))
  BY <1>1, GoodSleep DEF Good
<1>3. PICK b : b = <<On("block", chan), Do("sched"), Do("tidy")>>
  OBVIOUS
<1>4. s = (<<>> \o b) \o <<>>
  BY <1>3 DEF sleep
<1>5. PICK S : b \in Seq(S)
  <2>1. b \in Seq({On("block", chan), Do("sched"), Do("tidy")})
    BY <1>3
  <2> QED BY <2>1
<1>6. s = b
  BY <1>4, <1>5
<1>7. Len(b) = 3 /\ b[1] = On("block", chan) /\ b[2] = Do("sched") /\ b[3] = Do("tidy")
  BY <1>3
<1> QED BY <1>1, <1>2, <1>6, <1>7

LEMMA OneIs ==
  ASSUME NEW X, NEW Y, X \subseteq Y, NEW i \in Instructions(X)
  PROVE  <<i>> \in Seq(Instructions(Y))
<1>1. i \in Instructions(Y)
  BY DEF Instructions
<1> QED BY <1>1

\* At its n places s sleeps, and what could be rough to come to is at place m.
Pause(s, n, m) ==
  /\ n \in Nat /\ Len(s) = n /\ m \in 1 .. n
  /\ \E X : s \in Seq(Instructions(X)) /\ X \cap {"iret", "await", "forkret", "wakeup1", "tick", "ideintr"} = {}
  /\ \A b \in 1 .. n : s[b].op \in RoughOps => b = m /\ s[b].op = "block"
  /\ \A b \in 1 .. m - 1 : s[b].op \in {"acquire", "release"}

\* A sleep, and what the sleeper looks at when it is woken.
LEMMA SleepSmooth ==
  ASSUME NEW s, NEW n, NEW m, Pause(s, n, m), NEW i \in Instructions({"await", "reap", "doze"})
  PROVE  /\ Smooth(s \o <<i>>) /\ Len(s \o <<i>>) = n + 1 /\ (s \o <<i>>)[n + 1] = i
         /\ \A b \in 1 .. n : (s \o <<i>>)[b] = s[b]
         /\ \A b \in 1 .. n + 1 : (s \o <<i>>)[b].op = "block" => b = m
<1>0. /\ n \in Nat /\ Len(s) = n /\ m \in 1 .. n
      /\ \A b \in 1 .. n : s[b].op \in RoughOps => b = m /\ s[b].op = "block"
      /\ \A b \in 1 .. m - 1 : s[b].op \in {"acquire", "release"}
  BY DEF Pause
<1>14. PICK X : s \in Seq(Instructions(X)) /\ X \cap {"iret", "await", "forkret", "wakeup1", "tick", "ideintr"} = {}
  BY DEF Pause
<1>1. ASSUME NEW a \in 1 .. n, NEW b \in 1 .. n, a < b PROVE ~ Rough(s[a], s[b])
  <2>1. CASE s[b].op \notin RoughOps
    BY <2>1, SmoothPair
  <2>2. CASE s[b].op \in RoughOps
    <3>1. b = m /\ s[b].op = "block" /\ a \in 1 .. m - 1
      BY <1>0, <1>1, <2>2
    <3>2. s[a].op \in {"acquire", "release"}
      BY <1>0, <3>1
    <3>3. s[b] # Irq
      BY <3>1, FieldsOn DEF Irq
    <3> QED BY <3>1, <3>2, <3>3 DEF Rough
  <2> QED BY <2>1, <2>2
<1>2. Smooth(s)
  BY <1>0, <1>1 DEF Smooth
<1>3. i.op \in {"await", "reap", "doze"}
  BY DEF Instructions
<1>4. PICK S : s \in Seq(S) /\ <<i>> \in Seq(S)
  <2>1. PICK Y, Z : Z = {"await", "reap", "doze"} /\ Y = X \cup Z
    OBVIOUS
  <2>2. s \in Seq(Instructions(Y)) /\ <<i>> \in Seq(Instructions(Y))
    BY <1>14, <2>1, MoreOps, OneIs
  <2> QED BY <2>2
<1>5. PICK r \in Seq(S) : r = <<i>> /\ Len(r) = 1 /\ r[1] = i
  <2>1. Len(<<i>>) = 1 /\ <<i>>[1] = i
    OBVIOUS
  <2> QED BY <1>4, <2>1
<1>6. Smooth(r)
  BY <1>5, SmoothOne
<1>7. ASSUME NEW a \in 1 .. Len(s), NEW b \in 1 .. Len(r) PROVE ~ Rough(s[a], r[b])
  <2>1. r[b] = i
    BY <1>5
  <2>2. s[a].op \in X
    BY <1>14, OpsAre
  <2>3. i # Irq
    BY <1>3, FieldsOn DEF Irq
  <2> QED BY <1>14, <1>3, <2>1, <2>2, <2>3 DEF Rough
<1>8. Smooth(s \o r)
  BY <1>2, <1>4, <1>5, <1>6, <1>7, SmoothConcat
<1>9. Len(s \o r) = n + 1 /\ (\A b \in 1 .. n : (s \o r)[b] = s[b]) /\ \A b \in 1 .. 1 : (s \o r)[n + b] = r[b]
  BY <1>0, <1>4, <1>5, ConcatIs
<1>10. (s \o r)[n + 1] = i /\ \A b \in 1 .. n : (s \o r)[b] = s[b]
  BY <1>0, <1>5, <1>9
<1>11. ASSUME NEW b \in 1 .. n + 1, (s \o r)[b].op = "block" PROVE b = m
  <2>2. b # n + 1
    BY <1>0, <1>3, <1>10, <1>11
  <2>1. b \in 1 .. n
    BY <1>0, <2>2
  <2> QED BY <1>0, <1>10, <1>11, <2>1 DEF RoughOps
<1> QED BY <1>5, <1>8, <1>9, <1>10, <1>11

LEMMA SmoothWakeup ==
  ASSUME NEW chan \in Int, NEW w, w = wakeup(chan)
  PROVE  /\ w \in Seq(Instructions({"acquire", "release", "wakeup1"})) /\ Smooth(w)
         /\ Len(w) = 3 /\ w[1] = acquire("ptable") /\ w[2] = On("wakeup1", chan) /\ w[3] = release("ptable")
<1>1. PICK X : X = {"acquire", "release", "wakeup1"}
  OBVIOUS
<1>2. w \in Seq(Instructions(X))
  BY <1>1, GoodWakeup DEF Good
<1>3. PICK i, j, k : i = acquire("ptable") /\ j = On("wakeup1", chan) /\ k = release("ptable")
  OBVIOUS
<1>4. w = <<i>> \o <<j>> \o <<k>>
  BY <1>3 DEF wakeup, Under
<1>5. w = <<i, j>> \o <<k>>
  BY <1>4, Join2
<1>6. w = <<i, j, k>>
  BY <1>5, Join21
<1>7. i.op = "acquire" /\ j.op = "wakeup1" /\ k.op = "release" /\ j # Irq /\ k # Irq
  BY <1>3, FieldsOn, FieldsLock DEF Irq
<1>8. ~ Rough(i, j) /\ ~ Rough(i, k) /\ ~ Rough(j, k)
  BY <1>7 DEF Rough
<1>9. Smooth(w)
  BY <1>6, <1>8, SmoothThree
<1>10. Len(w) = 3 /\ w[1] = i /\ w[2] = j /\ w[3] = k
  BY <1>6
<1> QED BY <1>1, <1>2, <1>3, <1>9, <1>10
----------------------------------------------------------------------------
(* What a list becomes when its first element gives way to some code.      *)

LEMMA Together ==
  ASSUME NEW X, NEW Y, NEW s \in Seq(Instructions(X)), NEW r \in Seq(Instructions(Y))
  PROVE  \E T : s \in Seq(Instructions(T)) /\ r \in Seq(Instructions(T))
<1>1. PICK T : T = X \cup Y
  OBVIOUS
<1>2. X \subseteq T /\ Y \subseteq T
  BY <1>1
<1>3. s \in Seq(Instructions(T)) /\ r \in Seq(Instructions(T))
  BY <1>2, MoreOps
<1> QED BY <1>3

\* The list S is the code and then, at its n places, what s has from its second place on.
Splice(code, s, S, m, n) ==
  /\ m = Len(code) /\ n + 1 = Len(s) /\ Len(S) = m + n /\ Head(s) = s[1]
  /\ \A a \in 1 .. m : S[a] = code[a]
  /\ \A b \in 1 .. n : S[m + b] = s[b + 1]

LEMMA Spliced ==
  ASSUME NEW T, NEW code \in Seq(T), NEW s \in Seq(T), s # <<>>
  PROVE  code \o Tail(s) \in Seq(T) /\ \E m, n \in Nat : Splice(code, s, code \o Tail(s), m, n)
<1>1. Len(s) \in Nat \ {0} /\ Tail(s) \in Seq(T) /\ Len(Tail(s)) = Len(s) - 1 /\ Head(s) = s[1]
      /\ \A b \in 1 .. Len(Tail(s)) : Tail(s)[b] = s[b + 1]
  BY HeadTailProperties, EmptySeq
<1>2. PICK r \in Seq(T) : r = Tail(s)
  BY <1>1
<1>3. PICK m \in Nat, n \in Nat : m = Len(code) /\ n = Len(r)
  BY LenProperties
<1>4. PICK S : S = code \o r
  OBVIOUS
<1>5. S \in Seq(T) /\ Len(S) = m + n /\ (\A a \in 1 .. m : S[a] = code[a]) /\ \A b \in 1 .. n : S[m + b] = r[b]
  <2>1. /\ code \o r \in Seq(T) /\ Len(code \o r) = Len(code) + Len(r)
        /\ \A a \in 1 .. Len(code) : (code \o r)[a] = code[a]
        /\ \A b \in 1 .. Len(r) : (code \o r)[Len(code) + b] = r[b]
    BY ConcatIs
  <2> QED BY <1>3, <1>4, <2>1
<1>6. n + 1 = Len(s)
  BY <1>1, <1>2, <1>3
<1>7. \A b \in 1 .. n : S[m + b] = s[b + 1]
  BY <1>1, <1>2, <1>3, <1>5
<1>8. Splice(code, s, S, m, n)
  BY <1>1, <1>3, <1>5, <1>6, <1>7 DEF Splice
<1> QED BY <1>2, <1>4, <1>5, <1>8

LEMMA Places ==
  ASSUME NEW m \in Nat, NEW n \in Nat, NEW a \in 1 .. m + n
  PROVE  a \in 1 .. m \/ (a - m \in 1 .. n /\ m + (a - m) = a)
  OBVIOUS

\* What is brought in the place of op, by processor c.
Brings(c, op, code) ==
  /\ \E X : code \in Seq(Instructions(X)) /\ X \cap {"iret", "intena", "tick", "ideintr", "forkret"} = {}
  /\ code # <<>> => op \notin {"acquire", "release", "tick", "wakeup1", "iret", "sched"}
  /\ Smooth(code)
  /\ \A a \in 1 .. Len(code) :
       /\ code[a].op \in Opens => op \in Opens
       /\ code[a].op = "await" => op \in {"await", "forkret"}
       /\ code[a].op \in {"wakeup1", "idestart"} => op = "ideintr"
       /\ code[a].op = "block" /\ cpu[c].run # 0 => Block(cpu[c].run, code, a)

LEMMA BringsMild ==
  ASSUME NEW c, NEW op, NEW X, X \cap (RoughOps \cup Opens \cup {"forkret"}) = {}, NEW code \in Seq(Instructions(X)),
         code # <<>> => op \notin {"acquire", "release", "tick", "wakeup1", "iret", "sched"}
  PROVE  Brings(c, op, code)
<1>1. X \cap {"iret", "intena", "tick", "ideintr", "forkret"} = {} /\ X \cap RoughOps = {}
  BY DEF RoughOps
<1>2. Smooth(code)
  BY <1>1, SmoothMild
<1>3. \A a \in 1 .. Len(code) : code[a].op \notin Opens /\ code[a].op \notin {"await", "wakeup1", "idestart", "block"}
  <2>1. \A a \in 1 .. Len(code) : code[a].op \in X
    BY OpsAre
  <2> QED BY <2>1 DEF RoughOps
<1> QED BY <1>1, <1>2, <1>3 DEF Brings

LEMMA BringsNothing ==
  ASSUME NEW c, NEW op
  PROVE  Brings(c, op, <<>>)
<1>1. PICK X : X = {}
  OBVIOUS
<1>2. <<>> \in Seq(Instructions(X)) /\ X \cap (RoughOps \cup Opens \cup {"forkret"}) = {}
  BY <1>1
<1> QED BY <1>2, BringsMild

\* The list s, of which op is the first, becomes S.
Going(c, op, code, s, S) ==
  /\ Brings(c, op, code) /\ s # <<>> /\ Head(s).op = op /\ Smooth(s) /\ S = code \o Tail(s)
  /\ \E Y : s \in Seq(Instructions(Y))

LEMMA Goes ==
  ASSUME NEW c, NEW op, NEW code, NEW s, NEW S, Going(c, op, code, s, S)
  PROVE  /\ \E m, n \in Nat : Splice(code, s, S, m, n)
         /\ s # <<>> /\ Head(s).op = op /\ Brings(c, op, code) /\ Smooth(s)
         /\ \E X : code \in Seq(Instructions(X)) /\ X \cap {"iret", "intena", "tick", "ideintr", "forkret"} = {}
         /\ \E Z : S \in Seq(Z)
<1>1. /\ Brings(c, op, code) /\ s # <<>> /\ Head(s).op = op /\ Smooth(s) /\ S = code \o Tail(s)
      /\ \E Y : s \in Seq(Instructions(Y))
  BY DEF Going
<1>2. \E X : code \in Seq(Instructions(X)) /\ X \cap {"iret", "intena", "tick", "ideintr", "forkret"} = {}
  BY <1>1 DEF Brings
<1>3. PICK Z : code \in Seq(Z) /\ s \in Seq(Z)
  BY <1>1, <1>2, Together
<1>4. S \in Seq(Z) /\ \E m, n \in Nat : Splice(code, s, S, m, n)
  BY <1>1, <1>3, Spliced
<1> QED BY <1>1, <1>2, <1>4

LEMMA GoSmooth ==
  ASSUME NEW c, NEW op, NEW code, NEW s, NEW S, Going(c, op, code, s, S)
  PROVE  Smooth(S)
<1>0. PICK Y : Brings(c, op, code) /\ s \in Seq(Instructions(Y)) /\ s # <<>> /\ Head(s).op = op /\ Smooth(s) /\ S = code \o Tail(s)
  BY DEF Going
<1>1. PICK X : code \in Seq(Instructions(X)) /\ X \cap {"iret", "intena", "tick", "ideintr", "forkret"} = {}
  BY <1>0 DEF Brings
<1>2. PICK T : code \in Seq(Instructions(T)) /\ s \in Seq(Instructions(T))
  BY <1>0, <1>1, Together
<1>3. PICK V : V = Instructions(T)
  OBVIOUS
<1>4. PICK r, i : r \in Seq(V) /\ r = Tail(s) /\ i = Head(s)
  BY <1>0, <1>2, <1>3, HeadTailProperties
<1>5. Smooth(r) /\ \A b \in 1 .. Len(r) : ~ Rough(i, r[b])
  BY <1>0, <1>2, <1>3, <1>4, SmoothTail
<1>6. CASE code = <<>>
  <2>1. code \o r = r
    BY <1>6
  <2> QED BY <1>0, <1>4, <1>5, <2>1
<1>7. CASE code # <<>>
  <2>1. i.op \notin {"acquire", "release", "tick", "wakeup1"}
    BY <1>0, <1>4, <1>7 DEF Brings
  <2>2. \A a \in 1 .. Len(code) : code[a].op # "forkret"
    <3>1. \A a \in 1 .. Len(code) : code[a].op \in X
      BY <1>1, OpsAre
    <3> QED BY <1>1, <3>1
  <2>3. \A a \in 1 .. Len(code) : (code[a].op \in Opens => i.op \in Opens) /\ (code[a].op \in {"await", "forkret"} => i.op \in {"await", "forkret"})
    BY <1>0, <1>4, <2>2 DEF Brings
  <2>4. Smooth(code) /\ code \in Seq(V)
    BY <1>0, <1>2, <1>3 DEF Brings
  <2>5. Smooth(code \o r)
    BY <1>4, <1>5, <2>1, <2>3, <2>4, SmoothInFront
  <2> QED BY <1>0, <1>4, <2>5
<1> QED BY <1>6, <1>7

LEMMA GoTrap ==
  ASSUME NEW c, NEW op, NEW code, NEW s, NEW S, Going(c, op, code, s, S)
  PROVE  /\ InTrap(S) => InTrap(s) /\ op \notin Opens
         /\ InTrap(s) /\ op # "iret" => InTrap(S)
<1>0. /\ s # <<>> /\ Head(s).op = op /\ Brings(c, op, code) /\ Smooth(s)
      /\ \E m, n \in Nat : Splice(code, s, S, m, n)
  BY Goes
<1>1. PICK X : code \in Seq(Instructions(X)) /\ X \cap {"iret", "intena", "tick", "ideintr", "forkret"} = {}
  BY Goes
<1>2. PICK m \in Nat, n \in Nat : Splice(code, s, S, m, n)
  BY <1>0
<1>3. /\ m = Len(code) /\ n + 1 = Len(s) /\ Len(S) = m + n /\ s[1].op = op
      /\ \A a \in 1 .. m : S[a] = code[a]
      /\ \A b \in 1 .. n : S[m + b] = s[b + 1]
  BY <1>0, <1>2 DEF Splice
<1>4. ASSUME InTrap(S) PROVE InTrap(s) /\ op \notin Opens
  <2>1. PICK a \in 1 .. m + n : S[a] = Irq
    BY <1>3, <1>4 DEF InTrap
  <2>2. a \notin 1 .. m
    <3>1. a \in 1 .. m => code[a].op \in X
      BY <1>1, <1>3, OpsAre
    <3>2. Irq.op = "iret"
      BY FieldsOn DEF Irq
    <3> QED BY <1>1, <1>3, <2>1, <3>1, <3>2
  <2>3. PICK b \in 1 .. n : s[b + 1] = Irq
    <3>1. PICK b \in 1 .. n : m + b = a
      BY <2>2, Places
    <3>2. S[m + b] = s[b + 1]
      BY <1>3
    <3> QED BY <2>1, <3>1, <3>2
  <2>4. b + 1 \in 1 .. n + 1 /\ 1 \in 1 .. n + 1 /\ 1 < b + 1
    OBVIOUS
  <2>5. ~ Rough(s[1], s[b + 1])
    BY <1>0, <1>3, <2>4 DEF Smooth
  <2> QED BY <1>3, <2>3, <2>4, <2>5 DEF InTrap, Rough
<1>5. ASSUME InTrap(s), op # "iret" PROVE InTrap(S)
  <2>1. PICK b \in 1 .. n + 1 : s[b] = Irq
    BY <1>3, <1>5 DEF InTrap
  <2>2. Irq.op = "iret"
    BY FieldsOn DEF Irq
  <2>3. b # 1
    BY <1>3, <1>5, <2>1, <2>2
  <2>4. PICK a \in 1 .. n : a + 1 = b
    <3>1. b - 1 \in 1 .. n /\ (b - 1) + 1 = b
      BY <1>3, <2>3
    <3> QED BY <3>1
  <2>5. S[m + a] = Irq /\ m + a \in 1 .. m + n
    <3>1. S[m + a] = s[a + 1]
      BY <1>3
    <3>2. m + a \in 1 .. m + n
      OBVIOUS
    <3> QED BY <2>1, <2>4, <3>1, <3>2
  <2> QED BY <1>3, <2>5 DEF InTrap
<1> QED BY <1>4, <1>5

LEMMA GoRings ==
  ASSUME NEW c, NEW op, NEW code, NEW s, NEW S, Going(c, op, code, s, S), Rings(s)
  PROVE  Rings(S)
<1>0. /\ s # <<>> /\ Head(s).op = op /\ Brings(c, op, code) /\ Smooth(s)
      /\ \E m, n \in Nat : Splice(code, s, S, m, n)
  BY Goes
<1>1. PICK X : code \in Seq(Instructions(X)) /\ X \cap {"iret", "intena", "tick", "ideintr", "forkret"} = {}
  BY Goes
<1>2. PICK m \in Nat, n \in Nat : Splice(code, s, S, m, n)
  BY <1>0
<1>3. /\ m = Len(code) /\ n + 1 = Len(s) /\ Len(S) = m + n /\ s[1].op = op
      /\ \A a \in 1 .. m : S[a] = code[a]
      /\ \A b \in 1 .. n : S[m + b] = s[b + 1]
  BY <1>0, <1>2 DEF Splice
<1>4. ASSUME NEW a \in 1 .. m + n, S[a].op \in WakeOps
      PROVE  op # "iret" /\ InTrap(s) /\ (S[a].op = "tick" => op # "wakeup1" /\ \E b \in 1 .. n + 1 : s[b].op = "tick")
  <2>1. CASE a \in 1 .. m
    <3>1. S[a] = code[a] /\ code[a].op \in X
      BY <1>1, <1>3, <2>1, OpsAre
    <3>2. S[a].op \in {"wakeup1", "idestart"}
      BY <1>1, <1>4, <3>1 DEF WakeOps
    <3>3. op = "ideintr"
      BY <1>0, <1>3, <2>1, <3>1, <3>2 DEF Brings
    <3>4. 1 \in 1 .. Len(s) /\ s[1].op = "ideintr"
      BY <1>3, <3>3
    <3>5. InTrap(s)
      BY <3>4 DEF Rings, Has, WakeOps
    <3> QED BY <3>2, <3>3, <3>5
  <2>2. CASE a \notin 1 .. m
    <3>1. PICK b \in 1 .. n : S[a] = s[b + 1]
      <4>1. PICK b \in 1 .. n : m + b = a
        BY <2>2, Places
      <4>2. S[m + b] = s[b + 1]
        BY <1>3
      <4> QED BY <4>1, <4>2
    <3>2. b + 1 \in 1 .. n + 1 /\ 1 \in 1 .. n + 1 /\ 1 < b + 1
      OBVIOUS
    <3>3. ~ Rough(s[1], s[b + 1])
      BY <1>0, <1>3, <3>2 DEF Smooth
    <3>4. op # "iret" /\ (S[a].op = "tick" => op # "wakeup1")
      BY <1>3, <1>4, <3>1, <3>3 DEF Rough, WakeOps
    <3>5. InTrap(s)
      BY <1>3, <1>4, <3>1, <3>2 DEF Rings, Has
    <3> QED BY <3>1, <3>2, <3>4, <3>5
  <2> QED BY <2>1, <2>2
<1>5. ASSUME NEW op1 \in WakeOps, Has(S, op1) PROVE InTrap(S)
  <2>1. PICK a \in 1 .. m + n : S[a].op = op1
    BY <1>3, <1>5 DEF Has
  <2>2. op # "iret" /\ InTrap(s)
    BY <1>4, <1>5, <2>1
  <2>3. InTrap(s) /\ op # "iret" => InTrap(S)
    BY GoTrap
  <2> QED BY <2>2, <2>3
<1>6. ASSUME Has(S, "tick") PROVE \E b \in 1 .. Len(S) : S[b] = On("wakeup1", Ticks)
  <2>1. PICK a \in 1 .. m + n : S[a].op = "tick"
    BY <1>3, <1>6 DEF Has
  <2>2. op # "wakeup1" /\ \E b \in 1 .. n + 1 : s[b].op = "tick"
    BY <1>4, <2>1 DEF WakeOps
  <2>3. PICK b \in 1 .. n + 1 : s[b] = On("wakeup1", Ticks)
    BY <1>3, <2>2 DEF Rings, Has
  <2>4. b # 1
    BY <1>3, <2>2, <2>3, FieldsOn
  <2>5. PICK e \in 1 .. n : e + 1 = b
    <3>1. b - 1 \in 1 .. n /\ (b - 1) + 1 = b
      <4>1. n \in Nat /\ b \in 1 .. n + 1
        BY <1>3
      <4> QED BY <2>4, <4>1
    <3> QED BY <3>1
  <2>6. S[m + e] = On("wakeup1", Ticks) /\ m + e \in 1 .. m + n
    <3>1. S[m + e] = s[e + 1]
      BY <1>3
    <3>2. m + e \in 1 .. m + n
      <4>1. m \in Nat /\ n \in Nat
        BY <1>3
      <4> QED BY <4>1
    <3> QED BY <2>3, <2>5, <3>1, <3>2
  <2> QED BY <1>3, <2>6
<1> QED BY <1>5, <1>6 DEF Rings

LEMMA GoBlocks ==
  ASSUME NEW c, NEW op, NEW code, NEW s, NEW S, Going(c, op, code, s, S), NEW p, p = cpu[c].run, p # 0,
         \A b \in 1 .. Len(s) : s[b].op = "block" => Block(p, s, b)
  PROVE  \A a \in 1 .. Len(S) : S[a].op = "block" => Block(p, S, a)
<1>0. /\ s # <<>> /\ Head(s).op = op /\ Brings(c, op, code) /\ Smooth(s)
      /\ \E m, n \in Nat : Splice(code, s, S, m, n)
  BY Goes
<1>1. PICK X : code \in Seq(Instructions(X)) /\ X \cap {"iret", "intena", "tick", "ideintr", "forkret"} = {}
  BY Goes
<1>2. PICK m \in Nat, n \in Nat : Splice(code, s, S, m, n)
  BY <1>0
<1>3. /\ m = Len(code) /\ n + 1 = Len(s) /\ Len(S) = m + n /\ s[1].op = op
      /\ \A a \in 1 .. m : S[a] = code[a]
      /\ \A b \in 1 .. n : S[m + b] = s[b + 1]
  BY <1>0, <1>2 DEF Splice
<1> SUFFICES ASSUME NEW a \in 1 .. m + n, S[a].op = "block" PROVE Block(p, S, a)
  BY <1>3
<1>4. CASE a \in 1 .. m
  <2>1. S[a] = code[a]
    BY <1>3, <1>4
  <2>2. Block(p, code, a)
    BY <1>0, <1>3, <1>4, <2>1 DEF Brings
  <2>3. a > 1 => a - 1 \in 1 .. m /\ 1 \in 1 .. m
    BY <1>4
  <2>4. a > 1 => S[a - 1] = code[a - 1] /\ S[1] = code[1]
    BY <1>3, <2>3
  <2>5. code[a].n \in {Ticks, Buffer(p), p} /\ a \in 1 .. 3
    BY <2>2 DEF Block
  <2>6. (a > 1 => Given(p, code[a].n, code[a - 1])) /\ (a = 3 => code[1] = acquire("ptable"))
    BY <2>2 DEF Block
  <2>7. a > 1 => Given(p, S[a].n, S[a - 1])
    BY <2>1, <2>4, <2>6
  <2>8. a = 3 => S[1] = acquire("ptable")
    BY <2>4, <2>6
  <2> QED BY <2>1, <2>5, <2>7, <2>8 DEF Block
<1>5. CASE a \notin 1 .. m
  <2>1. PICK b \in 1 .. n : m + b = a
    BY <1>5, Places
  <2>2. S[a] = s[b + 1] /\ b + 1 \in 1 .. n + 1
    BY <1>3, <2>1
  <2>3. Block(p, s, b + 1)
    BY <1>3, <2>2
  <2>4. S[a].n \in {Ticks, Buffer(p), p} /\ b + 1 \in 1 .. 3
    BY <2>2, <2>3 DEF Block
  <2>5. (b + 1 > 1 => Given(p, S[a].n, s[(b + 1) - 1])) /\ (b + 1 = 3 => s[1] = acquire("ptable"))
    BY <2>2, <2>3 DEF Block
  <2>6. b = 1 \/ b = 2
    BY <2>4
  <2>7. b + 1 > 1 /\ (b + 1) - 1 = b
    OBVIOUS
  <2>8. Given(p, S[a].n, s[b])
    BY <2>5, <2>7
  <2>9. op \in {"acquire", "release"}
    <3>1. CASE b = 1
      BY <1>3, <2>8, <3>1, FieldsLock DEF Given
    <3>2. CASE b = 2
      BY <1>3, <2>5, <3>2, FieldsLock
    <3> QED BY <2>6, <3>1, <3>2
  <2>10. m = 0
    BY <1>0, <1>3, <2>9 DEF Brings
  <2>11. a = b
    BY <2>1, <2>10
  <2>12. CASE b = 1
    <3>1. a = 1
      BY <2>11, <2>12
    <3> QED BY <2>4, <3>1 DEF Block
  <2>13. CASE b = 2
    <3>1. a = 2 /\ 1 \in 1 .. n /\ m + 1 = 1 /\ 1 + 1 = 2 /\ a - 1 = 1
      BY <2>10, <2>11, <2>13
    <3>2. S[1] = s[2]
      BY <1>3, <3>1
    <3>3. Given(p, S[a].n, S[a - 1])
      BY <2>8, <2>13, <3>1, <3>2
    <3> QED BY <2>4, <3>1, <3>3 DEF Block
  <2> QED BY <2>6, <2>12, <2>13
<1> QED BY <1>4, <1>5

\* The code of a new process, and of a processor that starts.
LEMMA NewCode ==
  /\ Smooth(forkret) /\ Smooth(mpenter)
  /\ \A U \in {forkret, mpenter} : ~ InTrap(U) /\ \A a \in 1 .. Len(U) : U[a].op \notin WakeOps \cup {"block", "intena"}
  /\ forkret # <<>> /\ forkret[Len(forkret)].op = "iret"
<1>1. PICK i, j, k : i = release("ptable") /\ j = Do("forkret") /\ k = On("iret", 0)
  OBVIOUS
<1>2. forkret = <<i, j, k>>
  BY <1>1 DEF forkret
<1>3. i.op = "release" /\ j.op = "forkret" /\ k.op = "iret" /\ k # Irq
  BY <1>1, FieldsOn, FieldsLock DEF Do, Irq
<1>4. Smooth(forkret)
  <2>1. ~ Rough(i, j) /\ ~ Rough(i, k) /\ ~ Rough(j, k)
    BY <1>3 DEF Rough, Opens
  <2> QED BY <1>2, <2>1, SmoothThree
<1>5. Len(forkret) = 3 /\ forkret[1] = i /\ forkret[2] = j /\ forkret[3] = k
  BY <1>2
<1>6. \A a \in 1 .. Len(forkret) : forkret[a] \in {i, j, k}
  <2>1. \A a \in 1 .. 3 : a = 1 \/ a = 2 \/ a = 3
    OBVIOUS
  <2> QED BY <1>5, <2>1
<1>7. ~ InTrap(forkret) /\ \A a \in 1 .. Len(forkret) : forkret[a].op \notin WakeOps \cup {"block", "intena"}
  <2>1. i # Irq /\ j # Irq
    BY <1>3, FieldsOn DEF Irq
  <2> QED BY <1>3, <1>6, <2>1 DEF InTrap, WakeOps
<1>8. PICK X : X = {"entry", "lapicinit", "cprintf", "idtinit", "started"}
  OBVIOUS
<1>9. mpenter \in Seq(Instructions(X))
  <2>1. Do("entry") \in Instructions(X) /\ Do("lapicinit") \in Instructions(X) /\ Do("cprintf") \in Instructions(X)
        /\ Do("idtinit") \in Instructions(X) /\ Do("started") \in Instructions(X)
    BY <1>8, TypeOfDo
  <2>2. PICK V : V = Instructions(X)
    OBVIOUS
  <2>3. <<Do("entry"), Do("lapicinit")>> \in Seq(V) /\ mpmain \in Seq(V)
    BY <2>1, <2>2 DEF mpmain
  <2> QED BY <2>2, <2>3, ConcatProperties DEF mpenter
<1>10. X \cap RoughOps = {} /\ X \cap WakeOps = {} /\ "block" \notin X /\ "intena" \notin X /\ "iret" \notin X
  BY <1>8 DEF RoughOps, WakeOps
<1>11. Smooth(mpenter) /\ \A a \in 1 .. Len(mpenter) : mpenter[a].op \in X
  BY <1>9, <1>10, SmoothMild, OpsAre
<1>12. ~ InTrap(mpenter) /\ \A a \in 1 .. Len(mpenter) : mpenter[a].op \notin WakeOps \cup {"block", "intena"}
  BY <1>10, <1>11, FieldsOn DEF InTrap, Irq
<1>13. forkret # <<>>
  BY <1>5
<1> QED BY <1>3, <1>4, <1>5, <1>7, <1>11, <1>12, <1>13

----------------------------------------------------------------------------
(* A step of one thread, on with some code.                                *)

Safe == Core /\ ListInv /\ TrapInv

\* Processor c does op, and goes on with the code; the thread u may get code of its own.
Forward(c, op, code, u, U) ==
  /\ Todo(c) # <<>> /\ Now(c).op = op /\ Brings(c, op, code)
  /\ \A r \in Threads : Code(r)' = IF r = Running(c) THEN code \o Tail(Todo(c)) ELSE IF r = u THEN U ELSE Code(r)
  /\ u # Running(c) => \/ \E q \in Procs : u = <<"proc", q>> /\ Idle(q) /\ U = forkret
                       \/ \E d \in Apics \ {c} : u = <<"cpu", d>> /\ cpu[d].run = 0 /\ U = mpenter
  /\ cpu'[c].run = cpu[c].run /\ \A d \in Apics \ {c} : cpu'[d] = cpu[d]
  /\ InTrap(Todo(c)) /\ op \notin Opens => ~ cpu'[c].IF /\ (cpu'[c].ncli > 0 => cpu'[c].intena = FALSE)
  /\ op = "iret" => cpu'[c].IF
  /\ \A p \in Procs : proc'[p].intena \in {proc[p].intena, FALSE}

\* What the processors and the idle processes have to do then.
LEMMA Forward1 ==
  ASSUME Safe, NEW c \in Apics, NEW op, NEW code, NEW u, NEW U, Forward(c, op, code, u, U)
  PROVE  /\ Todo(c)' = code \o Tail(Todo(c)) /\ \A p \in Procs : Idle(p)' <=> Idle(p)
         /\ \A d \in Apics \ {c} : Todo(d)' = Todo(d) \/ (cpu[d].run = 0 /\ Todo(d)' = mpenter)
         /\ \A p \in Procs : cpu[c].run # p => kern'[p] = kern[p] \/ (Idle(p) /\ kern'[p] = forkret)
         /\ cpu[c].run # 0 => kern'[cpu[c].run] = Todo(c)' /\ kern[cpu[c].run] = Todo(c)
<1>1. DataTypes /\ CodeTypes /\ RunInv
  BY DEF Safe, Core
<1>2. ASSUME NEW d \in Apics, NEW t, t = Running(d)
      PROVE  t \in Threads /\ Todo(d)' = Code(t)' /\ Code(t) = Todo(d) /\ cpu'[d].run = cpu[d].run
  <2>1. cpu'[d].run = cpu[d].run
    BY DEF Forward
  <2>3. /\ t \in Threads /\ Code(t) = Todo(d)
        /\ cpu[d].run = 0 => t = <<"cpu", d>>
        /\ cpu[d].run # 0 => cpu[d].run \in Procs /\ t = <<"proc", cpu[d].run>>
    BY <1>1, <1>2, Runs
  <2>4. Todo(d)' = Code(t)'
    <3>1. CASE cpu[d].run = 0
      <4>1. Todo(d)' = todo'[d]
        BY <2>1, <3>1 DEF Todo
      <4> QED BY <2>3, <3>1, <4>1, Names
    <3>2. CASE cpu[d].run # 0
      <4>1. Todo(d)' = kern'[cpu[d].run]
        BY <2>1, <3>2 DEF Todo
      <4> QED BY <2>3, <3>2, <4>1, Names
    <3> QED BY <3>1, <3>2
  <2> QED BY <2>1, <2>3, <2>4
<1>3. \A p \in Procs : Idle(p)' <=> Idle(p)
  BY <1>2 DEF Idle
<1>4. ASSUME NEW d \in Apics \ {c} PROVE Todo(d)' = Todo(d) \/ (cpu[d].run = 0 /\ Todo(d)' = mpenter)
  <2>1. PICK t : t = Running(d)
    OBVIOUS
  <2>2. t # Running(c) /\ t \in Threads /\ Todo(d)' = Code(t)' /\ Code(t) = Todo(d)
    BY <1>1, <1>2, <2>1, Apart
  <2>3. CASE t # u
    BY <2>2, <2>3 DEF Forward
  <2>4. CASE t = u
    <3>1. Code(t)' = U
      BY <2>2, <2>4 DEF Forward
    <3>2. \/ \E q \in Procs : t = <<"proc", q>> /\ Idle(q) /\ U = forkret
          \/ \E e \in Apics \ {c} : t = <<"cpu", e>> /\ cpu[e].run = 0 /\ U = mpenter
      BY <2>2, <2>4 DEF Forward
    <3>3. ASSUME NEW q \in Procs, t = <<"proc", q>>, Idle(q) PROVE FALSE
      <4>1. cpu[d].run = q
        BY <2>1, <3>3 DEF Running
      <4> QED BY <3>3, <4>1 DEF Idle
    <3>4. PICK e \in Apics \ {c} : t = <<"cpu", e>> /\ cpu[e].run = 0 /\ U = mpenter
      BY <3>2, <3>3
    <3>5. e = d
      BY <2>1, <3>4 DEF Running
    <3> QED BY <2>2, <3>1, <3>4, <3>5
  <2> QED BY <2>3, <2>4
<1>5. ASSUME NEW p \in Procs, cpu[c].run # p PROVE kern'[p] = kern[p] \/ (Idle(p) /\ kern'[p] = forkret)
  <2>1. PICK t \in Threads : t = <<"proc", p>> /\ Code(t) = kern[p] /\ Code(t)' = kern'[p]
    BY Names
  <2>2. t # Running(c)
    BY <1>5, <2>1 DEF Running
  <2>3. CASE t # u
    BY <2>1, <2>2, <2>3 DEF Forward
  <2>4. CASE t = u
    <3>1. Code(t)' = U
      BY <2>2, <2>4 DEF Forward
    <3>2. \/ \E q \in Procs : t = <<"proc", q>> /\ Idle(q) /\ U = forkret
          \/ \E e \in Apics \ {c} : t = <<"cpu", e>> /\ cpu[e].run = 0 /\ U = mpenter
      BY <2>2, <2>4 DEF Forward
    <3> QED BY <2>1, <3>1, <3>2
  <2> QED BY <2>3, <2>4
<1>6. cpu[c].run # 0 => kern'[cpu[c].run] = Todo(c)' /\ kern[cpu[c].run] = Todo(c)
  <2>1. PICK t, p : t = Running(c) /\ p = cpu[c].run
    OBVIOUS
  <2>2. p # 0 => p \in Procs /\ t = <<"proc", p>> /\ Todo(c) = kern[p]
    BY <1>1, <2>1, Runs
  <2>3. Todo(c)' = Code(t)'
    BY <1>2, <2>1
  <2> QED BY <2>1, <2>2, <2>3, Names
<1>7. Todo(c)' = code \o Tail(Todo(c))
  <2>1. PICK t : t = Running(c)
    OBVIOUS
  <2>2. t \in Threads /\ Todo(c)' = Code(t)'
    BY <1>2, <2>1
  <2> QED BY <2>1, <2>2 DEF Forward
<1> QED BY <1>3, <1>4, <1>5, <1>6, <1>7

LEMMA Going1 ==
  ASSUME Safe, NEW c \in Apics, NEW op, NEW code, NEW u, NEW U, Forward(c, op, code, u, U)
  PROVE  Going(c, op, code, Todo(c), Todo(c)')
<1>1. Running(c) \in Threads /\ Todo(c) \in Seq(Instructions(OpsOf(Running(c)))) /\ Code(Running(c)) = Todo(c)
  BY Runs DEF Safe, Core
<1>2. Smooth(Todo(c))
  BY <1>1 DEF Safe, ListInv, SmoothInv
<1>3. Todo(c)' = code \o Tail(Todo(c))
  BY Forward1
<1> QED BY <1>1, <1>2, <1>3 DEF Going, Forward, Now

LEMMA ForwardLists ==
  ASSUME Safe, NEW c \in Apics, NEW op, NEW code, NEW u, NEW U, Forward(c, op, code, u, U)
  PROVE  ListInv'
<1>1. PICK s, S : s = Todo(c) /\ S = Todo(c)' /\ Going(c, op, code, s, S)
  BY Going1
<1>2. PICK t : t = Running(c) /\ t \in Threads /\ Code(t) = s
  BY <1>1, Runs DEF Safe, Core
<1>3. ASSUME NEW r \in Threads, r # t PROVE Code(r)' = Code(r) \/ Code(r)' \in {forkret, mpenter}
  <2>1. Code(r)' = IF r = u THEN U ELSE Code(r)
    BY <1>2, <1>3 DEF Forward
  <2> QED BY <1>2, <1>3, <2>1 DEF Forward
<1>4. ASSUME NEW r \in Threads PROVE Smooth(Code(r)') /\ Rings(Code(r)')
  <2>1. Smooth(Code(r)) /\ Rings(Code(r))
    BY DEF Safe, ListInv, SmoothInv
  <2>2. CASE r = t
    <3>1. Code(t)' = code \o Tail(Todo(c))
      BY <1>2 DEF Forward
    <3>2. Code(t)' = S
      BY <1>1, <3>1, Forward1
    <3> QED BY <1>1, <1>2, <2>1, <2>2, <3>2, GoSmooth, GoRings
  <2>3. CASE r # t
    <3>1. \A V \in {forkret, mpenter} : Smooth(V) /\ Rings(V)
      <4>1. \A V \in {forkret, mpenter} : Smooth(V) /\ \A a \in 1 .. Len(V) : V[a].op \notin WakeOps
        BY NewCode
      <4> QED BY <4>1 DEF Rings, Has, WakeOps
    <3> QED BY <1>3, <2>1, <2>3, <3>1
  <2> QED BY <2>2, <2>3
<1>5. ASSUME NEW p \in Procs, NEW b \in 1 .. Len(kern'[p]), kern'[p][b].op = "block" PROVE Block(p, kern'[p], b) /\ ~ Idle(p)'
  <2>1. \A a \in 1 .. Len(kern[p]) : kern[p][a].op = "block" => Block(p, kern[p], a) /\ ~ Idle(p)
    BY DEF Safe, ListInv, Blocks
  <2>2. Idle(p)' <=> Idle(p)
    BY Forward1
  <2>3. CASE cpu[c].run = p
    <3>1. p # 0
      BY DEF Procs
    <3>2. kern'[p] = Todo(c)' /\ kern[p] = Todo(c)
      BY <2>3, <3>1, Forward1
    <3>3. S = kern'[p] /\ s = kern[p]
      BY <1>1, <3>2
    <3>4. \A a \in 1 .. Len(s) : s[a].op = "block" => Block(p, s, a)
      BY <2>1, <3>3
    <3>5. \A a \in 1 .. Len(S) : S[a].op = "block" => Block(p, S, a)
      BY <1>1, <2>3, <3>1, <3>4, GoBlocks
    <3>6. ~ Idle(p)
      BY <2>3 DEF Idle
    <3> QED BY <1>5, <2>2, <3>3, <3>5, <3>6
  <2>4. CASE cpu[c].run # p
    <3>1. kern'[p] # forkret
      BY <1>5, NewCode
    <3>2. kern'[p] = kern[p]
      BY <2>4, <3>1, Forward1
    <3> QED BY <1>5, <2>1, <2>2, <3>2
  <2> QED BY <2>3, <2>4
<1> QED BY <1>4, <1>5 DEF ListInv, SmoothInv, Blocks

\* The head of a list goes: what is behind it is not what sched has left to do.
LEMMA NoIntena ==
  ASSUME NEW c, NEW op, NEW code, NEW s, NEW S, Going(c, op, code, s, S), S # <<>>
  PROVE  Head(S).op # "intena"
<1>1. /\ s # <<>> /\ Head(s).op = op /\ Brings(c, op, code) /\ Smooth(s)
      /\ \E m, n \in Nat : Splice(code, s, S, m, n)
  BY Goes
<1>2. PICK X : code \in Seq(Instructions(X)) /\ X \cap {"iret", "intena", "tick", "ideintr", "forkret"} = {}
  BY Goes
<1>3. PICK Z : S \in Seq(Z)
  BY Goes
<1>4. PICK m \in Nat, n \in Nat : Splice(code, s, S, m, n)
  BY <1>1
<1>5. /\ m = Len(code) /\ n + 1 = Len(s) /\ Len(S) = m + n /\ s[1].op = op
      /\ \A a \in 1 .. m : S[a] = code[a]
      /\ \A b \in 1 .. n : S[m + b] = s[b + 1]
  BY <1>1, <1>4 DEF Splice
<1>6. Head(S) = S[1] /\ m + n # 0
  BY <1>3, <1>5, HeadTailProperties, EmptySeq
<1>7. CASE m = 0
  <2>1. 1 \in 1 .. n /\ m + 1 = 1 /\ 1 + 1 = 2 /\ 2 \in 1 .. n + 1 /\ 1 \in 1 .. n + 1
    BY <1>6, <1>7
  <2>2. S[1] = s[2]
    BY <1>5, <2>1
  <2>3. ~ Rough(s[1], s[2])
    BY <1>1, <1>5, <2>1 DEF Smooth
  <2> QED BY <1>6, <2>2, <2>3 DEF Rough
<1>8. CASE m # 0
  <2>1. 1 \in 1 .. m
    BY <1>8
  <2>2. S[1] = code[1] /\ code[1].op \in X
    BY <1>2, <1>5, <2>1, OpsAre
  <2> QED BY <1>2, <1>6, <2>2
<1> QED BY <1>7, <1>8

\* The last of a list stays the last.
LEMMA LastStays ==
  ASSUME NEW c, NEW op, NEW code, NEW s, NEW S, Going(c, op, code, s, S), s[Len(s)].op = "iret"
  PROVE  /\ S # <<>> => S[Len(S)].op = "iret"
         /\ S = <<>> => op = "iret"
<1>1. /\ s # <<>> /\ Head(s).op = op /\ Brings(c, op, code)
      /\ \E m, n \in Nat : Splice(code, s, S, m, n)
  BY Goes
<1>2. PICK X : code \in Seq(Instructions(X))
  BY Goes
<1>3. PICK Z : S \in Seq(Z)
  BY Goes
<1>4. PICK m \in Nat, n \in Nat : Splice(code, s, S, m, n)
  BY <1>1
<1>5. /\ m = Len(code) /\ n + 1 = Len(s) /\ Len(S) = m + n /\ s[1].op = op
      /\ \A b \in 1 .. n : S[m + b] = s[b + 1]
  BY <1>1, <1>4 DEF Splice
<1>6. CASE n = 0
  <2>0. Len(s) = 1
    BY <1>5, <1>6
  <2>1. op = "iret"
    BY <1>5, <2>0
  <2>2. code = <<>>
    BY <1>1, <2>1 DEF Brings
  <2>3. m + n = 0
    BY <1>5, <1>6, <2>2
  <2>4. S = <<>>
    BY <1>3, <1>5, <2>3, EmptySeq
  <2> QED BY <2>1, <2>4
<1>7. CASE n # 0
  <2>1. n \in 1 .. n
    BY <1>7
  <2>2. S[m + n] = s[n + 1] /\ m + n # 0
    BY <1>5, <1>7, <2>1
  <2>3. S # <<>>
    BY <1>5, <2>2
  <2> QED BY <1>5, <2>2, <2>3
<1> QED BY <1>6, <1>7

\* A processor that does not move.
LEMMA Rests ==
  ASSUME Safe, NEW d \in Apics, cpu'[d] = cpu[d], Todo(d)' = Todo(d),
         cpu[d].run \in Procs => proc'[cpu[d].run].intena \in {proc[cpu[d].run].intena, FALSE}
  PROVE  Closed(d)'
<1>1. Closed(d) /\ cpu[d].run \in Procs \cup {0}
  BY DEF Safe, TrapInv, Core, DataTypes, CpuType
<1>2. Now(d)' = Now(d)
  BY DEF Now
<1>3. InTrap(Todo(d)) /\ Now(d).op = "intena" => cpu[d].run \in Procs
  <2> SUFFICES ASSUME InTrap(Todo(d)), Now(d).op = "intena", cpu[d].run = 0 PROVE FALSE
    BY <1>1
  <2>1. Todo(d) # <<>> /\ Running(d) = <<"cpu", d>>
    BY DEF InTrap, Running
  <2>2. Now(d) \in Instructions(OpsOf(Running(d)))
    BY <2>1, Next1 DEF Safe, Core
  <2>3. "intena" \in OpsOf(Running(d))
    BY <2>2 DEF Instructions
  <2> QED BY <2>1, <2>3 DEF OpsOf, CpuOps, BootOps
<1>4. InTrap(Todo(d)) /\ Now(d).op = "intena" => proc'[cpu[d].run].intena = FALSE
  BY <1>1, <1>3 DEF Closed
<1> QED BY <1>1, <1>2, <1>4 DEF Closed

LEMMA ForwardTraps ==
  ASSUME Safe, NEW c \in Apics, NEW op, NEW code, NEW u, NEW U, Forward(c, op, code, u, U)
  PROVE  TrapInv'
<1>1. PICK s, S : s = Todo(c) /\ S = Todo(c)' /\ Going(c, op, code, s, S)
  BY Going1
<1>2. /\ s # <<>> /\ Now(c).op = op /\ cpu'[c].run = cpu[c].run /\ \A d \in Apics \ {c} : cpu'[d] = cpu[d]
      /\ InTrap(s) /\ op \notin Opens => ~ cpu'[c].IF /\ (cpu'[c].ncli > 0 => cpu'[c].intena = FALSE)
      /\ op = "iret" => cpu'[c].IF
      /\ \A p \in Procs : proc'[p].intena \in {proc[p].intena, FALSE}
  BY <1>1 DEF Forward
<1>3. cpu[c].run # 0 => /\ cpu[c].run \in Procs /\ kern'[cpu[c].run] = S /\ kern[cpu[c].run] = s
                        /\ s[Len(s)].op = "iret"
  <2>1. cpu[c].run # 0 => cpu[c].run \in Procs
    BY DEF Safe, Core, DataTypes, CpuType
  <2>2. cpu[c].run # 0 => kern'[cpu[c].run] = S /\ kern[cpu[c].run] = s
    BY <1>1, Forward1
  <2> QED BY <1>2, <2>1, <2>2 DEF Safe, TrapInv, Returns
<1>4. Closed(c)'
  <2>1. ASSUME InTrap(S)
        PROVE  /\ ~ cpu'[c].IF
               /\ IF Now(c)'.op = "intena" THEN proc'[cpu'[c].run].intena = FALSE ELSE cpu'[c].ncli > 0 => cpu'[c].intena = FALSE
    <3>1. InTrap(s) /\ op \notin Opens
      BY <1>1, <2>1, GoTrap
    <3>2. S # <<>>
      BY <2>1 DEF InTrap
    <3>3. Now(c)'.op # "intena"
      BY <1>1, <3>2, NoIntena DEF Now
    <3> QED BY <1>2, <3>1, <3>3
  <2>2. ASSUME cpu'[c].run # 0, S = <<>> PROVE cpu'[c].IF
    BY <1>1, <1>2, <1>3, <2>2, LastStays
  <2> QED BY <1>1, <2>1, <2>2 DEF Closed
<1>5. ASSUME NEW d \in Apics \ {c} PROVE Closed(d)'
  <2>1. Closed(d)
    BY DEF Safe, TrapInv
  <2>2. cpu'[d] = cpu[d] /\ cpu[d].run \in Procs \cup {0}
    BY <1>2 DEF Safe, Core, DataTypes, CpuType
  <2>3. CASE Todo(d)' = Todo(d)
    <3>1. cpu[d].run \in Procs => proc'[cpu[d].run].intena \in {proc[cpu[d].run].intena, FALSE}
      BY <1>2
    <3> QED BY <2>2, <2>3, <3>1, Rests
  <2>4. CASE Todo(d)' # Todo(d)
    <3>1. cpu[d].run = 0 /\ Todo(d)' = mpenter
      BY <2>4, Forward1
    <3>2. ~ InTrap(mpenter)
      BY NewCode
    <3> QED BY <2>2, <3>1, <3>2 DEF Closed
  <2> QED BY <2>3, <2>4
<1>6. ASSUME NEW p \in Procs PROVE Returns(p)'
  <2>1. Returns(p) /\ (Idle(p)' <=> Idle(p))
    BY Forward1 DEF Safe, TrapInv
  <2>2. CASE cpu[c].run = p
    <3>1. ~ Idle(p)
      BY <2>2 DEF Idle
    <3>2. p # 0
      BY DEF Procs
    <3>3. kern'[p] # <<>> => kern'[p][Len(kern'[p])].op = "iret"
      BY <1>1, <1>3, <2>2, <3>2, LastStays
    <3> QED BY <2>1, <3>1, <3>3 DEF Returns
  <2>3. CASE cpu[c].run # p
    <3>1. CASE kern'[p] = kern[p]
      BY <1>2, <2>1, <3>1 DEF Returns
    <3>2. CASE kern'[p] # kern[p]
      <4>1. kern'[p] = forkret
        BY <2>3, <3>2, Forward1
      <4> QED BY <4>1, NewCode DEF Returns
    <3> QED BY <3>1, <3>2
  <2> QED BY <2>2, <2>3
<1> QED BY <1>4, <1>5, <1>6 DEF TrapInv

LEMMA Onward ==
  ASSUME Safe, NEW c \in Apics, NEW op, Todo(c) # <<>>, Now(c).op = op, NEW code, Then(c, code), Brings(c, op, code),
         cpu'[c].run = cpu[c].run, \A d \in Apics \ {c} : cpu'[d] = cpu[d],
         InTrap(Todo(c)) /\ op \notin Opens => ~ cpu'[c].IF /\ (cpu'[c].ncli > 0 => cpu'[c].intena = FALSE),
         op = "iret" => cpu'[c].IF, \A p \in Procs : proc'[p].intena \in {proc[p].intena, FALSE}
  PROVE  ListInv' /\ TrapInv'
<1>1. PICK u, U : u = Running(c) /\ U = code \o Tail(Todo(c))
  OBVIOUS
<1>2. \A r \in Threads : Code(r)' = IF r = Running(c) THEN U ELSE Code(r)
  <2>1. Goto(c, U)
    BY <1>1 DEF Then
  <2> QED BY <2>1, GoesTo DEF Safe, Core
<1>3. Forward(c, op, code, u, U)
  BY <1>1, <1>2 DEF Forward
<1> QED BY <1>3, ForwardLists, ForwardTraps

\* One that leaves the interrupts as they are.
Gentle(c, op, code) ==
  /\ Doing(c, op) /\ op \notin {"iret", "intena"} /\ Then(c, code) /\ Brings(c, op, code)
  /\ \A d \in Apics \ {c} : cpu'[d] = cpu[d]
  /\ cpu'[c].run = cpu[c].run /\ cpu'[c].IF = cpu[c].IF /\ cpu'[c].ncli = cpu[c].ncli /\ cpu'[c].intena = cpu[c].intena
  /\ \A p \in Procs : proc'[p].intena \in {proc[p].intena, FALSE}

LEMMA Gently ==
  ASSUME Safe, NEW c \in Apics, NEW op, NEW code, Gentle(c, op, code)
  PROVE  ListInv' /\ TrapInv'
<1>1. Todo(c) # <<>> /\ Now(c).op = op /\ op \notin {"iret", "intena"}
  BY DEF Gentle, Doing
<1>2. Closed(c)
  BY DEF Safe, TrapInv
<1>3. InTrap(Todo(c)) => ~ cpu'[c].IF /\ (cpu'[c].ncli > 0 => cpu'[c].intena = FALSE)
  BY <1>1, <1>2 DEF Closed, Gentle
<1> QED BY <1>1, <1>3, Onward DEF Gentle

----------------------------------------------------------------------------
(* The steps that leave the interrupts as they are.                        *)

\* What is done to the process table leaves the interrupts of others.
LEMMA ChangeIntena ==
  ASSUME Core, NEW c \in Apics, change(c)
  PROVE  \A p \in Procs : proc'[p].intena \in {proc[p].intena, FALSE}
<1>1. PICK op \in {"block", "tidy", "runnable", "wakeup1", "zombie", "kill", "start", "unused"} : Doing(c, op)
  BY DEF change
<1>2. proc' = Change(c) /\ Now(c).op = op
  BY <1>1 DEF change, Doing
<1>3. DOMAIN proc = Procs /\ \A p \in Procs : DOMAIN proc[p] = Fields
  BY DEF Core, DataTypes, Fields
<1>4. PICK me, n : me = Me(c) /\ n = Now(c).n
  OBVIOUS
<1>5. CASE op \in {"block", "tidy", "runnable", "start"}
  <2>1. \/ proc' = [proc EXCEPT ![me].chan = n, ![me].state = "SLEEPING"]
        \/ proc' = [proc EXCEPT ![me].chan = 0]
        \/ proc' = [proc EXCEPT ![me].state = "RUNNABLE"]
        \/ proc' = [proc EXCEPT ![n].state = "RUNNABLE"]
    BY <1>2, <1>4, <1>5 DEF Change
  <2>2. \A p \in Procs : "intena" \in DOMAIN proc[p]
    BY <1>3 DEF Fields
  <2>3. CASE proc' = [proc EXCEPT ![me].chan = n, ![me].state = "SLEEPING"]
    <3>1. \A p \in Procs \ {me} : proc'[p] = proc[p]
      BY <1>3, <2>3
    <3>2. me \in Procs => proc'[me].intena = proc[me].intena
      BY <1>3, <2>2, <2>3
    <3> QED BY <3>1, <3>2
  <2>4. CASE \E q, v : proc' = [proc EXCEPT ![q].chan = v]
    <3> SUFFICES ASSUME NEW q, NEW v, proc' = [proc EXCEPT ![q].chan = v], NEW p \in Procs
                 PROVE  proc'[p].intena = proc[p].intena
      BY <2>4
    <3>1. CASE p = q
      BY <1>3, <2>2, <3>1
    <3>2. CASE p # q
      BY <1>3, <3>2
    <3> QED BY <3>1, <3>2
  <2>5. CASE \E q, v : proc' = [proc EXCEPT ![q].state = v]
    <3> SUFFICES ASSUME NEW q, NEW v, proc' = [proc EXCEPT ![q].state = v], NEW p \in Procs
                 PROVE  proc'[p].intena = proc[p].intena
      BY <2>5
    <3>1. CASE p = q
      BY <1>3, <2>2, <3>1
    <3>2. CASE p # q
      BY <1>3, <3>2
    <3> QED BY <3>1, <3>2
  <2> QED BY <2>1, <2>3, <2>4, <2>5
<1>6. CASE op = "wakeup1"
  <2>1. PICK w : w = proc' /\ w = Woken(proc, n)
    BY <1>2, <1>4, <1>6 DEF Change
  <2>2. \A q \in Procs : Alike(w[q], proc[q])
    BY <1>3, <2>1, WokenIs
  <2> QED BY <2>1, <2>2 DEF Alike
<1>7. CASE op = "zombie"
  <2>1. PICK z : z = proc' /\ z = Zombie(me)
    BY <1>2, <1>4, <1>7 DEF Change
  <2>2. me \in Procs
    <3>1. op \notin CpuOps \cup BootOps
      BY <1>7 DEF CpuOps, BootOps
    <3>2. \E p \in Procs : Running(c) = <<"proc", p>>
      BY <1>1, <3>1, Doings, OfProc
    <3>3. cpu[c].run # 0
      BY <3>2 DEF Running
    <3>4. cpu[c].proc = cpu[c].run /\ cpu[c].run \in Procs \cup {0}
      BY <1>1, <1>7, Doings
    <3> QED BY <1>4, <3>3, <3>4 DEF Me
  <2>3. \A q \in Procs : Alike(z[q], proc[q])
    BY <2>1, <2>2, ZombieIs DEF Core
  <2> QED BY <2>1, <2>3 DEF Alike
<1>8. CASE op = "kill"
  <2>1. proc' = IF proc[n].pid = 0 THEN proc
                ELSE [proc EXCEPT ![n].killed = TRUE, ![n].state = IF @ = "SLEEPING" THEN "RUNNABLE" ELSE @]
    BY <1>2, <1>4, <1>8 DEF Change, Killed
  <2>2. \A p \in Procs : "intena" \in DOMAIN proc[p]
    BY <1>3 DEF Fields
  <2> QED BY <1>3, <2>1, <2>2
<1>9. CASE op = "unused"
  <2>1. proc' = [proc EXCEPT ![n] = Unused]
    BY <1>2, <1>4, <1>9 DEF Change
  <2>2. Unused.intena = FALSE
    BY DEF Unused
  <2> QED BY <1>3, <2>1, <2>2
<1> QED BY <1>5, <1>6, <1>7, <1>8, <1>9

\* They bring nothing.
LEMMA SimpleSteps ==
  ASSUME Safe, NEW c \in Apics,
         change(c) \/ kalloc_peek(c) \/ kalloc_take(c) \/ kfree_push(c) \/ freerange(c) \/ tick(c) \/ request(c)
         \/ idestart(c) \/ lapicinit(c) \/ consoleinit(c) \/ ideinit(c) \/ use_lock(c) \/ startothers_wait(c)
         \/ entry(c) \/ idtinit(c)
  PROVE  ListInv' /\ TrapInv'
<1>1. PICK op : Doing(c, op) /\ op \notin {"iret", "intena"} /\ Then(c, <<>>)
  <2>1. CASE change(c)
    BY <2>1 DEF change
  <2>2. CASE kalloc_peek(c) \/ kalloc_take(c) \/ kfree_push(c) \/ freerange(c) \/ tick(c)
    BY <2>2 DEF kalloc_peek, kalloc_take, kfree_push, freerange, tick
  <2>3. CASE request(c) \/ idestart(c) \/ lapicinit(c) \/ consoleinit(c) \/ ideinit(c)
    BY <2>3 DEF request, idestart, lapicinit, consoleinit, ideinit
  <2>4. CASE use_lock(c) \/ startothers_wait(c) \/ entry(c) \/ idtinit(c)
    BY <2>4 DEF use_lock, startothers_wait, entry, idtinit
  <2> QED BY <2>1, <2>2, <2>3, <2>4
<1>2. DOMAIN cpu = Apics /\ {"run", "IF", "ncli", "intena"} \subseteq DOMAIN cpu[c] /\ DOMAIN proc = Procs
      /\ \A p \in Procs : "intena" \in DOMAIN proc[p]
  BY DEF Safe, Core, DataTypes, CpuType
<1>3. /\ \A d \in Apics \ {c} : cpu'[d] = cpu[d]
      /\ cpu'[c].run = cpu[c].run /\ cpu'[c].IF = cpu[c].IF /\ cpu'[c].ncli = cpu[c].ncli /\ cpu'[c].intena = cpu[c].intena
  <2>1. CASE cpu' = cpu
    BY <2>1
  <2>2. CASE cpu' # cpu
    <3>1. kalloc_peek(c) \/ lapicinit(c) \/ entry(c) \/ idtinit(c)
      BY <2>2 DEF change, kalloc_take, kfree_push, freerange, tick, request, idestart, consoleinit, ideinit, use_lock, startothers_wait
    <3>2. \E v : \/ cpu' = [cpu EXCEPT ![c].r = v] \/ cpu' = [cpu EXCEPT ![c].timer = v]
                 \/ cpu' = [cpu EXCEPT ![c].stack = v] \/ cpu' = [cpu EXCEPT ![c].idt = v]
      BY <2>2, <3>1 DEF kalloc_peek, lapicinit, entry, idtinit
    <3> QED BY <1>2, <3>2
  <2> QED BY <2>1, <2>2
<1>4. \A p \in Procs : proc'[p].intena \in {proc[p].intena, FALSE}
  <2>1. CASE proc' = proc
    BY <2>1
  <2>2. CASE proc' # proc
    <3>1. change(c) \/ kalloc_peek(c)
      BY <2>2 DEF kalloc_take, kfree_push, freerange, tick, request, idestart, consoleinit, ideinit, use_lock,
                  startothers_wait, lapicinit, entry, idtinit, data
    <3>2. CASE change(c)
      BY <3>2, ChangeIntena DEF Safe
    <3>3. CASE kalloc_peek(c)
      <4>1. \E q, v : proc' = [proc EXCEPT ![q].r = v]
        BY <2>2, <3>3 DEF kalloc_peek
      <4> QED BY <1>2, <4>1
    <3> QED BY <3>1, <3>2, <3>3
  <2> QED BY <2>1, <2>2
<1>5. Gentle(c, op, <<>>)
  BY <1>1, <1>3, <1>4, BringsNothing DEF Gentle
<1> QED BY <1>5, Gently

\* The scheduler may turn interrupts on.
LEMMA BringsOpen ==
  ASSUME NEW c, NEW op \in {"back", "scan", "started"}, NEW X, X \cap (RoughOps \cup {"forkret"}) = {},
         NEW code \in Seq(Instructions(X))
  PROVE  Brings(c, op, code)
<1>1. X \cap {"iret", "intena", "tick", "ideintr", "forkret"} = {} /\ X \cap RoughOps = {}
  BY DEF RoughOps
<1>2. Smooth(code)
  BY <1>1, SmoothMild
<1>3. \A a \in 1 .. Len(code) : code[a].op \notin {"await", "wakeup1", "idestart", "block"}
  <2>1. \A a \in 1 .. Len(code) : code[a].op \in X
    BY OpsAre
  <2> QED BY <2>1 DEF RoughOps
<1>4. op \in Opens /\ op \notin {"acquire", "release", "tick", "wakeup1", "iret", "sched"}
  BY DEF Opens
<1> QED BY <1>1, <1>2, <1>3, <1>4 DEF Brings

\* A step that changes no register and no intena.
LEMMA GentleStill ==
  ASSUME Safe, NEW c \in Apics, NEW op, Doing(c, op), op \notin {"iret", "intena"}, NEW code, Then(c, code), Brings(c, op, code),
         cpu' = cpu, \A p \in Procs : proc'[p].intena \in {proc[p].intena, FALSE}
  PROVE  ListInv' /\ TrapInv'
<1>1. Gentle(c, op, code)
  BY DEF Gentle
<1> QED BY <1>1, Gently

LEMMA SchedulerSteps ==
  ASSUME Safe, NEW c \in Apics, back(c) \/ started(c) \/ (scan(c) /\ cpu' = cpu)
  PROVE  ListInv' /\ TrapInv'
<1>1. PICK X : X = {"sti", "acquire", "release", "scan"}
  OBVIOUS
<1>2. X \cap (RoughOps \cup {"forkret"}) = {}
  BY <1>1 DEF RoughOps
<1>3. PICK V, l : V = Instructions(X) /\ scheduler \in Seq(V) /\ l = <<release("ptable")>> /\ l \in Seq(V)
  <2>1. {"acquire", "release"} \subseteq X /\ {"sti", "scan"} \subseteq X
    BY <1>1
  <2>2. scheduler \in Seq(Instructions(X))
    BY <2>1, GoodSmall DEF Good
  <2>3. release("ptable") \in Instructions(X)
    BY <2>1, TypeOfLock DEF Locks
  <2>4. <<release("ptable")>> \in Seq(Instructions(X))
    BY <2>3
  <2> QED BY <2>2, <2>4
<1>4. CASE started(c)
  <2>1. PICK op \in {"started"} : Doing(c, op) /\ Then(c, scheduler) /\ cpu' = cpu /\ proc' = proc
    BY <1>4 DEF started
  <2>2. Brings(c, op, scheduler)
    BY <1>2, <1>3, BringsOpen
  <2> QED BY <2>1, <2>2, GentleStill
<1>5. CASE scan(c) /\ cpu' = cpu
  <2>1. Doing(c, "scan")
    BY <1>5 DEF scan
  <2>2. PICK R, q : R = {r \in Procs : r >= Now(c).n /\ proc[r].state = "RUNNABLE"} /\ q = Min(R)
    OBVIOUS
  <2>3. R # {} => cpu'[c].run = q /\ q \in Procs /\ cpu[c].run = 0
    <3>1. HAVE R # {}
    <3>2. R \in SUBSET Nat
      BY <2>2 DEF Procs
    <3>3. q \in Procs
      BY <2>2, <3>1, <3>2, Least
    <3>4. cpu' = [cpu EXCEPT ![c] = [switchuvm(@, q) EXCEPT !.proc = q, !.run = q]]
      BY <1>5, <2>2, <3>1 DEF scan
    <3>5. DOMAIN cpu = Apics /\ "run" \in DOMAIN cpu[c]
      BY DEF Safe, Core, DataTypes, CpuType
    <3>6. cpu'[c].run = q
      BY <3>4, <3>5 DEF switchuvm
    <3> QED BY <2>1, <3>3, <3>6, Scanning DEF Safe
  <2>4. R = {}
    <3>1. 0 \notin Procs
      BY DEF Procs
    <3> QED BY <1>5, <2>3, <3>1
  <2>5. Then(c, <<release("ptable")>> \o scheduler) /\ proc' = proc
    BY <1>5, <2>2, <2>4 DEF scan
  <2>6. PICK code \in Seq(V) : code = <<release("ptable")>> \o scheduler
    <3>1. l \o scheduler \in Seq(V)
      BY <1>3, ConcatProperties
    <3> QED BY <1>3, <3>1
  <2>7. PICK op \in {"scan"} : Doing(c, op) /\ op \notin {"iret", "intena"}
    BY <2>1
  <2>8. Brings(c, op, code)
    BY <1>2, <1>3, <2>6, BringsOpen
  <2> QED BY <1>5, <2>5, <2>6, <2>7, <2>8, GentleStill
<1>6. CASE back(c)
  <2>1. PICK op \in {"back"} : Doing(c, op) /\ op \notin {"iret", "intena"}
    BY <1>6 DEF back
  <2>2. PICK m \in Int : m = Now(c).n + 1
    BY <2>1, Doings DEF Safe
  <2>3. Then(c, <<On("scan", m)>>) /\ proc' = proc /\ cpu' = [cpu EXCEPT ![c] = [switchkvm(@) EXCEPT !.proc = 0]]
    BY <1>6, <2>2 DEF back, data
  <2>4. DOMAIN cpu = Apics /\ {"run", "IF", "ncli", "intena"} \subseteq DOMAIN cpu[c]
    BY DEF Safe, Core, DataTypes, CpuType
  <2>5. /\ \A d \in Apics \ {c} : cpu'[d] = cpu[d]
        /\ cpu'[c].run = cpu[c].run /\ cpu'[c].IF = cpu[c].IF /\ cpu'[c].ncli = cpu[c].ncli /\ cpu'[c].intena = cpu[c].intena
    BY <2>3, <2>4 DEF switchkvm
  <2>6. <<On("scan", m)>> \in Seq(Instructions(X))
    <3>1. On("scan", m) \in Instructions(X)
      BY <1>1, TypeOfDo
    <3> QED BY <3>1
  <2>7. Brings(c, op, <<On("scan", m)>>)
    BY <1>2, <2>6, BringsOpen
  <2>8. Gentle(c, op, <<On("scan", m)>>)
    BY <2>1, <2>3, <2>5, <2>7 DEF Gentle
  <2> QED BY <2>8, Gently
<1> QED BY <1>4, <1>5, <1>6

\* The steps of allocproc and mpinit that change one thread.
LEMMA MakingSteps ==
  ASSUME Safe, NEW c \in Apics, allocproc_find(c) \/ (allocproc_kstack(c) /\ Page(c) = 0) \/ mpinit(c)
  PROVE  ListInv' /\ TrapInv'
<1>1. DOMAIN proc = Procs /\ \A p \in Procs : "intena" \in DOMAIN proc[p]
  BY DEF Safe, Core, DataTypes
<1>2. CASE allocproc_find(c)
  <2>1. PICK op : op = "find" /\ Doing(c, op)
    BY <1>2 DEF allocproc_find
  <2>2. PICK X : X = {"release", "acquire", "kalloc", "kstack"}
    OBVIOUS
  <2>3. PICK U, q : U = {r \in Procs : proc[r].state = "UNUSED"} /\ q = Min(U)
    OBVIOUS
  <2>4. PICK code : /\ Then(c, code) /\ code \in Seq(Instructions(X))
                    /\ proc' = proc \/ proc' = [proc EXCEPT ![q].state = "EMBRYO", ![q].pid = q]
    <3>1. release("ptable") \in Instructions(X) /\ Do("kalloc") \in Instructions(X)
      <4>1. {"acquire", "release"} \subseteq X
        BY <2>2
      <4> QED BY <2>2, <4>1, TypeOfLock, TypeOfDo DEF Locks
    <3>2. CASE U = {}
      <4>1. Then(c, <<release("ptable")>>) /\ proc' = proc
        BY <1>2, <2>3, <3>2 DEF allocproc_find
      <4>2. <<release("ptable")>> \in Seq(Instructions(X))
        BY <3>1
      <4> QED BY <4>1, <4>2
    <3>3. CASE U # {}
      <4>1. /\ Then(c, <<release("ptable"), Do("kalloc"), On("kstack", q)>>)
            /\ proc' = [proc EXCEPT ![q].state = "EMBRYO", ![q].pid = q]
        BY <1>2, <2>3, <3>3 DEF allocproc_find
      <4>2. q \in Int
        <5>1. U \in SUBSET Nat
          BY <2>3 DEF Procs
        <5> QED BY <2>3, <3>3, <5>1, Least
      <4>3. On("kstack", q) \in Instructions(X)
        BY <2>2, <4>2, TypeOfDo
      <4>4. <<release("ptable"), Do("kalloc"), On("kstack", q)>> \in Seq(Instructions(X))
        BY <3>1, <4>3
      <4> QED BY <4>1, <4>4
    <3> QED BY <3>2, <3>3
  <2>5. \A p \in Procs : proc'[p].intena = proc[p].intena
    <3>1. CASE proc' = proc
      BY <3>1
    <3>2. CASE proc' = [proc EXCEPT ![q].state = "EMBRYO", ![q].pid = q]
      <4>1. \A p \in Procs \ {q} : proc'[p] = proc[p]
        BY <1>1, <3>2
      <4>2. q \in Procs => proc'[q].intena = proc[q].intena
        BY <1>1, <3>2
      <4> QED BY <4>1, <4>2
    <3> QED BY <2>4, <3>1, <3>2
  <2>6. X \cap (RoughOps \cup Opens \cup {"forkret"}) = {}
    BY <2>2 DEF RoughOps, Opens
  <2>7. Brings(c, op, code)
    BY <2>1, <2>4, <2>6, BringsMild
  <2>8. cpu' = cpu
    BY <1>2 DEF allocproc_find
  <2> QED BY <2>1, <2>4, <2>5, <2>7, <2>8, GentleStill
<1>3. CASE allocproc_kstack(c) /\ Page(c) = 0
  <2>1. PICK op : op = "kstack" /\ Doing(c, op)
    BY <1>3 DEF allocproc_kstack
  <2>2. PICK q : Then(c, <<>>) /\ cpu' = cpu /\ proc' = [proc EXCEPT ![q].state = "UNUSED"]
    BY <1>3 DEF allocproc_kstack
  <2>3. \A p \in Procs : proc'[p].intena = proc[p].intena
    BY <1>1, <2>2
  <2> QED BY <2>1, <2>2, <2>3, BringsNothing, GentleStill
<1>4. CASE mpinit(c)
  <2>1. PICK op : op = "mpinit" /\ Doing(c, op)
    BY <1>4 DEF mpinit
  <2>2. PICK X : X = {"mpinit"}
    OBVIOUS
  <2>3. PICK code : Then(c, code) /\ code \in Seq(Instructions(X))
    <3>1. PICK j \in Int : j = Now(c).n
      BY <2>1, Doings DEF Safe
    <3>2. <<>> \in Seq(Instructions(X))
      OBVIOUS
    <3>3. \A k \in Int : On("mpinit", k) \in Instructions(X)
      BY <2>2, TypeOfDo
    <3>4. <<On("mpinit", j)>> \in Seq(Instructions(X)) /\ <<On("mpinit", j + 1)>> \in Seq(Instructions(X))
      BY <3>3
    <3>5. Then(c, <<>>) \/ Then(c, <<On("mpinit", j)>>) \/ Then(c, <<On("mpinit", j + 1)>>)
      BY <1>4, <3>1 DEF mpinit
    <3> QED BY <3>2, <3>4, <3>5
  <2>4. X \cap (RoughOps \cup Opens \cup {"forkret"}) = {}
    BY <2>2 DEF RoughOps, Opens
  <2>5. Brings(c, op, code)
    BY <2>1, <2>3, <2>4, BringsMild
  <2>6. cpu' = cpu /\ proc' = proc
    BY <1>4 DEF mpinit
  <2> QED BY <2>1, <2>3, <2>5, <2>6, GentleStill
<1> QED BY <1>2, <1>3, <1>4

----------------------------------------------------------------------------
(* The steps that go to sleep, and those of the disk.                      *)

\* Who looks in vain goes to sleep, and looks again.
LEMMA SleepBrings ==
  ASSUME NEW c, NEW p, p = cpu[c].run, NEW op \in {"await", "doze", "reap"}, NEW i \in Instructions({op}),
         NEW s, NEW X, X = {"acquire", "release", "block", "sched", "tidy"}, s \in Seq(Instructions(X)),
         NEW n \in Nat, Len(s) = n, NEW m \in 1 .. n,
         \A b \in 1 .. n : s[b].op = "block" => b = m,
         \A b \in 1 .. m - 1 : s[b].op \in {"acquire", "release"},
         Block(p, s, m)
  PROVE  Brings(c, op, s \o <<i>>)
<1>1. X = {"acquire", "release", "block", "sched", "tidy"} /\ s \in Seq(Instructions(X))
  OBVIOUS
<1>2. PICK code : code = s \o <<i>>
  OBVIOUS
<1>3. i.op = op /\ i \in Instructions({"await", "reap", "doze"})
  BY DEF Instructions
<1>4. \A b \in 1 .. n : s[b].op \in X
  BY <1>1, OpsAre
<1>5. /\ Smooth(code) /\ Len(code) = n + 1 /\ code[n + 1] = i
      /\ \A b \in 1 .. n : code[b] = s[b]
      /\ \A b \in 1 .. n + 1 : code[b].op = "block" => b = m
  <2>1. X \cap {"iret", "await", "forkret", "wakeup1", "tick", "ideintr"} = {}
    BY <1>1
  <2>2. \A b \in 1 .. n : s[b].op \in RoughOps => b = m /\ s[b].op = "block"
    BY <1>1, <1>4 DEF RoughOps
  <2>3. \A b \in 1 .. m - 1 : s[b].op \in {"acquire", "release"}
    OBVIOUS
  <2>4. /\ Smooth(s \o <<i>>) /\ Len(s \o <<i>>) = n + 1 /\ (s \o <<i>>)[n + 1] = i
        /\ \A b \in 1 .. n : (s \o <<i>>)[b] = s[b]
        /\ \A b \in 1 .. n + 1 : (s \o <<i>>)[b].op = "block" => b = m
    <3>1. PICK o : o = i /\ o \in Instructions({"await", "reap", "doze"})
      BY <1>3
    <3>2. /\ Smooth(s \o <<o>>) /\ Len(s \o <<o>>) = n + 1 /\ (s \o <<o>>)[n + 1] = o
          /\ \A b \in 1 .. n : (s \o <<o>>)[b] = s[b]
          /\ \A b \in 1 .. n + 1 : (s \o <<o>>)[b].op = "block" => b = m
      <4>1. Pause(s, n, m)
        BY <1>1, <2>1, <2>2, <2>3 DEF Pause
      <4> QED BY <3>1, <4>1, SleepSmooth
    <3> QED BY <3>1, <3>2
  <2> QED BY <1>2, <2>4
<1>6. \A a \in 1 .. n + 1 : code[a].op \in X \cup {op}
  <2>1. \A a \in 1 .. n + 1 : a \in 1 .. n \/ a = n + 1
    OBVIOUS
  <2> QED BY <1>3, <1>4, <1>5, <2>1
<1>7. PICK Y : Y = X \cup {op} /\ code \in Seq(Instructions(Y)) /\ Y \cap {"iret", "intena", "tick", "ideintr", "forkret"} = {}
  <2>1. PICK Y : Y = X \cup {op}
    OBVIOUS
  <2>2. s \in Seq(Instructions(Y))
    BY <1>1, <2>1, MoreOps
  <2>3. <<i>> \in Seq(Instructions(Y))
    BY <2>1, OneIs
  <2>4. code \in Seq(Instructions(Y))
    BY <1>2, <2>2, <2>3, ConcatProperties
  <2>5. Y \cap {"iret", "intena", "tick", "ideintr", "forkret"} = {}
    <3>1. op \in {"await", "doze", "reap"}
      OBVIOUS
    <3> QED BY <1>1, <2>1, <3>1
  <2> QED BY <2>1, <2>4, <2>5
<1>8. Block(p, code, m)
  <2>1. code[m] = s[m] /\ (m > 1 => code[m - 1] = s[m - 1]) /\ code[1] = s[1]
    BY <1>5
  <2> QED BY <2>1 DEF Block
<1>9. \A a \in 1 .. n + 1 : /\ code[a].op \notin Opens \cup {"wakeup1", "idestart"}
                            /\ code[a].op = "await" => op = "await"
                            /\ code[a].op = "block" => Block(p, code, a)
  BY <1>1, <1>5, <1>6, <1>8 DEF Opens
<1> QED BY <1>2, <1>5, <1>7, <1>9 DEF Brings

LEMMA SleepAway ==
  ASSUME NEW c, NEW p \in Procs, p = cpu[c].run, NEW op \in {"await", "doze"}, NEW i \in Instructions({op}), NEW chan, NEW lk,
         (chan = Ticks /\ lk = "tickslock") \/ (chan = Buffer(p) /\ lk = "idelock")
  PROVE  Brings(c, op, sleep(chan, lk) \o <<i>>)
<1>1. PICK s : s = sleep(chan, lk)
  OBVIOUS
<1>2. chan \in Int /\ lk \in {"tickslock", "idelock"} /\ chan \in {Ticks, Buffer(p), p}
  BY DEF Ticks, Buffer, Procs
<1>3. PICK X : X = {"acquire", "release", "block", "sched", "tidy"}
  OBVIOUS
<1>4. /\ s \in Seq(Instructions(X)) /\ Len(s) = 7
      /\ s[1] = acquire("ptable") /\ s[2] = release(lk) /\ s[3] = On("block", chan) /\ s[4] = Do("sched")
      /\ s[5] = Do("tidy") /\ s[6] = release("ptable") /\ s[7] = acquire(lk)
  BY <1>1, <1>2, <1>3, SleepIs
<1>5. s[3].op = "block" /\ s[3].n = chan /\ s[4].op = "sched" /\ s[5].op = "tidy"
      /\ s[1].op = "acquire" /\ s[2].op = "release" /\ s[6].op = "release" /\ s[7].op = "acquire"
  BY <1>4, FieldsOn, FieldsLock DEF Do
<1>6. PICK n, m : n = 7 /\ m = 3
  OBVIOUS
<1>7. \A b \in 1 .. n : b = 1 \/ b = 2 \/ b = 3 \/ b = 4 \/ b = 5 \/ b = 6 \/ b = 7
  BY <1>6
<1>8. \A b \in 1 .. n : s[b].op = "block" => b = m
  BY <1>5, <1>6, <1>7
<1>9. \A b \in 1 .. m - 1 : s[b].op \in {"acquire", "release"}
  <2>1. \A b \in 1 .. 2 : b = 1 \/ b = 2
    OBVIOUS
  <2> QED BY <1>5, <1>6, <2>1
<1>10. Block(p, s, m)
  <2>1. Given(p, chan, s[2])
    BY <1>4 DEF Given
  <2> QED BY <1>2, <1>4, <1>5, <1>6, <2>1 DEF Block
<1>11. m \in 1 .. n /\ n \in Nat /\ Len(s) = n
  BY <1>4, <1>6
<1>12. op \in {"await", "doze", "reap"} /\ i \in Instructions({op})
  OBVIOUS
<1>13. Brings(c, op, s \o <<i>>)
  BY <1>3, <1>4, <1>8, <1>9, <1>10, <1>11, <1>12, SleepBrings
<1> QED BY <1>1, <1>13

LEMMA SleepOn ==
  ASSUME NEW c, NEW p \in Procs, p = cpu[c].run
  PROVE  Brings(c, "reap", sleep(p, "ptable") \o <<Do("reap")>>)
<1>1. PICK s, op, i : s = sleep(p, "ptable") /\ op = "reap" /\ i = Do(op)
  OBVIOUS
<1>2. PICK X : X = {"acquire", "release", "block", "sched", "tidy"}
  OBVIOUS
<1>3. s \in Seq(Instructions(X)) /\ Len(s) = 3 /\ s[1] = On("block", p) /\ s[2] = Do("sched") /\ s[3] = Do("tidy")
  <2>1. p \in Int
    BY DEF Procs
  <2> QED BY <1>1, <1>2, <2>1, SleepHere
<1>4. s[1].op = "block" /\ s[1].n = p /\ s[2].op = "sched" /\ s[3].op = "tidy"
  BY <1>3, FieldsOn DEF Do
<1>5. PICK n, m : n = 3 /\ m = 1
  OBVIOUS
<1>6. \A b \in 1 .. n : s[b].op = "block" => b = m
  <2>1. \A b \in 1 .. 3 : b = 1 \/ b = 2 \/ b = 3
    OBVIOUS
  <2> QED BY <1>4, <1>5, <2>1
<1>7. \A b \in 1 .. m - 1 : s[b].op \in {"acquire", "release"}
  BY <1>5
<1>8. Block(p, s, m)
  BY <1>4, <1>5 DEF Block
<1>9. m \in 1 .. n /\ n \in Nat /\ Len(s) = n /\ op \in {"await", "doze", "reap"}
  BY <1>1, <1>3, <1>5
<1>10. i \in Instructions({op})
  BY <1>1, <1>9, TypeOfDo
<1> QED BY <1>1, <1>2, <1>3, <1>6, <1>7, <1>8, <1>9, <1>10, SleepBrings

\* Who waits for the disk, and who is made to.
LEMMA OfTheProcess ==
  ASSUME Core, NEW c \in Apics, NEW op, Doing(c, op), op \notin CpuOps \cup BootOps
  PROVE  cpu[c].run \in Procs /\ cpu[c].run # 0 /\ (op # "back" => Me(c) = cpu[c].run)
<1>1. \E p \in Procs : Running(c) = <<"proc", p>>
  BY Doings, OfProc
<1>2. cpu[c].run # 0
  BY <1>1 DEF Running
<1> QED BY <1>2, Doings DEF Me

LEMMA ReleaseIs ==
  ASSUME NEW l \in Locks
  PROVE  <<release(l)>> \in Seq(Instructions({"acquire", "release"}))
<1>1. PICK X : X = {"acquire", "release"}
  OBVIOUS
<1>2. release(l) \in Instructions(X)
  BY <1>1, TypeOfLock
<1>3. <<release(l)>> \in Seq(Instructions(X))
  BY <1>2
<1> QED BY <1>1, <1>3

LEMMA ReleaseBrings ==
  ASSUME NEW c, NEW l \in Locks, NEW op, op \notin {"acquire", "release", "tick", "wakeup1", "iret", "sched"}
  PROVE  Brings(c, op, <<release(l)>>)
<1>1. PICK X : X = {"acquire", "release"}
  OBVIOUS
<1>2. <<release(l)>> \in Seq(Instructions(X))
  BY <1>1, ReleaseIs
<1>3. X \cap (RoughOps \cup Opens \cup {"forkret"}) = {}
  BY <1>1 DEF RoughOps, Opens
<1> QED BY <1>2, <1>3, BringsMild

LEMMA DiskSteps ==
  ASSUME Safe, NEW c \in Apics, forkret_first(c) \/ ideintr(c) \/ await(c)
  PROVE  ListInv' /\ TrapInv'
<1>1. cpu' = cpu /\ proc' = proc
  BY DEF forkret_first, ideintr, await
<1>2. CASE forkret_first(c)
  <2>1. PICK op : op = "forkret" /\ Doing(c, op) /\ (Then(c, iderw) \/ Then(c, <<>>))
    BY <1>2 DEF forkret_first
  <2>2. PICK i, j, k : i = acquire("idelock") /\ j = Do("request") /\ k = Do("await")
    OBVIOUS
  <2>3. PICK code : code = iderw /\ code = <<i, j, k>>
    BY <2>2 DEF iderw
  <2>4. i.op = "acquire" /\ j.op = "request" /\ k.op = "await" /\ j # Irq /\ k # Irq
    BY <2>2, FieldsLock, FieldsOn DEF Do, Irq
  <2>5. Smooth(code)
    <3>1. ~ Rough(i, j) /\ ~ Rough(i, k) /\ ~ Rough(j, k)
      BY <2>4 DEF Rough
    <3> QED BY <2>3, <3>1, SmoothThree
  <2>6. Len(code) = 3 /\ code[1] = i /\ code[2] = j /\ code[3] = k
    BY <2>3
  <2>7. \A a \in 1 .. Len(code) : code[a].op \in {"acquire", "request", "await"}
    <3>1. \A a \in 1 .. 3 : a = 1 \/ a = 2 \/ a = 3
      OBVIOUS
    <3> QED BY <2>4, <2>6, <3>1
  <2>8. \E X : code \in Seq(Instructions(X)) /\ X \cap {"iret", "intena", "tick", "ideintr", "forkret"} = {}
    <3>1. PICK X : X = {"acquire", "release", "request", "await"}
      OBVIOUS
    <3>2. {"acquire", "release"} \subseteq X /\ {"request", "await"} \subseteq X
      BY <3>1
    <3>3. code \in Seq(Instructions(X))
      BY <2>3, <3>2, GoodSmall DEF Good
    <3> QED BY <3>1, <3>3
  <2>9. Brings(c, op, code)
    BY <2>1, <2>5, <2>7, <2>8 DEF Brings, Opens
  <2> QED BY <1>1, <2>1, <2>3, <2>9, BringsNothing, GentleStill
<1>3. CASE ideintr(c)
  <2>1. PICK op : op = "ideintr" /\ Doing(c, op)
    BY <1>3 DEF ideintr
  <2>2. CASE disk.queue = <<>>
    <3>1. Then(c, <<release("idelock")>>)
      BY <1>3, <2>2 DEF ideintr
    <3>2. Brings(c, op, <<release("idelock")>>)
      BY <2>1, ReleaseBrings DEF Locks
    <3> QED BY <1>1, <2>1, <3>1, <3>2, GentleStill
  <2>3. CASE disk.queue # <<>>
    <3>1. PICK b : b = Buffer(Head(disk.queue)) /\ b \in Int
      <4>1. disk.queue \in Seq(Int)
        BY DEF Safe, Core, DataTypes
      <4>2. Head(disk.queue) \in Int
        BY <2>3, <4>1, HeadTailProperties
      <4> QED BY <4>2 DEF Buffer
    <3>2. PICK w : /\ w = wakeup(b) /\ w \in Seq(Instructions({"acquire", "release", "wakeup1"})) /\ Smooth(w)
                   /\ Len(w) = 3 /\ w[1] = acquire("ptable") /\ w[2] = On("wakeup1", b) /\ w[3] = release("ptable")
      BY <3>1, SmoothWakeup
    <3>3. PICK i, j, r : i = Do("idestart") /\ j = release("idelock") /\ r = <<i, j>>
      OBVIOUS
    <3>4. i.op = "idestart" /\ j.op = "release" /\ i # Irq /\ j # Irq
      BY <3>3, FieldsLock, FieldsOn DEF Do, Irq
    <3>5. Smooth(r)
      <4>1. ~ Rough(i, j)
        BY <3>4 DEF Rough
      <4> QED BY <3>3, <4>1, SmoothTwo
    <3>6. PICK X : X = {"acquire", "release", "wakeup1", "idestart"}
      OBVIOUS
    <3>7. PICK V : V = Instructions(X) /\ w \in Seq(V) /\ r \in Seq(V)
      <4>1. w \in Seq(Instructions(X))
        BY <3>2, <3>6, MoreOps
      <4>2. i \in Instructions(X)
        BY <3>3, <3>6, TypeOfDo
      <4>3. j \in Instructions(X)
        <5>1. {"acquire", "release"} \subseteq X
          BY <3>6
        <5> QED BY <3>3, <5>1, TypeOfLock DEF Locks
      <4> QED BY <3>3, <4>1, <4>2, <4>3
    <3>8. \A a \in 1 .. Len(w), e \in 1 .. Len(r) : ~ Rough(w[a], r[e])
      <4> SUFFICES ASSUME NEW a \in 1 .. Len(w), NEW e \in 1 .. Len(r) PROVE ~ Rough(w[a], r[e])
        OBVIOUS
      <4>1. w[a].op \in {"acquire", "release", "wakeup1"}
        BY <3>2, OpsAre
      <4>2. r[e] = i \/ r[e] = j
        <5>1. Len(r) = 2 /\ r[1] = i /\ r[2] = j
          BY <3>3
        <5>2. e = 1 \/ e = 2
          BY <5>1
        <5> QED BY <5>1, <5>2
      <4> QED BY <3>4, <4>1, <4>2 DEF Rough
    <3>9. PICK code \in Seq(V) : code = w \o r /\ Smooth(code)
      <4>1. w \o r \in Seq(V) /\ Smooth(w \o r)
        BY <3>2, <3>5, <3>7, <3>8, SmoothConcat, ConcatProperties
      <4> QED BY <4>1
    <3>10. \A a \in 1 .. Len(code) : code[a].op \in X
      BY <3>7, <3>9, OpsAre
    <3>11. Brings(c, op, code)
      <4>1. \E Y : code \in Seq(Instructions(Y)) /\ Y \cap {"iret", "intena", "tick", "ideintr", "forkret"} = {}
        BY <3>6, <3>7, <3>9
      <4> QED BY <2>1, <3>6, <3>9, <3>10, <4>1 DEF Brings, Opens
    <3>12. Then(c, code)
      BY <1>3, <2>3, <3>1, <3>2, <3>3, <3>9 DEF ideintr
    <3> QED BY <1>1, <2>1, <3>11, <3>12, GentleStill
  <2> QED BY <2>2, <2>3
<1>4. CASE await(c)
  <2>1. PICK op : op = "await" /\ Doing(c, op)
    BY <1>4 DEF await
  <2>2. PICK p \in Procs : p = cpu[c].run /\ p = Me(c)
    <3>1. op \notin CpuOps \cup BootOps /\ op # "back"
      BY <2>1 DEF CpuOps, BootOps
    <3> QED BY <2>1, <3>1, OfTheProcess DEF Safe
  <2>3. CASE p \in disk.done
    <3>1. Then(c, <<release("idelock")>>)
      BY <1>4, <2>2, <2>3 DEF await
    <3>2. Brings(c, op, <<release("idelock")>>)
      BY <2>1, ReleaseBrings DEF Locks
    <3> QED BY <1>1, <2>1, <3>1, <3>2, GentleStill
  <2>4. CASE p \notin disk.done
    <3>1. PICK i : i = Do(op) /\ i \in Instructions({op})
      BY <2>1, TypeOfDo
    <3>2. PICK code : code = sleep(Buffer(p), "idelock") \o <<i>>
      OBVIOUS
    <3>3. Then(c, code)
      BY <1>4, <2>1, <2>2, <2>4, <3>1, <3>2 DEF await
    <3>4. Brings(c, op, code)
      BY <2>1, <2>2, <3>1, <3>2, SleepAway
    <3> QED BY <1>1, <2>1, <3>3, <3>4, GentleStill
  <2> QED BY <2>3, <2>4
<1> QED BY <1>2, <1>3, <1>4

----------------------------------------------------------------------------
(* What is left to do when a function has looked at the state.             *)

\* Of each function, that what it brings turns no interrupts on and wakes nobody.
Quiet(code) == \E X : X \cap (RoughOps \cup Opens \cup {"forkret"}) = {} /\ code \in Seq(Instructions(X))

LEMMA QuietBrings ==
  ASSUME NEW c, NEW op, NEW code, Quiet(code),
         code # <<>> => op \notin {"acquire", "release", "tick", "wakeup1", "iret", "sched"}
  PROVE  Brings(c, op, code)
  BY BringsMild DEF Quiet

LEMMA QuietCode ==
  /\ Quiet(<<>>) /\ Quiet(exit) /\ Quiet(yield) /\ Quiet(kalloc) /\ Quiet(cprintf)
  /\ \A i : i.op = "doze" /\ i \in Instructions({"doze"}) => Quiet(<<i>>)
  /\ Quiet(allocproc)
<1>1. PICK X : X = {"acquire", "release", "zombie", "sched", "zombie exit", "runnable", "peek", "take", "doze", "find"}
  OBVIOUS
<1>2. X \cap (RoughOps \cup Opens \cup {"forkret"}) = {}
  BY <1>1 DEF RoughOps, Opens
<1>3. {"acquire", "release"} \subseteq X /\ {"runnable", "sched"} \subseteq X /\ {"zombie", "sched", "zombie exit"} \subseteq X
      /\ {"acquire", "release", "peek", "take"} \subseteq X /\ "find" \in X
  BY <1>1
<1>4. exit \in Seq(Instructions(X)) /\ yield \in Seq(Instructions(X)) /\ allocproc \in Seq(Instructions(X))
  BY <1>3, GoodSmall DEF Good
<1>5. kalloc \in Seq(Instructions(X))
  BY <1>3, GoodKalloc DEF Good
<1>6. <<>> \in Seq(Instructions(X))
  OBVIOUS
<1>7. cprintf \in Seq(Instructions(X))
  <2>1. acquire("cons") \in Instructions(X) /\ release("cons") \in Instructions(X)
    BY <1>3, TypeOfLock DEF Locks
  <2>2. PICK V : V = Instructions(X)
    OBVIOUS
  <2>3. <<acquire("cons")>> \in Seq(V) /\ <<release("cons")>> \in Seq(V) /\ <<>> \in Seq(V)
    BY <2>1, <2>2
  <2>4. <<acquire("cons")>> \o <<>> \o <<release("cons")>> \in Seq(V)
    BY <2>3, ConcatProperties
  <2> QED BY <1>6, <2>2, <2>4 DEF cprintf, Under
<1>8. \A i : i \in Instructions({"doze"}) => <<i>> \in Seq(Instructions(X))
  <2>1. {"doze"} \subseteq X
    BY <1>1
  <2> QED BY <2>1, OneIs
<1> QED BY <1>2, <1>4, <1>5, <1>6, <1>7, <1>8 DEF Quiet

LEMMA QuietFree ==
  ASSUME NEW q \in Procs
  PROVE  Quiet(freeing(q))
<1>1. PICK X : X = {"acquire", "release", "kfree", "unused"}
  OBVIOUS
<1>2. X \cap (RoughOps \cup Opens \cup {"forkret"}) = {}
  BY <1>1 DEF RoughOps, Opens
<1>3. /\ acquire("kmem") \in Instructions(X) /\ release("kmem") \in Instructions(X) /\ release("ptable") \in Instructions(X)
      /\ On("kfree", q) \in Instructions(X) /\ On("unused", q) \in Instructions(X)
  <2>1. {"acquire", "release"} \subseteq X /\ q \in Int
    BY <1>1 DEF Procs
  <2> QED BY <1>1, <2>1, TypeOfLock, TypeOfDo DEF Locks
<1>4. PICK V : V = Instructions(X)
  OBVIOUS
<1>5. /\ <<acquire("kmem")>> \in Seq(V) /\ <<release("kmem")>> \in Seq(V) /\ <<On("kfree", q)>> \in Seq(V)
      /\ <<On("unused", q), release("ptable")>> \in Seq(V)
  BY <1>3, <1>4
<1>6. kfree(q) \in Seq(V)
  <2>1. <<acquire("kmem")>> \o <<On("kfree", q)>> \o <<release("kmem")>> \in Seq(V)
    BY <1>5, ConcatProperties
  <2> QED BY <1>5, <2>1 DEF kfree, Under
<1>7. freeing(q) \in Seq(V)
  BY <1>5, <1>6, ConcatProperties DEF freeing
<1> QED BY <1>2, <1>4, <1>7 DEF Quiet

LEMMA QuietStart ==
  ASSUME NEW c, NEW j \in Int
  PROVE  Quiet(startothers(c, j))
<1>1. PICK X : X = {"kalloc", "lapicstartap", "wait", "startothers"}
  OBVIOUS
<1>2. X \cap (RoughOps \cup Opens \cup {"forkret"}) = {}
  BY <1>1 DEF RoughOps, Opens
<1>3. /\ Do("kalloc") \in Instructions(X) /\ On("lapicstartap", j) \in Instructions(X) /\ On("wait", j) \in Instructions(X)
      /\ On("startothers", j + 1) \in Instructions(X)
  <2>1. \A n \in Int : \A op \in X : Do(op) \in Instructions(X) /\ On(op, n) \in Instructions(X)
    <3>1. \A op \in X : op \notin {"acquire", "release"}
      BY <1>1
    <3> QED BY <3>1, TypeOfDo
  <2>2. j + 1 \in Int
    OBVIOUS
  <2> QED BY <1>1, <2>1, <2>2
<1>4. PICK V : V = Instructions(X)
  OBVIOUS
<1>5. <<>> \in Seq(V) /\ <<Do("kalloc"), On("lapicstartap", j), On("wait", j)>> \in Seq(V) /\ <<On("startothers", j + 1)>> \in Seq(V)
  BY <1>3, <1>4
<1>6. /\ <<>> \o <<On("startothers", j + 1)>> \in Seq(V)
      /\ <<Do("kalloc"), On("lapicstartap", j), On("wait", j)>> \o <<On("startothers", j + 1)>> \in Seq(V)
  BY <1>5, ConcatProperties
<1>7. startothers(c, j) \in Seq(V)
  BY <1>5, <1>6 DEF startothers
<1> QED BY <1>2, <1>4, <1>7 DEF Quiet

LEMMA EnterStep ==
  ASSUME Safe, NEW c \in Apics, enter(c)
  PROVE  ListInv' /\ TrapInv'
<1>1. PICK op \in {"reap", "since", "doze", "quit", "preempt", "kalloc", "cprintf", "startothers"} : Doing(c, op)
  BY DEF enter
<1>2. Then(c, Body(c)) /\ cpu' = cpu /\ proc' = proc
  BY DEF enter, data
<1>3. Now(c).op = op /\ Now(c).n \in Int /\ Now(c) \in Instructions(OpsOf(Running(c))) /\ Me(c) = cpu[c].run
  <2>1. op # "back"
    OBVIOUS
  <2> QED BY <1>1, <2>1, Doings DEF Safe, Me
<1>4. op \in {"reap", "doze", "since"} => cpu[c].run \in Procs
  <2>1. op \in {"reap", "doze", "since"} => op \notin CpuOps \cup BootOps
    BY DEF CpuOps, BootOps
  <2> QED BY <1>1, <2>1, OfTheProcess DEF Safe
<1>5. op \notin {"acquire", "release", "tick", "wakeup1", "iret", "sched", "intena"}
  OBVIOUS
<1>6. Brings(c, op, Body(c))
  <2>1. CASE op = "quit"
    <3>1. Body(c) = exit \/ Body(c) = <<>>
      BY <1>3, <2>1 DEF Body, quit
    <3> QED BY <1>5, <3>1, QuietBrings, QuietCode
  <2>2. CASE op = "preempt"
    <3>1. Body(c) = yield \/ Body(c) = <<>>
      BY <1>3, <2>2 DEF Body, preempt
    <3> QED BY <1>5, <3>1, QuietBrings, QuietCode
  <2>3. CASE op \in {"kalloc", "cprintf"}
    <3>1. Body(c) = kalloc \/ Body(c) = cprintf
      BY <1>3, <2>3 DEF Body
    <3> QED BY <1>5, <3>1, QuietBrings, QuietCode
  <2>4. CASE op = "startothers"
    <3>1. PICK j \in Int : Body(c) = startothers(c, j)
      BY <1>3, <2>4 DEF Body
    <3> QED BY <1>5, <3>1, QuietBrings, QuietStart
  <2>5. CASE op = "since"
    <3>1. PICK i : i = [op |-> "doze", on |-> "none", n |-> Now(c).n, since |-> ticks]
      OBVIOUS
    <3>2. i.op = "doze" /\ i \in Instructions({"doze"})
      <4>1. ticks \in Int
        BY DEF Safe, Core, DataTypes
      <4> QED BY <1>3, <3>1, <4>1 DEF Instructions, LockNames
    <3>3. Body(c) = <<i>>
      BY <1>3, <2>5, <3>1 DEF Body, since
    <3> QED BY <1>5, <3>2, <3>3, QuietBrings, QuietCode
  <2>6. CASE op = "doze"
    <3>0. PICK i : i = Now(c)
      OBVIOUS
    <3>1. PICK p \in Procs : i = Now(c) /\ p = cpu[c].run
      BY <1>4, <2>6, <3>0
    <3>2. Body(c) = <<release("tickslock")>> \/ Body(c) = sleep(Ticks, "tickslock") \o <<i>>
      BY <1>3, <2>6, <3>1 DEF Body, doze
    <3>3. i \in Instructions({op})
      BY <1>3, <3>1 DEF Instructions
    <3>4. Brings(c, op, sleep(Ticks, "tickslock") \o <<i>>)
      BY <2>6, <3>1, <3>3, SleepAway
    <3>5. Brings(c, op, <<release("tickslock")>>)
      BY <1>5, ReleaseBrings DEF Locks
    <3> QED BY <3>2, <3>4, <3>5
  <2>7. CASE op = "reap"
    <3>1. PICK p \in Procs : p = cpu[c].run
      BY <1>4, <2>7
    <3>2. PICK D : D = {q \in {r \in Procs : proc[r].parent = p} : proc[q].state = "ZOMBIE"}
      OBVIOUS
    <3>3. \/ D # {} /\ Body(c) = freeing(Min(D))
          \/ Body(c) = <<release("ptable")>> \/ Body(c) = sleep(p, "ptable") \o <<Do("reap")>>
      BY <1>3, <2>7, <3>1, <3>2 DEF Body, reap
    <3>4. D # {} => Brings(c, op, freeing(Min(D)))
      <4>1. D \in SUBSET Nat
        BY <3>2 DEF Procs
      <4>2. D # {} => Min(D) \in Procs
        BY <3>2, <4>1, Least
      <4> QED BY <1>5, <4>2, QuietBrings, QuietFree
    <3>5. Brings(c, op, sleep(p, "ptable") \o <<Do("reap")>>)
      BY <2>7, <3>1, SleepOn
    <3>6. Brings(c, op, <<release("ptable")>>)
      BY <1>5, ReleaseBrings DEF Locks
    <3> QED BY <3>3, <3>4, <3>5, <3>6
  <2> QED BY <2>1, <2>2, <2>3, <2>4, <2>5, <2>6, <2>7
<1> QED BY <1>1, <1>2, <1>5, <1>6, GentleStill

----------------------------------------------------------------------------
(* Locks, and the interrupts of the processor that takes them.             *)

LEMMA Standing1 ==
  ASSUME Safe, NEW c \in Apics, UNCHANGED <<todo, kern, proc>>, Todo(c) # <<>>, Now(c).op # "intena",
         cpu'[c].run = cpu[c].run, \A d \in Apics \ {c} : cpu'[d] = cpu[d],
         InTrap(Todo(c)) => ~ cpu'[c].IF /\ (cpu'[c].ncli > 0 => cpu'[c].intena = FALSE)
  PROVE  ListInv' /\ TrapInv'
<1>1. \A d \in Apics : cpu'[d].run = cpu[d].run
  OBVIOUS
<1>2. \A d \in Apics : Todo(d)' = Todo(d) /\ Now(d)' = Now(d)
  BY <1>1 DEF Todo, Now
<1>3. \A t : Code(t)' = Code(t)
  BY DEF Code
<1>4. \A p \in Procs : Idle(p)' <=> Idle(p)
  BY <1>1 DEF Idle
<1>5. ListInv'
  <2>1. SmoothInv'
    BY <1>3 DEF Safe, ListInv, SmoothInv
  <2>2. \A t \in Threads : Rings(Code(t)')
    BY <1>3 DEF Safe, ListInv
  <2>3. \A p \in Procs : Blocks(p)'
    BY <1>4 DEF Safe, ListInv, Blocks
  <2> QED BY <2>1, <2>2, <2>3 DEF ListInv
<1>6. TrapInv'
  <2>1. Closed(c)'
    BY <1>2 DEF Closed
  <2>2. ASSUME NEW d \in Apics \ {c} PROVE Closed(d)'
    <3>1. Closed(d) /\ cpu'[d] = cpu[d] /\ Todo(d)' = Todo(d) /\ Now(d)' = Now(d)
      BY <1>2 DEF Safe, TrapInv
    <3> QED BY <3>1 DEF Closed
  <2>3. \A p \in Procs : Returns(p)'
    BY <1>4 DEF Safe, TrapInv, Returns
  <2> QED BY <2>1, <2>2, <2>3 DEF TrapInv
<1> QED BY <1>5, <1>6

LEMMA LockSteps ==
  ASSUME Safe, NEW c \in Apics, acquire_cli(c) \/ acquire_xchg(c) \/ release_unlock(c) \/ release_popcli(c)
  PROVE  ListInv' /\ TrapInv'
<1>1. DOMAIN cpu = Apics /\ CpuType(cpu[c]) /\ Sane(c) /\ Closed(c)
  BY DEF Safe, Core, DataTypes, SaneInv, TrapInv
<1>2. DOMAIN cpu[c] = {"IF", "ncli", "intena", "run", "proc", "ts", "cr3", "stack", "idt", "timer", "at", "lk", "r"}
      /\ cpu[c].ncli \in Int /\ cpu[c].IF \in BOOLEAN
  BY <1>1 DEF CpuType
<1>3. CASE acquire_cli(c)
  <2>1. Todo(c) # <<>> /\ Now(c).op # "intena" /\ UNCHANGED <<todo, kern, proc>>
    BY <1>3 DEF acquire_cli, Doing
  <2>2. cpu' = [cpu EXCEPT ![c] = [pushcli(@) EXCEPT !.at = "xchg", !.lk = Now(c).on]]
    BY <1>3 DEF acquire_cli
  <2>3. /\ \A d \in Apics \ {c} : cpu'[d] = cpu[d]
        /\ cpu'[c] = [pushcli(cpu[c]) EXCEPT !.at = "xchg", !.lk = Now(c).on]
    BY <1>1, <2>2
  <2>4. cpu'[c].run = cpu[c].run /\ cpu'[c].IF = FALSE /\ cpu'[c].intena = IF cpu[c].ncli = 0 THEN cpu[c].IF ELSE cpu[c].intena
    BY <1>2, <2>3 DEF pushcli
  <2>5. InTrap(Todo(c)) => cpu[c].IF = FALSE /\ (cpu[c].ncli > 0 => cpu[c].intena = FALSE) /\ cpu[c].ncli >= 0
    <3>1. cpu[c].ncli >= 0
      <4>1. PICK l \in Locks : TRUE
        BY DEF Locks
      <4>2. Cardinality(Mine(c)) \in Nat
        BY <4>1, MineFinite
      <4> QED BY <1>1, <4>2 DEF Sane
    <3> QED BY <1>1, <1>2, <2>1, <3>1 DEF Closed
  <2>6. InTrap(Todo(c)) => cpu'[c].intena = FALSE
    BY <1>2, <2>4, <2>5
  <2> QED BY <2>1, <2>3, <2>4, <2>6, Standing1
<1>4. CASE release_unlock(c)
  <2>1. Todo(c) # <<>> /\ Now(c).op # "intena" /\ UNCHANGED <<todo, kern, proc>>
    BY <1>4 DEF release_unlock, Doing
  <2>2. cpu' = [cpu EXCEPT ![c].at = "popcli"]
    BY <1>4 DEF release_unlock
  <2>3. /\ \A d \in Apics \ {c} : cpu'[d] = cpu[d]
        /\ cpu'[c].run = cpu[c].run /\ cpu'[c].IF = cpu[c].IF /\ cpu'[c].ncli = cpu[c].ncli /\ cpu'[c].intena = cpu[c].intena
    BY <1>1, <1>2, <2>2
  <2>4. InTrap(Todo(c)) => ~ cpu[c].IF /\ (cpu[c].ncli > 0 => cpu[c].intena = FALSE)
    BY <1>1, <2>1 DEF Closed
  <2> QED BY <2>1, <2>3, <2>4, Standing1
<1>5. CASE acquire_xchg(c)
  <2>1. PICK op : op = "acquire" /\ Todo(c) # <<>> /\ Now(c).op = op
    BY <1>1, <1>5 DEF acquire_xchg, Sane
  <2>2. Then(c, <<>>) /\ cpu' = [cpu EXCEPT ![c].at = "run"] /\ proc' = proc
    BY <1>5 DEF acquire_xchg
  <2>3. /\ \A d \in Apics \ {c} : cpu'[d] = cpu[d]
        /\ cpu'[c].run = cpu[c].run /\ cpu'[c].IF = cpu[c].IF /\ cpu'[c].ncli = cpu[c].ncli /\ cpu'[c].intena = cpu[c].intena
    BY <1>1, <1>2, <2>2
  <2>4. InTrap(Todo(c)) => ~ cpu[c].IF /\ (cpu[c].ncli > 0 => cpu[c].intena = FALSE)
    BY <1>1, <2>1 DEF Closed
  <2>5. Brings(c, op, <<>>) /\ op # "iret" /\ \A p \in Procs : proc'[p].intena \in {proc[p].intena, FALSE}
    BY <2>1, <2>2, BringsNothing
  <2> QED BY <2>1, <2>2, <2>3, <2>4, <2>5, Onward
<1>6. CASE release_popcli(c)
  <2>1. PICK op : op = "release" /\ Todo(c) # <<>> /\ Now(c).op = op
    BY <1>1, <1>6 DEF release_popcli, Sane
  <2>2. Then(c, <<>>) /\ cpu' = [cpu EXCEPT ![c] = [popcli(@) EXCEPT !.at = "run"]] /\ proc' = proc
    BY <1>6 DEF release_popcli
  <2>3. /\ \A d \in Apics \ {c} : cpu'[d] = cpu[d]
        /\ cpu'[c] = [popcli(cpu[c]) EXCEPT !.at = "run"]
    BY <1>1, <2>2
  <2>4. cpu'[c].run = cpu[c].run /\ cpu'[c].IF = (cpu[c].ncli = 1 /\ cpu[c].intena) /\ cpu'[c].intena = cpu[c].intena
    BY <1>2, <2>3 DEF popcli
  <2>5. cpu[c].ncli > 0
    <3>1. PICK l \in Locks : TRUE
      BY DEF Locks
    <3>2. Cardinality(Mine(c)) \in Nat
      BY <3>1, MineFinite
    <3>3. cpu[c].at # "run"
      BY <1>6 DEF release_popcli
    <3> QED BY <1>1, <3>2, <3>3 DEF Sane
  <2>6. InTrap(Todo(c)) => cpu[c].intena = FALSE
    BY <1>1, <2>1, <2>5 DEF Closed
  <2>7. InTrap(Todo(c)) => ~ cpu'[c].IF /\ cpu'[c].intena = FALSE
    BY <2>4, <2>6
  <2>8. Brings(c, op, <<>>) /\ op # "iret" /\ \A p \in Procs : proc'[p].intena \in {proc[p].intena, FALSE}
    BY <2>1, <2>2, BringsNothing
  <2> QED BY <2>1, <2>2, <2>3, <2>4, <2>7, <2>8, Onward
<1> QED BY <1>3, <1>4, <1>5, <1>6

\* Who turns interrupts on, and what sched does when the process runs again.
LEMMA FlagSteps ==
  ASSUME Safe, NEW c \in Apics, sti(c) \/ iret(c) \/ sched_intena(c)
  PROVE  ListInv' /\ TrapInv'
<1>1. DOMAIN cpu = Apics /\ {"IF", "ncli", "intena", "run"} \subseteq DOMAIN cpu[c] /\ Closed(c)
  BY DEF Safe, Core, DataTypes, CpuType, TrapInv
<1>2. Then(c, <<>>) /\ proc' = proc /\ \A op : Brings(c, op, <<>>)
  BY BringsNothing DEF sti, iret, sched_intena, data
<1>3. CASE sti(c) \/ iret(c)
  <2>1. PICK op \in {"sti", "iret"} : Todo(c) # <<>> /\ Now(c).op = op
    BY <1>3 DEF sti, iret, Doing
  <2>2. cpu' = [cpu EXCEPT ![c].IF = TRUE]
    BY <1>3 DEF sti, iret
  <2>3. (\A d \in Apics \ {c} : cpu'[d] = cpu[d]) /\ cpu'[c].run = cpu[c].run /\ cpu'[c].IF = TRUE
    BY <1>1, <2>2
  <2>4. op \in Opens /\ \A p \in Procs : proc'[p].intena \in {proc[p].intena, FALSE}
    BY <1>2 DEF Opens
  <2> QED BY <1>2, <2>1, <2>3, <2>4, Onward
<1>4. CASE sched_intena(c)
  <2>1. PICK op : op = "intena" /\ Doing(c, op) /\ Todo(c) # <<>> /\ Now(c).op = op
    BY <1>4 DEF sched_intena, Doing
  <2>2. cpu' = [cpu EXCEPT ![c].intena = proc[Me(c)].intena]
    BY <1>4 DEF sched_intena
  <2>3. (\A d \in Apics \ {c} : cpu'[d] = cpu[d]) /\ cpu'[c].run = cpu[c].run /\ cpu'[c].IF = cpu[c].IF
        /\ cpu'[c].intena = proc[Me(c)].intena
    BY <1>1, <2>2
  <2>4. Me(c) = cpu[c].run
    <3>1. op # "back"
      BY <2>1
    <3> QED BY <2>1, <3>1, Doings DEF Safe, Me
  <2>5. InTrap(Todo(c)) => ~ cpu'[c].IF /\ cpu'[c].intena = FALSE
    BY <1>1, <2>1, <2>3, <2>4 DEF Closed
  <2>6. op # "iret" /\ \A p \in Procs : proc'[p].intena \in {proc[p].intena, FALSE}
    BY <1>2, <2>1
  <2> QED BY <1>2, <2>1, <2>3, <2>5, <2>6, Onward
<1> QED BY <1>3, <1>4

----------------------------------------------------------------------------
(* The steps that start another thread.                                    *)

\* Processor c does op, and the thread u gets the code U: that of a new process, or of
\* another processor.
Spawns(c, op, code, u, U) ==
  /\ Doing(c, op) /\ op \in {"kstack", "lapicstartap"} /\ Quiet(code) /\ cpu' = cpu
  /\ \A p \in Procs : proc'[p].intena \in {proc[p].intena, FALSE}
  /\ \A r \in Threads : Code(r)' = IF r = Running(c) THEN code \o Tail(Todo(c)) ELSE IF r = u THEN U ELSE Code(r)
  /\ \/ \E q \in Procs : u = <<"proc", q>> /\ Idle(q) /\ U = forkret /\ proc'[q].state = "EMBRYO"
     \/ \E d \in Apics \ {c} : u = <<"cpu", d>> /\ cpu[d].run = 0 /\ U = mpenter /\ todo[d] = <<>>

LEMMA Spawned ==
  ASSUME Safe, NEW c \in Apics, NEW op, NEW code, NEW u, NEW U, Spawns(c, op, code, u, U)
  PROVE  ListInv' /\ TrapInv'
<1>1. Todo(c) # <<>> /\ Now(c).op = op
  BY DEF Doing, Spawns
<1>2. Closed(c)
  BY DEF Safe, TrapInv
<1>3. InTrap(Todo(c)) => ~ cpu[c].IF /\ (cpu[c].ncli > 0 => cpu[c].intena = FALSE)
  BY <1>1, <1>2 DEF Closed, Spawns
<1>4. op \notin {"acquire", "release", "tick", "wakeup1", "iret", "sched"}
  BY DEF Spawns
<1>5. Brings(c, op, code)
  BY <1>4, QuietBrings DEF Spawns
<1>6. Forward(c, op, code, u, U)
  BY <1>1, <1>3, <1>4, <1>5 DEF Forward, Spawns
<1> QED BY <1>6, ForwardLists, ForwardTraps

LEMMA StartSpawns ==
  ASSUME Safe, NEW c \in Apics, (allocproc_kstack(c) /\ Page(c) # 0) \/ lapicstartap(c)
  PROVE  \E op, code, u, U : Spawns(c, op, code, u, U)
<1>1. DOMAIN todo = Apics /\ DOMAIN kern = Procs /\ cpu[c].run \in Procs \cup {0} /\ DOMAIN proc = Procs
      /\ \A p \in Procs : "intena" \in DOMAIN proc[p]
  BY DEF Safe, Core, DataTypes, CpuType
<1>2. PICK t \in Threads : t = Running(c) /\ Code(t) = Todo(c)
  BY Runs DEF Safe, Core
<1>3. CASE allocproc_kstack(c) /\ Page(c) # 0
  <2>1. PICK op : op = "kstack" /\ Doing(c, op)
    BY <1>3 DEF allocproc_kstack
  <2>2. PICK q : q = Now(c).n
    OBVIOUS
  <2>3. q \in Procs /\ (\A d \in Apics : cpu[d].run # q) /\ proc[q].state = "EMBRYO"
    <3>1. PICK o \in {"kstack", "start", "unused"} : o = op
      BY <2>1
    <3>2. o = "kstack"
      BY <2>1, <3>1
    <3> QED BY <2>1, <2>2, <3>1, <3>2, Maker DEF Safe
  <2>4. PICK code : code = Under("ptable", <<On("start", q)>>)
    OBVIOUS
  <2>5. PICK X : X = {"acquire", "release", "start"}
    OBVIOUS
  <2>6. code \in Seq(Instructions(X))
    <3>1. acquire("ptable") \in Instructions(X) /\ release("ptable") \in Instructions(X) /\ On("start", q) \in Instructions(X)
      <4>1. {"acquire", "release"} \subseteq X /\ q \in Int
        BY <2>3, <2>5 DEF Procs
      <4> QED BY <2>5, <4>1, TypeOfLock, TypeOfDo DEF Locks
    <3>2. PICK V : V = Instructions(X)
      OBVIOUS
    <3>3. <<acquire("ptable")>> \in Seq(V) /\ <<On("start", q)>> \in Seq(V) /\ <<release("ptable")>> \in Seq(V)
      BY <3>1, <3>2
    <3>4. <<acquire("ptable")>> \o <<On("start", q)>> \o <<release("ptable")>> \in Seq(V)
      BY <3>3, ConcatProperties
    <3> QED BY <2>4, <3>2, <3>4 DEF Under
  <2>7. Quiet(code)
    <3>1. X \cap (RoughOps \cup Opens \cup {"forkret"}) = {}
      BY <2>5 DEF RoughOps, Opens
    <3> QED BY <2>6, <3>1 DEF Quiet
  <2>8. PICK S : S = code \o Tail(Todo(c))
    OBVIOUS
  <2>9. proc' = [proc EXCEPT ![q].kstack = Page(c), ![q].parent = Me(c)] /\ cpu' = cpu
    BY <1>3, <2>2 DEF allocproc_kstack
  <2>10. \A p \in Procs : proc'[p].intena = proc[p].intena
    <3>1. \A p \in Procs \ {q} : proc'[p] = proc[p]
      BY <1>1, <2>9
    <3>2. proc'[q].intena = proc[q].intena
      BY <1>1, <2>3, <2>9
    <3> QED BY <3>1, <3>2
  <2>11. /\ cpu[c].run = 0 => todo' = [todo EXCEPT ![c] = S] /\ kern' = [kern EXCEPT ![q] = forkret]
         /\ cpu[c].run # 0 => kern' = [kern EXCEPT ![cpu[c].run] = S, ![q] = forkret] /\ todo' = todo
    BY <1>3, <2>2, <2>4, <2>8 DEF allocproc_kstack
  <2>12. PICK u \in Threads : u = <<"proc", q>> /\ u # t
    <3>1. t # <<"proc", q>>
      <4>1. t = <<"cpu", c>> \/ t = <<"proc", cpu[c].run>>
        BY <1>2 DEF Running
      <4> QED BY <2>3, <4>1
    <3> QED BY <2>3, <3>1, Names
  <2>13. \A v \in Threads : Code(v)' = IF v = t THEN S ELSE IF v = u THEN forkret ELSE Code(v)
    <3>1. ASSUME NEW d \in Apics, NEW v \in Threads, v = <<"cpu", d>>
          PROVE  Code(v)' = IF v = t THEN S ELSE IF v = u THEN forkret ELSE Code(v)
      <4>1. v # u /\ Code(v) = todo[d] /\ Code(v)' = todo'[d]
        BY <2>3, <2>12, <3>1, Names
      <4>2. v = t <=> (cpu[c].run = 0 /\ d = c)
        BY <1>2, <3>1 DEF Running
      <4> QED BY <1>1, <2>11, <4>1, <4>2
    <3>2. ASSUME NEW p \in Procs, NEW v \in Threads, v = <<"proc", p>>
          PROVE  Code(v)' = IF v = t THEN S ELSE IF v = u THEN forkret ELSE Code(v)
      <4>1. (v = u <=> p = q) /\ Code(v) = kern[p] /\ Code(v)' = kern'[p]
        BY <2>12, <3>2, Names
      <4>2. v = t <=> (cpu[c].run # 0 /\ p = cpu[c].run)
        BY <1>2, <3>2 DEF Running
      <4> QED BY <1>1, <2>3, <2>11, <4>1, <4>2
    <3> QED BY <3>1, <3>2, Kinds
  <2>14. Idle(q) /\ proc'[q].state = "EMBRYO"
    <3>1. "state" \in DOMAIN proc[q] /\ DOMAIN proc = Procs
      BY <2>3 DEF Safe, Core, DataTypes
    <3>2. proc'[q].state = proc[q].state
      BY <2>3, <2>9, <3>1
    <3> QED BY <2>3, <3>2 DEF Idle
  <2>15. PICK U : U = forkret
    OBVIOUS
  <2>16. \A r \in Threads : Code(r)' = IF r = Running(c) THEN code \o Tail(Todo(c)) ELSE IF r = u THEN U ELSE Code(r)
    BY <1>2, <2>8, <2>13, <2>15
  <2>17. \E p \in Procs : u = <<"proc", p>> /\ Idle(p) /\ U = forkret /\ proc'[p].state = "EMBRYO"
    BY <2>3, <2>12, <2>14, <2>15
  <2>18. \A p \in Procs : proc'[p].intena \in {proc[p].intena, FALSE}
    BY <2>10
  <2>19. cpu' = cpu /\ Doing(c, op) /\ op \in {"kstack", "lapicstartap"} /\ Quiet(code)
    BY <2>1, <2>7, <2>9
  <2>20. Spawns(c, op, code, u, U)
    BY <2>16, <2>17, <2>18, <2>19 DEF Spawns
  <2> QED BY <2>20
<1>4. CASE lapicstartap(c)
  <2>1. PICK op \in BootOps \ ProcOps : op = "lapicstartap" /\ Doing(c, op)
    BY <1>4 DEF lapicstartap, BootOps, ProcOps
  <2>2. /\ c = BSP /\ cpu[c].run = 0 /\ Todo(c) # <<>> /\ Now(c).op = "lapicstartap"
    BY <2>1, Boots DEF Safe
  <2>3. t = <<"cpu", c>> /\ Todo(c) = todo[c] /\ Todo(c) \in Seq(Instructions(OpsOf(t)))
    BY <1>2, <2>2, Runs DEF Safe, Core
  <2>4. 1 \in 1 .. Len(Todo(c)) /\ Todo(c)[1] = Now(c)
    BY <2>2, <2>3, HeadTailProperties, EmptySeq, LenProperties DEF Now
  <2>5. PICK n : n = Now(c).n /\ n \in 1 .. Len(boot.cpus) /\ boot.cpus[n] # BSP /\ Asleep(boot.cpus[n])
    <3>1. Fact(t, Now(c))
      BY <1>2, <2>4 DEF Safe, Core, FactInv
    <3> QED BY <2>2, <3>1 DEF Fact
  <2>6. PICK d \in Apics \ {c} : d = boot.cpus[n] /\ cpu[d].run = 0
    <3>1. boot.cpus \in Seq(Apics)
      BY DEF Safe, Core, DataTypes
    <3>2. boot.cpus[n] \in Apics
      BY <2>5, <3>1, ElementOfSeq
    <3>3. cpu[boot.cpus[n]].run = 0
      BY <2>5 DEF Asleep, Off
    <3> QED BY <2>2, <2>5, <3>2, <3>3
  <2>7. todo' = [todo EXCEPT ![c] = Tail(@), ![d] = mpenter] /\ cpu' = cpu /\ proc' = proc /\ kern' = kern
    BY <1>4, <2>5, <2>6 DEF lapicstartap
  <2>8. PICK code, S : code = <<>> /\ S = code \o Tail(Todo(c))
    OBVIOUS
  <2>9. S = Tail(Todo(c))
    <3>1. Tail(Todo(c)) \in Seq(Instructions(OpsOf(t)))
      BY <2>2, <2>3
    <3> QED BY <2>8, <3>1
  <2>10. todo'[c] = S /\ todo'[d] = mpenter /\ \A e \in Apics \ {c, d} : todo'[e] = todo[e]
    BY <1>1, <2>3, <2>6, <2>7, <2>9
  <2>11. PICK u \in Threads : u = <<"cpu", d>> /\ u # t
    <3>1. <<"cpu", d>> # <<"cpu", c>>
      BY <2>6
    <3>2. <<"cpu", d>> \in Threads
      BY Names
    <3> QED BY <2>3, <3>1, <3>2
  <2>12. \A v \in Threads : Code(v)' = IF v = t THEN S ELSE IF v = u THEN mpenter ELSE Code(v)
    <3>1. ASSUME NEW e \in Apics, NEW v \in Threads, v = <<"cpu", e>>
          PROVE  Code(v)' = IF v = t THEN S ELSE IF v = u THEN mpenter ELSE Code(v)
      <4>1. Code(v) = todo[e] /\ Code(v)' = todo'[e] /\ (v = t <=> e = c) /\ (v = u <=> e = d)
        BY <2>3, <2>11, <3>1, Names
      <4> QED BY <2>10, <4>1
    <3>2. ASSUME NEW p \in Procs, NEW v \in Threads, v = <<"proc", p>>
          PROVE  Code(v)' = IF v = t THEN S ELSE IF v = u THEN mpenter ELSE Code(v)
      <4>1. Code(v) = kern[p] /\ Code(v)' = kern'[p] /\ v # t /\ v # u
        BY <2>3, <2>11, <3>2, Names
      <4> QED BY <2>7, <4>1
    <3> QED BY <3>1, <3>2, Kinds
  <2>13. op \in {"kstack", "lapicstartap"} /\ Quiet(code)
    BY <2>1, <2>8, QuietCode
  <2>14. PICK U : U = mpenter
    OBVIOUS
  <2>15. \A p \in Procs : proc'[p].intena \in {proc[p].intena, FALSE}
    BY <2>7
  <2>16. \A r \in Threads : Code(r)' = IF r = Running(c) THEN code \o Tail(Todo(c)) ELSE IF r = u THEN U ELSE Code(r)
    BY <1>2, <2>8, <2>12, <2>14
  <2>17. \E e \in Apics \ {c} : u = <<"cpu", e>> /\ cpu[e].run = 0 /\ U = mpenter /\ todo[e] = <<>>
    <3>1. todo[d] = <<>>
      BY <2>5, <2>6 DEF Asleep
    <3> QED BY <2>6, <2>11, <2>14, <3>1
  <2>18. Spawns(c, op, code, u, U)
    BY <2>1, <2>7, <2>13, <2>15, <2>16, <2>17 DEF Spawns
  <2> QED BY <2>18
<1> QED BY <1>3, <1>4

LEMMA StartSteps ==
  ASSUME Safe, NEW c \in Apics, (allocproc_kstack(c) /\ Page(c) # 0) \/ lapicstartap(c)
  PROVE  ListInv' /\ TrapInv'
  BY StartSpawns, Spawned

----------------------------------------------------------------------------
(* The switch to a process, and back.                                      *)

LEMMA SwitchStep ==
  ASSUME Safe, NEW c \in Apics, scan(c), cpu' # cpu
  PROVE  ListInv' /\ TrapInv'
<1>1. PICK op : op = "scan" /\ Doing(c, op)
  BY DEF scan
<1>2. /\ cpu[c].at = "run" /\ cpu[c].run = 0 /\ Running(c) = <<"cpu", c>>
      /\ Todo(c) = todo[c] /\ Todo(c) # <<>> /\ Now(c).op = "scan" /\ Mine(c) = {"ptable"}
  BY <1>1, Scanning DEF Safe
<1>3. PICK R, q : R = {p \in Procs : p >= Now(c).n /\ proc[p].state = "RUNNABLE"} /\ q = Min(R)
  OBVIOUS
<1>4. R # {}
  BY <1>3 DEF scan
<1>5. q \in Procs /\ proc[q].state = "RUNNABLE" /\ q # 0
  <2>1. R \in SUBSET Nat
    BY <1>3 DEF Procs
  <2>2. q \in R
    BY <1>3, <1>4, <2>1, Least
  <2> QED BY <1>3, <2>2 DEF Procs
<1>6. /\ proc' = [proc EXCEPT ![q].state = "RUNNING"]
      /\ cpu' = [cpu EXCEPT ![c] = [switchuvm(@, q) EXCEPT !.proc = q, !.run = q]]
      /\ Then(c, <<On("back", q)>>)
  BY <1>3, <1>4 DEF scan
<1>7. ASSUME NEW d \in Apics PROVE cpu[d].run # q
  <2> SUFFICES ASSUME cpu[d].run = q PROVE FALSE
    OBVIOUS
  <2>1. "off" \in Held(d)
    BY <1>5 DEF Held
  <2>2. lock["ptable"] = d
    BY <2>1, Offs DEF Safe
  <2>3. lock["ptable"] = c
    BY <1>2 DEF Mine
  <2> QED BY <1>2, <1>5, <2>2, <2>3
<1>8. DOMAIN todo = Apics /\ DOMAIN proc = Procs /\ DOMAIN cpu = Apics /\ CpuType(cpu[c]) /\ "intena" \in DOMAIN proc[q]
  BY <1>5 DEF Safe, Core, DataTypes
<1>9. PICK code, S : code = <<On("back", q)>> /\ S = code \o Tail(Todo(c))
  OBVIOUS
<1>10. todo' = [todo EXCEPT ![c] = S] /\ kern' = kern
  BY <1>2, <1>6, <1>9 DEF Then, Goto
<1>11. \A v \in Threads : Code(v)' = IF v = <<"cpu", c>> THEN S ELSE Code(v)
  <2>1. Goto(c, S)
    BY <1>6, <1>9 DEF Then
  <2> QED BY <1>2, <2>1, GoesTo DEF Safe, Core
<1>12. (\A d \in Apics \ {c} : cpu'[d] = cpu[d]) /\ cpu'[c].run = q /\ cpu'[c].IF = cpu[c].IF
  BY <1>6, <1>8 DEF CpuType, switchuvm
<1>13. \A p \in Procs : proc'[p].intena = proc[p].intena
  BY <1>5, <1>6, <1>8
<1>14. Going(c, op, code, Todo(c), S)
  <2>1. PICK i : i = On("back", q) /\ code = <<i>> /\ i.op = "back"
    BY <1>9, FieldsOn
  <2>2. Len(code) = 1 /\ code[1] = i /\ Smooth(code)
    BY <2>1, SmoothOne
  <2>3. PICK X : X = {"back"}
    OBVIOUS
  <2>4. code \in Seq(Instructions(X))
    <3>1. i \in Instructions(X)
      <4>1. q \in Int
        BY <1>5 DEF Procs
      <4> QED BY <2>1, <2>3, <4>1, TypeOfDo
    <3> QED BY <2>1, <3>1
  <2>5. \A a \in 1 .. Len(code) : code[a].op = "back"
    BY <2>1, <2>2
  <2>6. Brings(c, op, code)
    BY <1>1, <2>2, <2>3, <2>4, <2>5 DEF Brings, Opens
  <2>7. Todo(c) \in Seq(Instructions(OpsOf(Running(c)))) /\ Smooth(Todo(c))
    BY Runs DEF Safe, Core, ListInv, SmoothInv
  <2> QED BY <1>1, <1>2, <1>9, <2>6, <2>7 DEF Going, Now
<1>15. ListInv'
  <2>1. ASSUME NEW v \in Threads PROVE Smooth(Code(v)') /\ Rings(Code(v)')
    <3>1. Smooth(Code(v)) /\ Rings(Code(v))
      BY DEF Safe, ListInv, SmoothInv
    <3>2. CASE v = <<"cpu", c>>
      <4>1. Rings(Todo(c))
        BY <1>2, <3>1, <3>2, Names
      <4>2. Smooth(S) /\ Rings(S)
        BY <1>14, <4>1, GoSmooth, GoRings
      <4> QED BY <1>11, <3>2, <4>2
    <3> QED BY <1>11, <3>1, <3>2
  <2>2. ASSUME NEW p \in Procs PROVE Blocks(p)'
    <3>1. Blocks(p)
      BY DEF Safe, ListInv
    <3>2. ~ Idle(p) => ~ Idle(p)'
      <4>1. p # 0
        BY DEF Procs
      <4> QED BY <1>2, <1>12, <4>1 DEF Idle
    <3> QED BY <1>10, <3>1, <3>2 DEF Blocks
  <2> QED BY <2>1, <2>2 DEF ListInv, SmoothInv
<1>16. Idle(q) /\ Returns(q)
  BY <1>5, <1>7 DEF Idle, Safe, TrapInv
<1>17. Closed(c)'
  <2>1. Todo(c)' = kern[q]
    BY <1>5, <1>10, <1>12 DEF Todo
  <2>2. kern[q] # <<>>
    <3>1. Path(kern[q], {"ptable"}, {})
      BY <1>5, <1>16 DEF Safe, Core, Sounds
    <3> QED BY <3>1, PathNil
  <2>3. ~ cpu[c].IF
    <3>1. Cardinality({"ptable"}) = 1
      BY FS_Singleton
    <3>2. Sane(c)
      BY DEF Safe, Core, SaneInv
    <3>3. cpu[c].ncli = 1
      BY <1>2, <3>1, <3>2 DEF Sane
    <3> QED BY <3>2, <3>3 DEF Sane
  <2>4. InTrap(kern[q]) => Now(c)'.op = "intena" /\ proc'[q].intena = FALSE
    BY <1>5, <1>13, <1>16, <2>1 DEF Returns, Now
  <2> QED BY <1>12, <2>1, <2>2, <2>3, <2>4 DEF Closed
<1>18. ASSUME NEW d \in Apics \ {c} PROVE Closed(d)'
  <2>1. Todo(d)' = Todo(d) /\ cpu'[d] = cpu[d]
    BY <1>8, <1>10, <1>12 DEF Todo
  <2> QED BY <1>13, <2>1, Rests
<1>19. ASSUME NEW p \in Procs PROVE Returns(p)'
  <2>1. Returns(p)
    BY DEF Safe, TrapInv
  <2>2. Idle(p)' => Idle(p)
    <3>1. p # 0
      BY DEF Procs
    <3> QED BY <1>2, <1>12, <3>1 DEF Idle
  <2> QED BY <1>10, <1>13, <2>1, <2>2 DEF Returns
<1> QED BY <1>15, <1>17, <1>18, <1>19 DEF TrapInv

\* What sched leaves to the thread in its own place.
LEMMA Resumes ==
  ASSUME NEW X, NEW s \in Seq(Instructions(X)), s # <<>>, Head(s).op = "sched", Smooth(s), NEW S, S = Kept \o Tail(s)
  PROVE  /\ Smooth(S) /\ Rings(S) /\ S # <<>> /\ Head(S).op = "intena" /\ (InTrap(S) => InTrap(s))
         /\ \A a \in 1 .. Len(S) : S[a].op # "block"
         /\ s[Len(s)].op = "iret" => S[Len(S)].op = "iret"
<1>1. PICK i : i = Do("intena") /\ i.op = "intena"
  BY FieldsOn DEF Do
<1>2. PICK T : s \in Seq(T) /\ <<i>> \in Seq(T)
  <2>1. PICK T : T = Instructions(X) \cup {i}
    OBVIOUS
  <2> QED BY <2>1
<1>3. PICK code \in Seq(T) : code = <<i>> /\ Len(code) = 1 /\ code[1] = i
  <2>1. Len(<<i>>) = 1 /\ <<i>>[1] = i
    OBVIOUS
  <2> QED BY <1>2, <2>1
<1>4. S = code \o Tail(s)
  BY <1>1, <1>3 DEF Kept
<1>5. S \in Seq(T) /\ \E m, n \in Nat : Splice(code, s, S, m, n)
  BY <1>2, <1>4, Spliced
<1>6. PICK m \in Nat, n \in Nat : Splice(code, s, S, m, n)
  BY <1>5
<1>7. /\ m = 1 /\ n + 1 = Len(s) /\ Len(S) = 1 + n /\ s[1].op = "sched"
      /\ S[1] = i
      /\ \A b \in 1 .. n : S[1 + b] = s[b + 1]
  BY <1>3, <1>6 DEF Splice
<1>8. PICK r \in Seq(T) : r = Tail(s) /\ Smooth(r) /\ \A b \in 1 .. Len(r) : ~ Rough(Head(s), r[b])
  <2>1. Tail(s) \in Seq(T) /\ Smooth(Tail(s)) /\ \A b \in 1 .. Len(Tail(s)) : ~ Rough(Head(s), Tail(s)[b])
    BY <1>2, SmoothTail
  <2> QED BY <2>1
<1>9. Smooth(S)
  <2>1. PICK h : h = Head(s) /\ h.op = "sched"
    OBVIOUS
  <2>2. \A a \in 1 .. Len(code) : code[a].op = "intena"
    BY <1>1, <1>3
  <2>3. Smooth(code)
    BY <1>3, SmoothOne
  <2>4. ASSUME NEW a \in 1 .. Len(code), NEW b \in 1 .. Len(r) PROVE ~ Rough(code[a], r[b])
    <3>1. ~ Rough(h, r[b]) /\ code[a].op = "intena"
      BY <1>8, <2>1, <2>2
    <3> QED BY <2>1, <3>1 DEF Rough, Opens
  <2> QED BY <1>4, <1>8, <2>3, <2>4, SmoothConcat
<1>10. ASSUME NEW a \in 1 .. 1 + n PROVE S[a] = i \/ (S[a].op \notin WakeOps \cup {"block"} /\ \E b \in 1 .. n + 1 : S[a] = s[b])
  <2>1. CASE a = 1
    BY <1>7, <2>1
  <2>2. CASE a # 1
    <3>1. PICK b \in 1 .. n : 1 + b = a
      <4>1. a - 1 \in 1 .. n /\ 1 + (a - 1) = a
        BY <2>2
      <4> QED BY <4>1
    <3>2. S[a] = s[b + 1] /\ b + 1 \in 1 .. n + 1 /\ 1 \in 1 .. n + 1 /\ 1 < b + 1
      BY <1>7, <3>1
    <3>3. ~ Rough(s[1], s[b + 1])
      BY <1>7, <3>2 DEF Smooth
    <3>4. S[a].op \notin WakeOps \cup {"block"}
      BY <1>7, <3>2, <3>3 DEF Rough, WakeOps
    <3> QED BY <3>2, <3>4
  <2> QED BY <2>1, <2>2
<1>11. \A a \in 1 .. Len(S) : S[a].op \notin WakeOps \cup {"block"}
  BY <1>1, <1>7, <1>10 DEF WakeOps
<1>12. Rings(S)
  BY <1>11 DEF Rings, Has, WakeOps
<1>13. InTrap(S) => InTrap(s)
  <2> SUFFICES ASSUME NEW a \in 1 .. 1 + n, S[a] = Irq PROVE InTrap(s)
    BY <1>7 DEF InTrap
  <2>1. S[a] # i
    <3>1. Irq.op = "iret"
      BY FieldsOn DEF Irq
    <3> QED BY <1>1, <3>1
  <2>2. PICK b \in 1 .. n + 1 : s[b] = Irq
    BY <1>10, <2>1
  <2> QED BY <1>7, <2>2 DEF InTrap
<1>14. S # <<>> /\ Head(S) = i
  <2>1. S # <<>>
    BY <1>7
  <2> QED BY <1>5, <1>7, <2>1, HeadTailProperties
<1>15. ASSUME s[Len(s)].op = "iret" PROVE S[Len(S)].op = "iret"
  <2>1. n # 0
    <3> SUFFICES ASSUME n = 0 PROVE FALSE
      OBVIOUS
    <3>1. Len(s) = 1
      BY <1>7
    <3> QED BY <1>7, <1>15, <3>1
  <2>2. n \in 1 .. n
    BY <2>1
  <2>3. S[1 + n] = s[n + 1]
    BY <1>7, <2>2
  <2> QED BY <1>7, <1>15, <2>3
<1> QED BY <1>1, <1>9, <1>11, <1>12, <1>13, <1>14, <1>15

LEMMA SchedStep ==
  ASSUME Safe, NEW c \in Apics, sched(c)
  PROVE  ListInv' /\ TrapInv'
<1>1. PICK op : op = "sched" /\ Doing(c, op)
  BY DEF sched
<1>2. Todo(c) # <<>> /\ Now(c).op = op /\ cpu[c].at = "run"
  BY <1>1 DEF Doing
<1>3. PICK p \in Procs : p = cpu[c].run /\ p = Me(c) /\ p # 0
  <2>1. op \notin CpuOps \cup BootOps /\ op # "back"
    BY <1>1 DEF CpuOps, BootOps
  <2> QED BY <1>1, <2>1, OfTheProcess DEF Safe
<1>4. PICK s : s = kern[p] /\ s = Todo(c) /\ Running(c) = <<"proc", p>> /\ s \in Seq(Instructions(OpsOf(<<"proc", p>>)))
  BY <1>3, Runs DEF Safe, Core
<1>5. Smooth(s) /\ Closed(c) /\ Sane(c) /\ Returns(p)
  <2>1. Code(<<"proc", p>>) = s
    BY <1>4, Names
  <2> QED BY <2>1, Names DEF Safe, ListInv, SmoothInv, TrapInv, Core, SaneInv
<1>6. DOMAIN kern = Procs /\ DOMAIN proc = Procs /\ DOMAIN cpu = Apics /\ "run" \in DOMAIN cpu[c] /\ "intena" \in DOMAIN proc[p]
      /\ DOMAIN todo = Apics
  BY DEF Safe, Core, DataTypes, CpuType
<1>7. PICK S : S = Kept \o Tail(s)
  OBVIOUS
<1>8. /\ proc' = [proc EXCEPT ![p].intena = cpu[c].intena] /\ cpu' = [cpu EXCEPT ![c].run = 0] /\ Then(c, Kept)
  BY <1>3 DEF sched
<1>9. kern' = [kern EXCEPT ![p] = S] /\ todo' = todo
  BY <1>3, <1>4, <1>7, <1>8 DEF Then, Goto
<1>10. kern'[p] = S /\ \A q \in Procs \ {p} : kern'[q] = kern[q]
  BY <1>6, <1>9
<1>11. (\A d \in Apics \ {c} : cpu'[d] = cpu[d]) /\ cpu'[c].run = 0
  BY <1>6, <1>8
<1>12. proc'[p].intena = cpu[c].intena /\ \A q \in Procs \ {p} : proc'[q] = proc[q]
  BY <1>6, <1>8
<1>13. /\ Smooth(S) /\ Rings(S) /\ S # <<>> /\ Head(S).op = "intena" /\ (InTrap(S) => InTrap(s))
       /\ \A a \in 1 .. Len(S) : S[a].op # "block"
       /\ s[Len(s)].op = "iret" => S[Len(S)].op = "iret"
  <2>1. s # <<>> /\ Head(s).op = "sched"
    BY <1>1, <1>2, <1>4 DEF Now
  <2> QED BY <1>4, <1>5, <1>7, <2>1, Resumes
<1>14. \A v \in Threads : Code(v)' = IF v = <<"proc", p>> THEN S ELSE Code(v)
  <2>1. Goto(c, S)
    BY <1>4, <1>7, <1>8 DEF Then
  <2> QED BY <1>4, <2>1, GoesTo DEF Safe, Core
<1>15. \A q \in Procs \ {p} : Idle(q)' <=> Idle(q)
  <2>1. \A q \in Procs : q # 0
    BY DEF Procs
  <2> QED BY <1>3, <1>11, <2>1 DEF Idle
<1>16. ListInv'
  <2>1. \A v \in Threads : Smooth(Code(v)') /\ Rings(Code(v)')
    BY <1>13, <1>14 DEF Safe, ListInv, SmoothInv
  <2>2. ASSUME NEW q \in Procs PROVE Blocks(q)'
    <3>1. CASE q = p
      BY <1>10, <1>13, <3>1 DEF Blocks
    <3>2. CASE q # p
      <4>1. Blocks(q) /\ kern'[q] = kern[q] /\ (Idle(q)' <=> Idle(q))
        BY <1>10, <1>15, <3>2 DEF Safe, ListInv
      <4> QED BY <4>1 DEF Blocks
    <3> QED BY <3>1, <3>2
  <2> QED BY <2>1, <2>2 DEF ListInv, SmoothInv
<1>17. Closed(c)'
  <2>1. Todo(c)' = todo[c]
    BY <1>9, <1>11 DEF Todo
  <2>2. todo[c] # <<>> /\ Head(todo[c]).op = "back"
    BY <1>3 DEF Safe, Core, RunInv
  <2>3. PICK r : r = todo[c] /\ Smooth(r) /\ r \in Seq(Instructions(OpsOf(<<"cpu", c>>)))
    <3>1. <<"cpu", c>> \in Threads /\ Code(<<"cpu", c>>) = todo[c]
      BY Names
    <3> QED BY <3>1 DEF Safe, ListInv, SmoothInv, Core, CodeTypes
  <2>4. Head(r) = r[1] /\ Len(r) \in Nat \ {0}
    BY <2>2, <2>3, HeadTailProperties, EmptySeq
  <2>5. ~ InTrap(r)
    <3> SUFFICES ASSUME NEW b \in 1 .. Len(r), r[b] = Irq PROVE FALSE
      BY DEF InTrap
    <3>1. b # 1
      BY <2>2, <2>3, <2>4, FieldsOn DEF Irq
    <3>2. 1 \in 1 .. Len(r) /\ 1 < b
      BY <2>4, <3>1
    <3>3. ~ Rough(r[1], r[b])
      BY <2>3, <3>2 DEF Smooth
    <3> QED BY <2>2, <2>3, <2>4, <3>3 DEF Rough, Opens
  <2> QED BY <1>11, <2>1, <2>3, <2>5 DEF Closed
<1>18. ASSUME NEW d \in Apics \ {c} PROVE Closed(d)'
  <2>1. cpu'[d] = cpu[d] /\ cpu[d].run # p
    <3>1. RunInv
      BY DEF Safe, Core
    <3>2. \A e \in Apics : cpu[e].run = cpu[c].run => e = c
      BY <1>3, <3>1 DEF RunInv
    <3> QED BY <1>3, <1>11, <3>2
  <2>2. cpu[d].run \in Procs \cup {0}
    BY DEF Safe, Core, DataTypes, CpuType
  <2>3. Todo(d)' = Todo(d)
    BY <1>9, <1>10, <2>1, <2>2 DEF Todo
  <2> QED BY <1>12, <2>1, <2>3, Rests
<1>19. Returns(p)'
  <2>1. InTrap(S) => proc'[p].intena = FALSE
    <3>1. cpu[c].ncli > 0
      <4>1. lock["ptable"] = c
        <5>1. "off" \in Held(c)
          <6>1. PICK k \in SUBSET Tokens : Leads(Held(c), Now(c), k)
            BY <1>2, Next1 DEF Safe, Core
          <6> QED BY <1>1, <1>2, <6>1 DEF Leads
        <5> QED BY <5>1, Offs DEF Safe
      <4>2. "ptable" \in Mine(c)
        BY <4>1 DEF Mine, Locks
      <4>3. IsFiniteSet(Mine(c)) /\ Cardinality(Mine(c)) \in Nat
        BY LocksFinite, FS_Subset, FS_CardinalityType DEF Mine
      <4>4. Cardinality(Mine(c)) # 0
        BY <4>2, <4>3, FS_EmptySet
      <4>5. cpu[c].ncli = Cardinality(Mine(c)) + 0
        BY <1>2, <1>5 DEF Sane
      <4> QED BY <4>3, <4>4, <4>5
    <3>2. InTrap(s) => cpu[c].intena = FALSE
      BY <1>1, <1>2, <1>4, <1>5, <3>1 DEF Closed
    <3> QED BY <1>12, <1>13, <3>2
  <2>2. s # <<>> => s[Len(s)].op = "iret"
    BY <1>4, <1>5 DEF Returns
  <2> QED BY <1>2, <1>4, <1>10, <1>13, <2>1, <2>2 DEF Returns
<1>20. ASSUME NEW q \in Procs \ {p} PROVE Returns(q)'
  <2>1. Returns(q) /\ kern'[q] = kern[q] /\ (Idle(q)' <=> Idle(q)) /\ proc'[q] = proc[q]
    BY <1>10, <1>12, <1>15 DEF Safe, TrapInv
  <2> QED BY <2>1 DEF Returns
<1> QED BY <1>16, <1>17, <1>18, <1>19, <1>20 DEF TrapInv

----------------------------------------------------------------------------
(* Interrupts and system calls.                                            *)

\* Who has no lock is not about to go to sleep.
LEMMA NoBlock ==
  ASSUME NEW p, NEW s, Path(s, {}, {}), Len(s) \in Nat, NEW b \in 1 .. Len(s), s[b].op = "block", Block(p, s, b)
  PROVE  FALSE
<1>1. PICK f \in [1 .. Len(s) + 1 -> SUBSET Tokens] :
        f[1] = {} /\ \A i \in 1 .. Len(s) : Leads(f[i], s[i], f[i + 1])
  BY DEF Path
<1>2. b \in 1 .. 3 /\ (b > 1 => Given(p, s[b].n, s[b - 1])) /\ (b = 3 => s[1] = acquire("ptable"))
  BY DEF Block
<1>3. CASE b = 1
  <2>1. Leads({}, s[1], f[1 + 1]) /\ s[1].op = "block"
    BY <1>1, <1>3
  <2> QED BY <2>1 DEF Leads
<1>4. CASE b = 2
  <2>1. 1 \in 1 .. Len(s) /\ b - 1 = 1 /\ b > 1
    BY <1>4
  <2>2. s[1] = release("tickslock") \/ s[1] = release("idelock")
    BY <1>2, <2>1 DEF Given
  <2>3. Leads({}, s[1], f[1 + 1])
    BY <1>1, <2>1
  <2>4. s[1].op = "release"
    BY <2>2, FieldsLock
  <2> QED BY <2>3, <2>4 DEF Leads
<1>5. CASE b = 3
  <2>1. 1 \in 1 .. Len(s) /\ 2 \in 1 .. Len(s) /\ b - 1 = 2 /\ b > 1 /\ 1 + 1 = 2
    BY <1>5
  <2>2. s[2] = release("tickslock") \/ s[2] = release("idelock")
    BY <1>2, <2>1 DEF Given
  <2>3. Leads({}, s[1], f[2]) /\ Leads(f[2], s[2], f[2 + 1])
    BY <1>1, <2>1
  <2>4. s[1].op = "acquire" /\ s[1].on = "ptable"
    BY <1>2, <1>5, FieldsLock
  <2>5. f[2] = {"ptable"}
    BY <2>3, <2>4 DEF Leads
  <2>6. s[2].op = "release" /\ s[2].on \in {"tickslock", "idelock"}
    BY <2>2, FieldsLock
  <2> QED BY <2>3, <2>5, <2>6 DEF Leads
<1> QED BY <1>2, <1>3, <1>4, <1>5

LEMMA NoFront ==
  ASSUME Safe, NEW c \in Apics, cpu[c].at = "run", cpu[c].IF \/ Todo(c) = <<>>
  PROVE  ~ InTrap(Todo(c)) /\ \A b \in 1 .. Len(Todo(c)) : Todo(c)[b].op \notin WakeOps \cup {"block", "intena"}
<1>1. Held(c) = {} /\ Sane(c)
  BY Unlocked DEF Safe, Core, SaneInv
<1>2. PICK s, t : s = Todo(c) /\ t = Running(c) /\ t \in Threads /\ Code(t) = s /\ s \in Seq(Instructions(OpsOf(t)))
  BY Runs DEF Safe, Core
<1>3. Path(s, {}, {}) /\ Len(s) \in Nat
  BY <1>1, <1>2, LenProperties DEF Sane
<1>4. Smooth(s) /\ Rings(s) /\ Closed(c)
  BY <1>2 DEF Safe, ListInv, SmoothInv, TrapInv
<1>5. ~ InTrap(s)
  <2>1. CASE s = <<>>
    <3>1. Len(s) = 0
      BY <2>1
    <3> QED BY <3>1 DEF InTrap
  <2>2. CASE s # <<>>
    BY <1>2, <1>4, <2>2 DEF Closed
  <2> QED BY <2>1, <2>2
<1>6. ASSUME NEW b \in 1 .. Len(s) PROVE s[b].op \notin WakeOps
  BY <1>4, <1>5 DEF Rings, Has
<1>7. ASSUME NEW b \in 1 .. Len(s), s[b].op = "intena" PROVE FALSE
  <2>1. PICK f \in [1 .. Len(s) + 1 -> SUBSET Tokens] :
          f[1] = {} /\ \A i \in 1 .. Len(s) : Leads(f[i], s[i], f[i + 1])
    BY <1>3 DEF Path
  <2>2. CASE b = 1
    <3>1. Leads({}, s[1], f[1 + 1])
      BY <2>1, <2>2
    <3> QED BY <1>7, <2>2, <3>1 DEF Leads
  <2>3. CASE b # 1
    <3>1. 1 \in 1 .. Len(s) /\ 1 < b
      BY <1>3, <2>3
    <3>2. ~ Rough(s[1], s[b])
      BY <1>4, <3>1 DEF Smooth
    <3> QED BY <1>7, <3>2 DEF Rough
  <2> QED BY <2>2, <2>3
<1>8. ASSUME NEW b \in 1 .. Len(s), s[b].op = "block" PROVE FALSE
  <2>1. CASE cpu[c].run = 0
    <3>1. t = <<"cpu", c>>
      BY <1>2, <2>1 DEF Running
    <3>2. s[b].op \in OpsOf(t)
      BY <1>2, OpsAre
    <3> QED BY <1>8, <3>1, <3>2 DEF OpsOf, CpuOps, BootOps
  <2>2. CASE cpu[c].run # 0
    <3>1. PICK p \in Procs : p = cpu[c].run /\ kern[p] = s
      BY <1>2, <2>2, Runs DEF Safe, Core
    <3>2. Block(p, s, b)
      BY <1>8, <3>1 DEF Safe, ListInv, Blocks
    <3> QED BY <1>3, <1>8, <3>2, NoBlock
  <2> QED BY <2>1, <2>2
<1> QED BY <1>2, <1>5, <1>6, <1>7, <1>8

\* The code comes before all that processor c has to do, and ends with iret.
Fronts(c, code) ==
  /\ cpu[c].at = "run" /\ (cpu[c].IF \/ Todo(c) = <<>>) /\ Goto(c, code \o Todo(c)) /\ proc' = proc
  /\ (\A d \in Apics \ {c} : cpu'[d] = cpu[d]) /\ cpu'[c].run = cpu[c].run
  /\ \E X : code \in Seq(Instructions(X)) /\ X \cap {"intena", "block"} = {}
  /\ code # <<>> /\ code[Len(code)].op = "iret" /\ Smooth(code) /\ Rings(code)
  /\ Todo(c) # <<>> => \A a \in 1 .. Len(code) : code[a].op \notin {"await", "forkret"}
  /\ InTrap(code) => ~ cpu'[c].IF /\ ~ (cpu'[c].ncli > 0)

\* The list r becomes S then.
Fronting(c, code, r, S) == Fronts(c, code) /\ r = Todo(c) /\ S = code \o r
Fronting1(code, r, S) ==
  /\ Smooth(S) /\ Rings(S) /\ (\A a \in 1 .. Len(S) : S[a].op # "block") /\ (InTrap(S) => InTrap(code))
  /\ S # <<>> /\ Head(S).op # "intena"
  /\ r # <<>> => S[Len(S)] = r[Len(r)]
  /\ r = <<>> => S[Len(S)].op = "iret"

LEMMA FrontLists ==
  ASSUME Safe, NEW c \in Apics, NEW code, NEW r, NEW S, Fronting(c, code, r, S)
  PROVE  Fronting1(code, r, S)
<1>0. Fronts(c, code) /\ r = Todo(c) /\ S = code \o r
  BY DEF Fronting
<1>1. /\ cpu[c].at = "run" /\ (cpu[c].IF \/ r = <<>>)
      /\ code # <<>> /\ code[Len(code)].op = "iret" /\ Smooth(code) /\ Rings(code)
      /\ r # <<>> => \A a \in 1 .. Len(code) : code[a].op \notin {"await", "forkret"}
  BY <1>0 DEF Fronts
<1>2. PICK X : code \in Seq(Instructions(X)) /\ X \cap {"intena", "block"} = {}
  BY <1>0 DEF Fronts
<1>3. PICK Y : r \in Seq(Instructions(Y)) /\ Smooth(r)
  BY <1>0, Runs DEF Safe, Core, ListInv, SmoothInv
<1>4. PICK T : code \in Seq(Instructions(T)) /\ r \in Seq(Instructions(T))
  BY <1>2, <1>3, Together
<1>5. PICK V : V = Instructions(T) /\ code \in Seq(V) /\ r \in Seq(V)
  BY <1>4
<1>6. PICK m \in Nat, n \in Nat : m = Len(code) /\ n = Len(r)
  BY <1>5, LenProperties
<1>7. /\ S \in Seq(V) /\ Len(S) = m + n
      /\ \A x \in 1 .. m : S[x] = code[x]
      /\ \A x \in 1 .. n : S[m + x] = r[x]
  BY <1>0, <1>5, <1>6, ConcatIs
<1>8. ~ InTrap(r) /\ \A b \in 1 .. n : r[b].op \notin WakeOps \cup {"block", "intena"}
  BY <1>0, <1>1, <1>6, NoFront
<1>9. \A a \in 1 .. m : code[a].op \notin {"intena", "block"}
  BY <1>2, <1>6, OpsAre
<1>10. Smooth(S)
  <2>1. ASSUME NEW a \in 1 .. m, NEW b \in 1 .. n PROVE ~ Rough(code[a], r[b])
    <3>1. r[b] # Irq
      BY <1>6, <1>8 DEF InTrap
    <3>2. r # <<>>
      BY <1>6
    <3>3. code[a].op \notin {"await", "forkret"}
      BY <1>1, <1>6, <3>2
    <3> QED BY <1>8, <3>1, <3>3 DEF Rough, WakeOps
  <2> QED BY <1>0, <1>1, <1>3, <1>5, <1>6, <2>1, SmoothConcat
<1>11. ASSUME NEW a \in 1 .. m + n PROVE (a \in 1 .. m /\ S[a] = code[a]) \/ \E b \in 1 .. n : S[a] = r[b]
  <2>1. CASE a \in 1 .. m
    BY <1>7, <2>1
  <2>2. CASE a \notin 1 .. m
    <3>1. PICK b \in 1 .. n : m + b = a
      BY <2>2, Places
    <3> QED BY <1>7, <3>1
  <2> QED BY <2>1, <2>2
<1>12. \A a \in 1 .. Len(S) : S[a].op # "block"
  <2>1. ASSUME NEW a \in 1 .. m + n PROVE S[a].op # "block"
    <3>1. (a \in 1 .. m /\ S[a] = code[a]) \/ \E b \in 1 .. n : S[a] = r[b]
      BY <1>11
    <3> QED BY <1>8, <1>9, <3>1
  <2> QED BY <1>7, <2>1
<1>13. InTrap(S) => InTrap(code)
  <2> SUFFICES ASSUME NEW a \in 1 .. m + n, S[a] = Irq PROVE InTrap(code)
    BY <1>7 DEF InTrap
  <2>1. \A b \in 1 .. n : r[b] # Irq
    BY <1>6, <1>8 DEF InTrap
  <2>2. a \in 1 .. m /\ code[a] = Irq
    BY <1>11, <2>1
  <2> QED BY <1>6, <2>2 DEF InTrap
<1>14. InTrap(code) => InTrap(S)
  <2> SUFFICES ASSUME NEW a \in 1 .. m, code[a] = Irq PROVE InTrap(S)
    BY <1>6 DEF InTrap
  <2>1. a \in 1 .. m + n /\ S[a] = Irq
    <3>1. a \in 1 .. m + n
      OBVIOUS
    <3> QED BY <1>7, <3>1
  <2> QED BY <1>7, <2>1 DEF InTrap
<1>15. ASSUME NEW op \in WakeOps, Has(S, op) PROVE Has(code, op)
  <2>1. PICK a \in 1 .. m + n : S[a].op = op
    BY <1>7, <1>15 DEF Has
  <2>2. a \in 1 .. m /\ code[a].op = op
    BY <1>8, <1>11, <2>1
  <2> QED BY <1>6, <2>2 DEF Has
<1>16. Rings(S)
  <2>1. ASSUME NEW op \in WakeOps, Has(S, op) PROVE InTrap(S)
    BY <1>1, <1>14, <1>15, <2>1 DEF Rings
  <2>2. ASSUME Has(S, "tick") PROVE \E b \in 1 .. Len(S) : S[b] = On("wakeup1", Ticks)
    <3>1. PICK op \in WakeOps : op = "tick"
      BY DEF WakeOps
    <3>2. PICK b \in 1 .. m : code[b] = On("wakeup1", Ticks)
      BY <1>1, <1>6, <1>15, <2>2, <3>1 DEF Rings
    <3>3. b \in 1 .. m + n
      OBVIOUS
    <3>4. S[b] = On("wakeup1", Ticks)
      BY <1>7, <3>2
    <3> QED BY <1>7, <3>3, <3>4
  <2> QED BY <2>1, <2>2 DEF Rings
<1>17. m # 0
  BY <1>1, <1>5, <1>6, EmptySeq
<1>18. S # <<>> /\ Head(S).op # "intena"
  <2>1. 1 \in 1 .. m
    BY <1>17
  <2>2. S[1] = code[1] /\ code[1].op # "intena"
    BY <1>7, <1>9, <2>1
  <2>3. S # <<>>
    BY <1>7, <1>17
  <2> QED BY <1>7, <2>2, <2>3, HeadTailProperties
<1>19. r # <<>> => S[Len(S)] = r[Len(r)]
  <2> SUFFICES ASSUME r # <<>> PROVE S[m + n] = r[n]
    BY <1>6, <1>7
  <2>1. n # 0
    BY <1>5, <1>6, EmptySeq
  <2>2. n \in 1 .. n
    BY <2>1
  <2> QED BY <1>7, <2>2
<1>20. r = <<>> => S[Len(S)].op = "iret"
  <2> SUFFICES ASSUME r = <<>> PROVE S[m + n].op = "iret"
    BY <1>7
  <2>1. n = 0
    BY <1>6
  <2>2. m \in 1 .. m /\ m + n = m
    BY <1>17, <2>1
  <2> QED BY <1>1, <1>6, <1>7, <2>2
<1> QED BY <1>10, <1>12, <1>13, <1>16, <1>18, <1>19, <1>20 DEF Fronting1

LEMMA Fronted ==
  ASSUME Safe, NEW c \in Apics, NEW code, Fronts(c, code)
  PROVE  ListInv' /\ TrapInv'
<1>1. PICK r, S : r = Todo(c) /\ S = code \o r
  OBVIOUS
<1>2. /\ Smooth(S) /\ Rings(S) /\ (\A a \in 1 .. Len(S) : S[a].op # "block") /\ (InTrap(S) => InTrap(code))
      /\ S # <<>> /\ Head(S).op # "intena"
      /\ r # <<>> => S[Len(S)] = r[Len(r)]
      /\ r = <<>> => S[Len(S)].op = "iret"
  <2>1. Fronting(c, code, r, S)
    BY <1>1 DEF Fronting
  <2>2. Fronting1(code, r, S)
    BY <2>1, FrontLists
  <2> QED BY <2>2 DEF Fronting1
<1>3. /\ Goto(c, S) /\ proc' = proc /\ (\A d \in Apics \ {c} : cpu'[d] = cpu[d]) /\ cpu'[c].run = cpu[c].run
      /\ InTrap(code) => ~ cpu'[c].IF /\ ~ (cpu'[c].ncli > 0)
  BY <1>1 DEF Fronts
<1>4. PICK t : t = Running(c) /\ t \in Threads /\ Code(t) = r
  BY <1>1, Runs DEF Safe, Core
<1>5. \A v \in Threads : Code(v)' = IF v = t THEN S ELSE Code(v)
  BY <1>3, <1>4, GoesTo DEF Safe, Core
<1>6. \A v \in Threads : Smooth(Code(v)') /\ Rings(Code(v)')
  BY <1>2, <1>5 DEF Safe, ListInv, SmoothInv
<1>7. \A p \in Procs : Idle(p)' <=> Idle(p)
  BY <1>3 DEF Idle
<1>8. ASSUME NEW d \in Apics PROVE Todo(d)' = IF d = c THEN S ELSE Todo(d)
  <2>1. PICK v : v = Running(d) /\ v \in Threads /\ Code(v) = Todo(d)
    BY Runs DEF Safe, Core
  <2>2. d # c => v # t
    BY <1>4, <2>1, Apart DEF Safe, Core
  <2>3. cpu'[d].run = cpu[d].run
    BY <1>3
  <2>4. Todo(d)' = Code(v)'
    <3>1. v = IF cpu[d].run = 0 THEN <<"cpu", d>> ELSE <<"proc", cpu[d].run>>
      BY <2>1 DEF Running
    <3>2. cpu[d].run = 0 => Code(v)' = todo'[d]
      BY <3>1, Names
    <3>3. cpu[d].run # 0 => Code(v)' = kern'[cpu[d].run]
      <4>1. cpu[d].run # 0 => cpu[d].run \in Procs
        BY Runs DEF Safe, Core
      <4> QED BY <3>1, <4>1, Names
    <3> QED BY <2>3, <3>2, <3>3 DEF Todo
  <2>5. CASE d = c
    BY <1>4, <1>5, <2>1, <2>4, <2>5
  <2>6. CASE d # c
    BY <1>5, <2>1, <2>2, <2>4, <2>6
  <2> QED BY <2>5, <2>6
<1>9. ASSUME NEW p \in Procs
      PROVE  (kern'[p] = kern[p] /\ <<"proc", p>> # t) \/ (kern'[p] = S /\ kern[p] = r /\ ~ Idle(p))
  <2>1. PICK v \in Threads : v = <<"proc", p>> /\ Code(v) = kern[p] /\ Code(v)' = kern'[p]
    BY Names
  <2>2. CASE v = t
    <3>1. cpu[c].run = p
      BY <1>4, <2>1, <2>2 DEF Running
    <3> QED BY <1>4, <1>5, <2>1, <2>2, <3>1 DEF Idle
  <2>3. CASE v # t
    BY <1>5, <2>1, <2>3
  <2> QED BY <2>2, <2>3
<1>10. ASSUME NEW p \in Procs PROVE Blocks(p)' /\ Returns(p)'
  <2>1. Blocks(p) /\ Returns(p) /\ proc'[p] = proc[p]
    BY <1>3 DEF Safe, ListInv, TrapInv
  <2>2. CASE kern'[p] = kern[p]
    BY <1>7, <2>1, <2>2 DEF Blocks, Returns
  <2>3. CASE kern'[p] = S /\ kern[p] = r /\ ~ Idle(p)
    <3>1. Blocks(p)'
      BY <1>2, <2>3 DEF Blocks
    <3>2. S[Len(S)].op = "iret"
      BY <1>2, <2>1, <2>3 DEF Returns
    <3> QED BY <1>7, <2>3, <3>1, <3>2 DEF Returns
  <2> QED BY <1>9, <2>2, <2>3
<1>11. Closed(c)'
  <2>1. Todo(c)' = S /\ Now(c)' = Head(S)
    BY <1>8 DEF Now
  <2> QED BY <1>2, <1>3, <2>1 DEF Closed
<1>12. ASSUME NEW d \in Apics \ {c} PROVE Closed(d)'
  BY <1>3, <1>8, Rests
<1> QED BY <1>6, <1>10, <1>11, <1>12 DEF ListInv, SmoothInv, TrapInv

\* The tick is followed by the wakeup.
Chimes(s) == Has(s, "tick") => \E b \in 1 .. Len(s) : s[b] = On("wakeup1", Ticks)

LEMMA ChimesMild ==
  ASSUME NEW X, "tick" \notin X, NEW s \in Seq(Instructions(X))
  PROVE  Chimes(s)
<1>1. \A a \in 1 .. Len(s) : s[a].op \in X
  BY OpsAre
<1> QED BY <1>1 DEF Chimes, Has

LEMMA ChimesConcat ==
  ASSUME NEW V, NEW s \in Seq(V), NEW r \in Seq(V), Chimes(s), Chimes(r)
  PROVE  Chimes(s \o r)
<1>1. PICK m \in Nat, n \in Nat : m = Len(s) /\ n = Len(r)
  BY LenProperties
<1>2. PICK S : S = s \o r
  OBVIOUS
<1>3. /\ Len(S) = m + n
      /\ \A x \in 1 .. m : S[x] = s[x]
      /\ \A x \in 1 .. n : S[m + x] = r[x]
  BY <1>1, <1>2, ConcatIs
<1> SUFFICES ASSUME NEW a \in 1 .. m + n, S[a].op = "tick" PROVE \E b \in 1 .. m + n : S[b] = On("wakeup1", Ticks)
  BY <1>2, <1>3 DEF Chimes, Has
<1>4. CASE a \in 1 .. m
  <2>1. s[a].op = "tick"
    BY <1>3, <1>4
  <2>2. PICK b \in 1 .. m : s[b] = On("wakeup1", Ticks)
    BY <1>1, <1>4, <2>1 DEF Chimes, Has
  <2>3. b \in 1 .. m + n
    OBVIOUS
  <2> QED BY <1>3, <2>2, <2>3
<1>5. CASE a \notin 1 .. m
  <2>1. PICK x \in 1 .. n : m + x = a
    BY <1>5, Places
  <2>2. r[x].op = "tick"
    BY <1>3, <2>1
  <2>3. PICK b \in 1 .. n : r[b] = On("wakeup1", Ticks)
    BY <1>1, <2>2 DEF Chimes, Has
  <2>4. m + b \in 1 .. m + n
    OBVIOUS
  <2> QED BY <1>3, <2>3, <2>4
<1> QED BY <1>4, <1>5

\* What is behind is never rough to come to.
LEMMA SmoothThenMild ==
  ASSUME NEW X, NEW s \in Seq(Instructions(X)), Smooth(s), NEW Y, Y \cap RoughOps = {}, NEW r \in Seq(Instructions(Y))
  PROVE  Smooth(s \o r)
<1>1. PICK T : s \in Seq(Instructions(T)) /\ r \in Seq(Instructions(T))
  BY Together
<1>2. PICK V : V = Instructions(T)
  OBVIOUS
<1>3. s \in Seq(V) /\ r \in Seq(V)
  BY <1>1, <1>2
<1>4. Smooth(r)
  BY SmoothMild
<1>5. \A a \in 1 .. Len(s), b \in 1 .. Len(r) : ~ Rough(s[a], r[b])
  <2>1. \A b \in 1 .. Len(r) : r[b].op \notin RoughOps
    BY OpsAre
  <2> QED BY <2>1, SmoothPair
<1> QED BY <1>3, <1>4, <1>5, SmoothConcat

\* The code of an interrupt, before its end.
FirstOps == {"acquire", "release", "tick", "wakeup1", "ideintr", "quit", "preempt"}
Handles(a) == a \in Seq(Instructions(FirstOps)) /\ Smooth(a) /\ Chimes(a)

LEMMA HandlesOn ==
  ASSUME NEW a, Handles(a), NEW X, X \subseteq {"acquire", "release", "quit", "preempt"}, NEW r \in Seq(Instructions(X))
  PROVE  Handles(a \o r)
<1>1. a \in Seq(Instructions(FirstOps)) /\ Smooth(a) /\ Chimes(a)
  BY DEF Handles
<1>2. X \subseteq FirstOps /\ X \cap RoughOps = {} /\ "tick" \notin X
  BY DEF FirstOps, RoughOps
<1>3. r \in Seq(Instructions(FirstOps)) /\ Chimes(r)
  BY <1>2, MoreOps, ChimesMild
<1>4. PICK V : V = Instructions(FirstOps)
  OBVIOUS
<1>5. a \o r \in Seq(V)
  BY <1>1, <1>3, <1>4, ConcatProperties
<1>6. Smooth(a \o r)
  BY <1>1, <1>2, SmoothThenMild
<1>7. Chimes(a \o r)
  BY <1>1, <1>3, <1>4, ChimesConcat
<1> QED BY <1>4, <1>5, <1>6, <1>7 DEF Handles

\* The whole code.
HandlerFine(code) ==
  /\ \E X : code \in Seq(Instructions(X)) /\ X \cap {"intena", "block", "await", "forkret"} = {}
  /\ code # <<>> /\ code[Len(code)] = Irq /\ Smooth(code) /\ Rings(code) /\ InTrap(code)

LEMMA HandlerIs ==
  ASSUME NEW n \in Int, NEW a, Handles(a), NEW z, z = <<>> \/ z = <<Do("preempt")>>, NEW code, code = Handler(n, a, z)
  PROVE  HandlerFine(code)
<1>1. PICK q : q = On("quit", n)
  OBVIOUS
<1>2. PICK X : X = {"quit", "preempt"}
  OBVIOUS
<1>3. q \in Instructions(X) /\ Do("preempt") \in Instructions(X) /\ q.op = "quit"
  BY <1>1, <1>2, TypeOfDo, FieldsOn
<1>4. PICK w : w = <<q>> /\ w \in Seq(Instructions(X))
  BY <1>3, OneIs
<1>5. z \in Seq(Instructions(X))
  <2>1. PICK Q : Q = Instructions(X)
    OBVIOUS
  <2>2. <<>> \in Seq(Q) /\ <<Do("preempt")>> \in Seq(Q)
    BY <1>3, <2>1
  <2> QED BY <2>1, <2>2
<1>6. PICK b : b = (a \o w) \o z
  OBVIOUS
<1>7. Handles(b)
  <2>1. X \subseteq {"acquire", "release", "quit", "preempt"}
    BY <1>2
  <2>2. PICK d : d = a \o w /\ Handles(d)
    BY <1>4, <2>1, HandlesOn
  <2>3. Handles(d \o z)
    BY <1>5, <2>1, <2>2, HandlesOn
  <2> QED BY <1>6, <2>2, <2>3
<1>8. PICK e : e = <<q, Irq>>
  OBVIOUS
<1>9. code = b \o e
  BY <1>1, <1>4, <1>6, <1>8 DEF Handler, Irq
<1>10. PICK Y : Y = FirstOps \cup {"iret"}
  OBVIOUS
<1>11. PICK V : V = Instructions(Y)
  OBVIOUS
<1>12. b \in Seq(V)
  <2>1. FirstOps \subseteq Y
    BY <1>10
  <2> QED BY <1>7, <1>11, <2>1, MoreOps DEF Handles
<1>13. e \in Seq(V)
  <2>1. "quit" \in Y /\ "iret" \in Y
    BY <1>10 DEF FirstOps
  <2>2. \A op \in {"quit", "iret"} : \A k \in Int : On(op, k) \in Instructions(Y)
    <3>1. ASSUME NEW op \in {"quit", "iret"}, NEW k \in Int PROVE On(op, k) \in Instructions(Y)
      <4>1. op \in Y /\ op \notin {"acquire", "release"}
        BY <2>1
      <4> QED BY <4>1, TypeOfDo
    <3> QED BY <3>1
  <2>3. q \in V /\ Irq \in V
    BY <1>1, <1>11, <2>2 DEF Irq
  <2> QED BY <1>8, <2>3
<1>14. PICK m \in Nat : m = Len(b)
  BY <1>12, LenProperties
<1>15. Len(e) = 2 /\ e[1] = q /\ e[2] = Irq
  BY <1>8
<1>16. /\ code \in Seq(V) /\ Len(code) = m + 2
       /\ \A x \in 1 .. m : code[x] = b[x]
       /\ \A x \in 1 .. 2 : code[m + x] = e[x]
  <2>2. PICK k \in Nat : k = Len(e)
    BY <1>15
  <2>3. /\ b \o e \in Seq(V) /\ Len(b \o e) = m + k
        /\ \A x \in 1 .. m : (b \o e)[x] = b[x]
        /\ \A x \in 1 .. k : (b \o e)[m + x] = e[x]
    BY <1>12, <1>13, <1>14, <2>2, ConcatIs
  <2> QED BY <1>9, <1>15, <2>2, <2>3
<1>17. code[m + 2] = Irq /\ m + 2 \in 1 .. m + 2
  BY <1>15, <1>16
<1>18. InTrap(code) /\ code # <<>> /\ code[Len(code)] = Irq
  BY <1>16, <1>17 DEF InTrap
<1>19. Smooth(code)
  <2>1. \A x \in 1 .. m : b[x].op \notin Opens
    <3>1. \A x \in 1 .. m : b[x].op \in FirstOps
      BY <1>7, <1>14, OpsAre DEF Handles
    <3> QED BY <3>1 DEF FirstOps, Opens
  <2>2. q.op \notin RoughOps \cup Opens /\ Irq.op = "iret"
    BY <1>3, FieldsOn DEF RoughOps, Opens, Irq
  <2>3. ASSUME NEW i, i.op \notin Opens PROVE ~ Rough(i, q) /\ ~ Rough(i, Irq)
    <3>1. ~ Rough(i, q)
      BY <2>2, SmoothPair
    <3> QED BY <2>2, <2>3, <3>1 DEF Rough
  <2>4. Smooth(e)
    BY <1>8, <2>2, <2>3, SmoothTwo
  <2>5. \A x \in 1 .. m, y \in 1 .. 2 : ~ Rough(b[x], e[y])
    <3>1. \A y \in 1 .. 2 : y = 1 \/ y = 2
      OBVIOUS
    <3> QED BY <1>15, <2>1, <2>3, <3>1
  <2> QED BY <1>7, <1>9, <1>12, <1>13, <1>14, <1>15, <2>4, <2>5, SmoothConcat DEF Handles
<1>20. Rings(code)
  <2>1. Chimes(e)
    <3>1. q.op # "tick" /\ Irq.op # "tick"
      BY <1>3, FieldsOn DEF Irq
    <3>2. \A y \in 1 .. 2 : y = 1 \/ y = 2
      OBVIOUS
    <3> QED BY <1>15, <3>1, <3>2 DEF Chimes, Has
  <2>2. Chimes(code)
    BY <1>7, <1>9, <1>12, <1>13, <2>1, ChimesConcat DEF Handles
  <2> QED BY <1>18, <2>2 DEF Rings, Chimes
<1>21. Y \cap {"intena", "block", "await", "forkret"} = {}
  BY <1>10 DEF FirstOps
<1> QED BY <1>11, <1>16, <1>18, <1>19, <1>20, <1>21 DEF HandlerFine

LEMMA Interrupted ==
  ASSUME Safe, NEW c \in Apics, NEW a, Handles(a), NEW z, z = <<>> \/ z = <<Do("preempt")>>, Interrupt(c, a, z)
  PROVE  ListInv' /\ TrapInv'
<1>1. PICK n \in Int : n = IF cpu[c].run # 0 /\ Todo(c) = <<>> THEN 1 ELSE 0
  OBVIOUS
<1>2. PICK code : code = Handler(n, a, z) /\ HandlerFine(code)
  <2>1. PICK code : code = Handler(n, a, z)
    OBVIOUS
  <2> QED BY <2>1, HandlerIs
<1>3. /\ cpu[c].IF /\ cpu[c].at = "run" /\ cpu' = [cpu EXCEPT ![c].IF = FALSE] /\ proc' = proc
      /\ Goto(c, code \o Todo(c))
  BY <1>1, <1>2 DEF Interrupt
<1>4. DOMAIN cpu = Apics /\ CpuType(cpu[c]) /\ Sane(c)
  BY DEF Safe, Core, DataTypes, SaneInv
<1>5. /\ \A d \in Apics \ {c} : cpu'[d] = cpu[d]
      /\ cpu'[c].run = cpu[c].run /\ cpu'[c].ncli = cpu[c].ncli /\ ~ cpu'[c].IF
  BY <1>3, <1>4 DEF CpuType
<1>6. ~ (cpu'[c].ncli > 0)
  BY <1>3, <1>4, <1>5 DEF Sane
<1>7. PICK X : code \in Seq(Instructions(X)) /\ X \cap {"intena", "block", "await", "forkret"} = {}
  BY <1>2 DEF HandlerFine
<1>8. /\ code # <<>> /\ code[Len(code)] = Irq /\ Smooth(code) /\ Rings(code)
  BY <1>2 DEF HandlerFine
<1>9. code[Len(code)].op = "iret"
  BY <1>8, FieldsOn DEF Irq
<1>10. \A b \in 1 .. Len(code) : code[b].op \notin {"await", "forkret"}
  BY <1>7, OpsAre
<1>11. \E Y : code \in Seq(Instructions(Y)) /\ Y \cap {"intena", "block"} = {}
  BY <1>7
<1>12. Fronts(c, code)
  BY <1>3, <1>5, <1>6, <1>8, <1>9, <1>10, <1>11 DEF Fronts
<1> QED BY <1>12, Fronted

LEMMA InterruptIs ==
  ASSUME NEW c \in Apics, timer(c) \/ ide(c)
  PROVE  \E a, z : Handles(a) /\ (z = <<>> \/ z = <<Do("preempt")>>) /\ Interrupt(c, a, z)
<1>1. PICK X : X = FirstOps
  OBVIOUS
<1>2. acquire("tickslock") \in Instructions(X) /\ release("tickslock") \in Instructions(X) /\ acquire("idelock") \in Instructions(X)
      /\ Do("tick") \in Instructions(X) /\ Do("ideintr") \in Instructions(X)
  <2>1. {"acquire", "release"} \subseteq X /\ "tick" \in X /\ "ideintr" \in X
    BY <1>1 DEF FirstOps
  <2> QED BY <2>1, TypeOfDo, TypeOfLock DEF Locks
<1>3. PICK V : V = Instructions(X)
  OBVIOUS
<1>4. Handles(<<>>)
  <2>1. <<>> \in Seq(Instructions(X)) /\ Len(<<>>) = 0
    OBVIOUS
  <2> QED BY <1>1, <2>1 DEF Handles, Smooth, Chimes, Has
<1>5. CASE timer(c)
  <2>1. Interrupt(c, Clock(c), <<Do("preempt")>>)
    BY <1>5 DEF timer
  <2>2. PICK w : w = wakeup(Ticks)
    OBVIOUS
  <2>3. /\ w \in Seq(Instructions({"acquire", "release", "wakeup1"})) /\ Smooth(w)
        /\ Len(w) = 3 /\ w[1] = acquire("ptable") /\ w[2] = On("wakeup1", Ticks) /\ w[3] = release("ptable")
    <3>1. Ticks \in Int
      BY DEF Ticks
    <3> QED BY <2>2, <3>1, SmoothWakeup
  <2>4. w \in Seq(V)
    <3>1. {"acquire", "release", "wakeup1"} \subseteq X
      BY <1>1 DEF FirstOps
    <3> QED BY <1>3, <2>3, <3>1, MoreOps
  <2>5. PICK h : h = <<acquire("tickslock"), Do("tick")>> /\ h \in Seq(V)
    <3>1. <<acquire("tickslock"), Do("tick")>> \in Seq(V)
      BY <1>2, <1>3
    <3> QED BY <3>1
  <2>6. PICK b : b = h \o w /\ b \in Seq(V)
    <3>1. h \o w \in Seq(V)
      BY <2>4, <2>5, ConcatProperties
    <3> QED BY <3>1
  <2>7. Len(h) = 2 /\ h[1] = acquire("tickslock") /\ h[2] = Do("tick")
    BY <2>5
  <2>8. Smooth(b)
    <3>1. acquire("tickslock").op = "acquire" /\ Do("tick").op = "tick" /\ Do("tick") # Irq
      BY FieldsOn, FieldsLock DEF Do, Irq
    <3>2. Smooth(h)
      <4>1. ~ Rough(acquire("tickslock"), Do("tick"))
        BY <3>1 DEF Rough
      <4> QED BY <2>5, <4>1, SmoothTwo
    <3>3. \A x \in 1 .. Len(h), y \in 1 .. Len(w) : ~ Rough(h[x], w[y])
      <4>1. \A x \in 1 .. Len(h) : h[x].op \in {"acquire", "tick"}
        <5>1. \A x \in 1 .. Len(h) : x = 1 \/ x = 2
          BY <2>7
        <5> QED BY <2>7, <3>1, <5>1
      <4>2. \A y \in 1 .. Len(w) : w[y].op \in {"acquire", "release", "wakeup1"}
        BY <2>3, OpsAre
      <4>3. \A i, j : i.op \in {"acquire", "tick"} /\ j.op \in {"acquire", "release", "wakeup1"} => ~ Rough(i, j)
        <5>1. Irq.op = "iret"
          BY FieldsOn DEF Irq
        <5> QED BY <5>1 DEF Rough
      <4> QED BY <4>1, <4>2, <4>3
    <3> QED BY <2>3, <2>4, <2>5, <2>6, <3>2, <3>3, SmoothConcat
  <2>9. Chimes(b)
    <3>1. PICK m \in Nat, n \in Nat : m = Len(h) /\ n = Len(w)
      BY <2>4, <2>5, LenProperties
    <3>2. /\ Len(b) = m + n /\ \A x \in 1 .. n : b[m + x] = w[x]
      BY <2>4, <2>5, <2>6, <3>1, ConcatIs
    <3>3. 2 \in 1 .. n /\ m + 2 \in 1 .. m + n
      BY <2>3, <2>7, <3>1
    <3>4. b[m + 2] = On("wakeup1", Ticks)
      BY <2>3, <3>2, <3>3
    <3> QED BY <3>2, <3>3, <3>4 DEF Chimes
  <2>10. Handles(b)
    BY <1>1, <1>3, <2>6, <2>8, <2>9 DEF Handles
  <2>11. PICK r : r = <<release("tickslock")>> /\ r \in Seq(Instructions({"release"}))
    <3>1. release("tickslock") \in Instructions({"release"})
      <4>1. PICK Y : Y = {"release"}
        OBVIOUS
      <4>2. release("tickslock") \in [op : Y, on : LockNames, n : Int, since : Int]
        BY <4>1 DEF release, LockNames, Locks
      <4>3. release("tickslock").on \in Locks
        BY FieldsLock DEF Locks
      <4> QED BY <4>1, <4>2, <4>3 DEF Instructions
    <3> QED BY <3>1, OneIs
  <2>12. Handles(b \o r)
    <3>1. {"release"} \subseteq {"acquire", "release", "quit", "preempt"}
      OBVIOUS
    <3> QED BY <2>10, <2>11, <3>1, HandlesOn
  <2>13. Clock(c) = <<>> \/ Clock(c) = b \o r
    <3>1. PICK i, j : i = acquire("tickslock") /\ j = Do("tick") /\ i \in V /\ j \in V
      BY <1>2, <1>3
    <3>2. h = <<i, j>> /\ <<i>> \in Seq(V) /\ <<j>> \in Seq(V)
      BY <2>5, <3>1
    <3>3. <<i>> \o (<<j>> \o w) = (<<i>> \o <<j>>) \o w
      BY <2>4, <3>2
    <3>4. <<i>> \o <<j>> = h
      BY <3>2, Join2
    <3>5. Under("tickslock", <<Do("tick")>> \o w) = b \o r
      BY <2>6, <2>11, <3>1, <3>3, <3>4 DEF Under
    <3> QED BY <2>2, <3>5 DEF Clock
  <2>14. PICK a : a = Clock(c) /\ Handles(a)
    BY <1>4, <2>12, <2>13
  <2>15. PICK z : z = <<Do("preempt")>>
    OBVIOUS
  <2>16. Interrupt(c, a, z)
    BY <2>1, <2>14, <2>15
  <2> QED BY <2>14, <2>15, <2>16
<1>6. CASE ide(c)
  <2>1. PICK h : h = <<acquire("idelock"), Do("ideintr")>> /\ h \in Seq(V)
    <3>1. <<acquire("idelock"), Do("ideintr")>> \in Seq(V)
      BY <1>2, <1>3
    <3> QED BY <3>1
  <2>2. Len(h) = 2 /\ h[1] = acquire("idelock") /\ h[2] = Do("ideintr")
    BY <2>1
  <2>3. acquire("idelock").op = "acquire" /\ Do("ideintr").op = "ideintr" /\ Do("ideintr") # Irq
    BY FieldsOn, FieldsLock DEF Do, Irq
  <2>4. Smooth(h)
    <3>1. ~ Rough(acquire("idelock"), Do("ideintr"))
      BY <2>3 DEF Rough
    <3> QED BY <2>1, <3>1, SmoothTwo
  <2>5. Chimes(h)
    <3>1. \A x \in 1 .. Len(h) : x = 1 \/ x = 2
      BY <2>2
    <3> QED BY <2>2, <2>3, <3>1 DEF Chimes, Has
  <2>6. Handles(h)
    BY <1>1, <1>3, <2>1, <2>4, <2>5 DEF Handles
  <2>7. PICK z : z = <<>>
    OBVIOUS
  <2>8. Interrupt(c, h, z)
    BY <1>6, <2>1, <2>7 DEF ide
  <2> QED BY <2>6, <2>7, <2>8
<1> QED BY <1>5, <1>6

LEMMA InterruptLists ==
  ASSUME Safe, NEW c \in Apics, timer(c) \/ ide(c)
  PROVE  ListInv' /\ TrapInv'
BY InterruptIs, Interrupted

\* The body of a system call.
BodyOps == {"acquire", "release", "find", "reap", "kill", "since", "request", "await", "zombie", "sched", "zombie exit"}

LEMMA CallMild ==
  ASSUME NEW call \in Calls, call.op # "read", NEW s, s = Call(call)
  PROVE  s \in Seq(Instructions(BodyOps \ {"request", "await"}))
<1>1. PICK X : X = BodyOps \ {"request", "await"}
  OBVIOUS
<1>2. /\ {"acquire", "release"} \subseteq X
      /\ {"zombie", "sched", "zombie exit"} \subseteq X /\ {"find", "reap", "kill", "since"} \subseteq X
  BY <1>1 DEF BodyOps
<1>3. call.op \in {"fork", "wait", "kill", "sleep", "read", "exit"} /\ call.n \in Int
  BY DEF Calls
<1>4. PICK V : V = Instructions(X)
  OBVIOUS
<1>5. acquire("ptable") \in V /\ release("ptable") \in V /\ acquire("tickslock") \in V
  BY <1>2, <1>4, TypeOfLock DEF Locks
<1>6. \A op \in {"find", "reap", "kill", "since"} : \A n \in Int : On(op, n) \in V
  <2>1. ASSUME NEW op \in {"find", "reap", "kill", "since"}, NEW n \in Int PROVE On(op, n) \in V
    <3>1. op \in X /\ op \notin {"acquire", "release"}
      BY <1>2
    <3> QED BY <1>4, <3>1, TypeOfDo
  <2> QED BY <2>1
<1>7. s \in Seq(V)
  <2>1. CASE call.op = "fork"
    <3>1. Do("find") \in V
      <4>1. Do("find") = On("find", 0) /\ 0 \in Int
        BY DEF Do
      <4> QED BY <1>6, <4>1
    <3> QED BY <1>5, <2>1, <3>1 DEF Call, allocproc
  <2>2. CASE call.op = "wait"
    <3>1. Do("reap") \in V
      <4>1. Do("reap") = On("reap", 0) /\ 0 \in Int
        BY DEF Do
      <4> QED BY <1>6, <4>1
    <3> QED BY <1>5, <2>2, <3>1 DEF Call
  <2>3. CASE call.op = "kill"
    <3>1. On("kill", call.n) \in V
      BY <1>3, <1>6
    <3>2. <<acquire("ptable")>> \in Seq(V) /\ <<On("kill", call.n)>> \in Seq(V) /\ <<release("ptable")>> \in Seq(V)
      BY <1>5, <3>1
    <3>3. s = (<<acquire("ptable")>> \o <<On("kill", call.n)>>) \o <<release("ptable")>>
      BY <2>3 DEF Call, Under
    <3> QED BY <3>2, <3>3, ConcatProperties
  <2>4. CASE call.op = "sleep"
    <3>1. On("since", call.n) \in V
      BY <1>3, <1>6
    <3> QED BY <1>5, <2>4, <3>1 DEF Call
  <2>5. CASE call.op = "exit"
    <3>1. s = exit
      BY <2>5 DEF Call
    <3> QED BY <1>2, <1>4, <3>1, GoodSmall DEF Good
  <2> QED BY <1>3, <2>1, <2>2, <2>3, <2>4, <2>5
<1> QED BY <1>1, <1>4, <1>7

LEMMA CallIs ==
  ASSUME NEW call \in Calls, NEW s, s = Call(call)
  PROVE  s \in Seq(Instructions(BodyOps)) /\ Smooth(s)
<1>1. CASE call.op # "read"
  <2>1. PICK X : X = BodyOps \ {"request", "await"}
    OBVIOUS
  <2>2. s \in Seq(Instructions(X))
    BY <1>1, <2>1, CallMild
  <2>3. X \subseteq BodyOps /\ X \cap RoughOps = {}
    BY <2>1 DEF BodyOps, RoughOps
  <2> QED BY <2>2, <2>3, SmoothMild, MoreOps
<1>2. CASE call.op = "read"
  <2>1. PICK i, j, k : i = acquire("idelock") /\ j = Do("request") /\ k = Do("await")
    OBVIOUS
  <2>2. s = iderw /\ s = <<i, j, k>>
    BY <1>2, <2>1 DEF Call, iderw
  <2>3. i.op = "acquire" /\ j.op = "request" /\ k.op = "await" /\ j # Irq /\ k # Irq
    BY <2>1, FieldsLock, FieldsOn DEF Do, Irq
  <2>4. ~ Rough(i, j) /\ ~ Rough(i, k) /\ ~ Rough(j, k)
    BY <2>3 DEF Rough
  <2>5. Smooth(s)
    BY <2>2, <2>4, SmoothThree
  <2>6. {"acquire", "release"} \subseteq BodyOps /\ {"request", "await"} \subseteq BodyOps
    BY DEF BodyOps
  <2>7. s \in Seq(Instructions(BodyOps))
    BY <2>2, <2>6, GoodSmall DEF Good
  <2> QED BY <2>5, <2>7
<1> QED BY <1>1, <1>2

LEMMA CalledLists ==
  ASSUME Safe, NEW c \in Apics, syscall(c)
  PROVE  ListInv' /\ TrapInv'
<1>1. /\ cpu[c].at = "run" /\ cpu[c].run # 0 /\ Todo(c) = <<>> /\ work[Me(c)] # <<>>
      /\ cpu' = cpu /\ proc' = proc
  BY DEF syscall
<1>2. Me(c) \in Procs /\ DOMAIN work = Procs /\ (\A p \in Procs : work[p] \in Seq(Calls))
  BY <1>1 DEF Safe, Core, DataTypes, RunInv, Me, CpuType
<1>3. PICK call \in Calls : call = Head(work[Me(c)])
  BY <1>1, <1>2
<1>4. PICK s : s = Call(call) /\ s \in Seq(Instructions(BodyOps)) /\ Smooth(s)
  <2>1. PICK s : s = Call(call)
    OBVIOUS
  <2> QED BY <2>1, CallIs
<1>5. PICK X : X = BodyOps \cup {"quit", "iret"}
  OBVIOUS
<1>6. PICK V : V = Instructions(X)
  OBVIOUS
<1>7. PICK q, e : q = On("quit", 1) /\ e = On("iret", 0)
  OBVIOUS
<1>8. q.op = "quit" /\ e.op = "iret" /\ e # Irq /\ q # Irq
  <2>1. e.n = 0 /\ Irq.n = 1 /\ Irq.op = "iret"
    BY <1>7, FieldsOn DEF Irq
  <2> QED BY <1>7, <2>1, FieldsOn
<1>9. q \in V /\ e \in V
  <2>1. ASSUME NEW op \in {"quit", "iret"}, NEW n \in {0, 1} PROVE On(op, n) \in V
    <3>1. op \in X /\ op \notin {"acquire", "release"} /\ n \in Int
      BY <1>5
    <3> QED BY <1>6, <3>1, TypeOfDo
  <2> QED BY <1>7, <2>1
<1>10. PICK a, z : a = <<q>> /\ z = <<q, e>>
  OBVIOUS
<1>11. a \in Seq(V) /\ z \in Seq(V) /\ Len(a) = 1 /\ a[1] = q /\ Len(z) = 2 /\ z[1] = q /\ z[2] = e
  BY <1>9, <1>10
<1>12. s \in Seq(V)
  <2>1. BodyOps \subseteq X
    BY <1>5
  <2> QED BY <1>4, <1>6, <2>1, MoreOps
<1>13. PICK b \in Seq(V) : b = a \o s
  <2>1. a \o s \in Seq(V)
    BY <1>11, <1>12, ConcatProperties
  <2> QED BY <2>1
<1>14. PICK code \in Seq(V) : code = b \o z
  <2>1. b \o z \in Seq(V)
    BY <1>11, <1>13, ConcatProperties
  <2> QED BY <2>1
<1>15. Smooth(b)
  <2>1. Smooth(a)
    BY <1>10, SmoothOne
  <2>2. \A x \in 1 .. Len(a), y \in 1 .. Len(s) : ~ Rough(a[x], s[y])
    <3> SUFFICES ASSUME NEW x \in 1 .. Len(a), NEW y \in 1 .. Len(s) PROVE ~ Rough(a[x], s[y])
      OBVIOUS
    <3>1. a[x] = q /\ s[y].op \in BodyOps
      BY <1>4, <1>11, OpsAre
    <3>2. Irq.op = "iret" /\ "iret" \notin BodyOps /\ BodyOps \cap {"intena", "wakeup1", "ideintr", "tick", "idestart", "block"} = {}
      BY FieldsOn DEF BodyOps, Irq
    <3>3. s[y] # Irq
      BY <3>1, <3>2
    <3> QED BY <1>8, <3>1, <3>2, <3>3 DEF Rough
  <2> QED BY <1>4, <1>11, <1>12, <1>13, <2>1, <2>2, SmoothConcat
<1>16. \A i : ~ Rough(i, q) /\ ~ Rough(i, e)
  <2>1. \A i : ~ Rough(i, q)
    BY <1>8, SmoothPair DEF RoughOps
  <2> QED BY <1>8, <2>1 DEF Rough
<1>17. Smooth(code)
  <2>1. Smooth(z)
    BY <1>10, <1>16, SmoothTwo
  <2>2. \A x \in 1 .. Len(b), y \in 1 .. Len(z) : ~ Rough(b[x], z[y])
    <3>1. \A y \in 1 .. Len(z) : z[y] = q \/ z[y] = e
      <4>1. \A y \in 1 .. Len(z) : y = 1 \/ y = 2
        BY <1>11
      <4> QED BY <1>11, <4>1
    <3> QED BY <1>16, <3>1
  <2> QED BY <1>11, <1>13, <1>14, <1>15, <2>1, <2>2, SmoothConcat
<1>18. \A x \in 1 .. Len(code) : code[x].op \in X
  BY <1>6, <1>14, OpsAre
<1>19. code # <<>> /\ code[Len(code)] = e
  <2>1. PICK m \in Nat, k \in Nat : m = Len(b) /\ k = Len(z)
    BY <1>11, <1>13, LenProperties
  <2>5. z \in Seq(V)
    BY <1>11
  <2>2. Len(code) = m + k /\ \A x \in 1 .. k : code[m + x] = z[x]
    BY <1>14, <2>1, <2>5, ConcatIs
  <2>3. k = 2 /\ 2 \in 1 .. k
    BY <1>11, <2>1
  <2>4. code[m + 2] = e /\ Len(code) = m + 2
    BY <1>11, <2>2, <2>3
  <2>6. code # <<>>
    BY <2>4
  <2> QED BY <2>4, <2>6
<1>20. ~ InTrap(code)
  <2> SUFFICES ASSUME NEW x \in 1 .. Len(code), code[x] = Irq PROVE FALSE
    BY DEF InTrap
  <2>1. Irq.op = "iret"
    BY FieldsOn DEF Irq
  <2>2. (x \in 1 .. Len(b) /\ code[x] = b[x]) \/ \E y \in 1 .. Len(z) : code[x] = z[y]
    <3>1. z \in Seq(V) /\ x \in 1 .. Len(b \o z)
      BY <1>11, <1>14
    <3>2. (x \in 1 .. Len(b) /\ (b \o z)[x] = b[x]) \/ \E y \in 1 .. Len(z) : (b \o z)[x] = z[y]
      BY <3>1, InConcat
    <3> QED BY <1>14, <3>2
  <2>3. CASE \E y \in 1 .. Len(z) : code[x] = z[y]
    <3>1. \A y \in 1 .. Len(z) : y = 1 \/ y = 2
      BY <1>11
    <3> QED BY <1>8, <1>11, <2>3, <3>1
  <2>4. CASE x \in 1 .. Len(b) /\ code[x] = b[x]
    <3>1. (x \in 1 .. Len(a) /\ b[x] = a[x]) \/ \E y \in 1 .. Len(s) : b[x] = s[y]
      BY <1>11, <1>12, <1>13, <2>4, InConcat
    <3>2. \A y \in 1 .. Len(a) : a[y] = q
      BY <1>11
    <3>3. \A y \in 1 .. Len(s) : s[y].op \in BodyOps
      BY <1>4, OpsAre
    <3>4. "iret" \notin BodyOps
      BY DEF BodyOps
    <3> QED BY <1>8, <2>1, <2>4, <3>1, <3>2, <3>3, <3>4
  <2> QED BY <2>2, <2>3, <2>4
<1>21. Rings(code)
  <2>1. X \cap WakeOps = {}
    BY <1>5 DEF BodyOps, WakeOps
  <2>2. \A op \in WakeOps : ~ Has(code, op)
    BY <1>18, <2>1 DEF Has
  <2> QED BY <2>2 DEF Rings, WakeOps
<1>22. Goto(c, code \o Todo(c))
  <2>1. Goto(c, code)
    BY <1>3, <1>4, <1>7, <1>10, <1>13, <1>14 DEF syscall
  <2>2. code \o Todo(c) = code
    BY <1>1, <1>14
  <2> QED BY <2>1, <2>2
<1>23. \E Y : code \in Seq(Instructions(Y)) /\ Y \cap {"intena", "block"} = {}
  <2>1. X \cap {"intena", "block"} = {}
    BY <1>5 DEF BodyOps
  <2> QED BY <1>6, <1>14, <2>1
<1>24. Fronts(c, code)
  BY <1>1, <1>8, <1>17, <1>19, <1>20, <1>21, <1>22, <1>23 DEF Fronts
<1> QED BY <1>24, Fronted

----------------------------------------------------------------------------
(* The start, and all steps.                                               *)

LEMMA MainMild ==
  \E X : main \in Seq(Instructions(X)) /\ X \cap (RoughOps \cup WakeOps) = {}
<1>1. PICK X : X = {"kinit1", "kalloc", "mpinit", "lapicinit", "consoleinit", "ideinit", "startothers", "freerange",
                    "use_lock", "acquire", "release", "find", "cprintf", "idtinit", "started"}
  OBVIOUS
<1>2. PICK s : s = <<Do("kinit1"), Do("kalloc"), On("mpinit", 1), Do("lapicinit"), Do("consoleinit"), Do("ideinit"),
                     On("startothers", 1), Do("freerange"), Do("use_lock")>>
  OBVIOUS
<1>3. PICK V : V = Instructions(X)
  OBVIOUS
<1>4. s \in Seq(V)
  <2>1. \A op \in {"kinit1", "kalloc", "mpinit", "lapicinit", "consoleinit", "ideinit", "startothers", "freerange", "use_lock"} :
          Do(op) \in V /\ On(op, 1) \in V
    <3>1. ASSUME NEW op \in {"kinit1", "kalloc", "mpinit", "lapicinit", "consoleinit", "ideinit", "startothers", "freerange", "use_lock"}
          PROVE  Do(op) \in V /\ On(op, 1) \in V
      <4>1. op \in X /\ op \notin {"acquire", "release"} /\ 1 \in Int
        BY <1>1
      <4> QED BY <1>3, <4>1, TypeOfDo
    <3> QED BY <3>1
  <2>2. /\ Do("kinit1") \in V /\ Do("kalloc") \in V /\ On("mpinit", 1) \in V
        /\ Do("lapicinit") \in V /\ Do("consoleinit") \in V /\ Do("ideinit") \in V
        /\ On("startothers", 1) \in V /\ Do("freerange") \in V /\ Do("use_lock") \in V
    BY <2>1
  <2> QED BY <1>2, <2>2
<1>5. allocproc \in Seq(V) /\ mpmain \in Seq(V)
  <2>1. {"acquire", "release"} \subseteq X /\ "find" \in X /\ {"cprintf", "idtinit", "started"} \subseteq X
    BY <1>1
  <2> QED BY <1>3, <2>1, GoodSmall DEF Good
<1>6. main \in Seq(V)
  <2>1. s \o allocproc \in Seq(V)
    BY <1>4, <1>5, ConcatProperties
  <2>2. (s \o allocproc) \o mpmain \in Seq(V)
    BY <1>5, <2>1, ConcatProperties
  <2> QED BY <1>2, <2>2 DEF main
<1>7. X \cap (RoughOps \cup WakeOps) = {}
  BY <1>1 DEF RoughOps, WakeOps
<1> QED BY <1>3, <1>6, <1>7

LEMMA InitSafe ==
  ASSUME Init
  PROVE  Safe
<1>1. Core
  BY InitCore
<1>2. /\ \A c \in Apics : cpu[c] = Off /\ todo[c] = (IF c = BSP THEN main ELSE <<>>)
      /\ \A p \in Procs : kern[p] = <<>>
  BY DEF Init, Start
<1>3. PICK X : main \in Seq(Instructions(X)) /\ X \cap (RoughOps \cup WakeOps) = {}
  BY MainMild
<1>4. Smooth(main) /\ \A a \in 1 .. Len(main) : main[a].op \in X
  BY <1>3, SmoothMild, OpsAre
<1>5. Rings(main) /\ ~ InTrap(main)
  <2>1. \A op \in WakeOps : ~ Has(main, op)
    BY <1>3, <1>4 DEF Has
  <2>2. "iret" \notin X /\ Irq.op = "iret"
    BY <1>3, FieldsOn DEF RoughOps, Irq
  <2> QED BY <1>4, <2>1, <2>2 DEF Rings, InTrap, WakeOps
<1>6. Smooth(<<>>) /\ Rings(<<>>) /\ ~ InTrap(<<>>) /\ Len(<<>>) = 0
  <2>1. Len(<<>>) = 0
    OBVIOUS
  <2> QED BY <2>1 DEF Smooth, Rings, Has, InTrap
<1>7. \A t \in Threads : Code(t) \in {main, <<>>}
  BY <1>2, Names, Kinds
<1>8. ListInv
  <2>1. \A t \in Threads : Smooth(Code(t)) /\ Rings(Code(t))
    BY <1>4, <1>5, <1>6, <1>7
  <2>2. \A p \in Procs : Blocks(p)
    BY <1>2, <1>6 DEF Blocks
  <2> QED BY <2>1, <2>2 DEF ListInv, SmoothInv
<1>9. TrapInv
  <2>1. ASSUME NEW c \in Apics PROVE Closed(c)
    <3>1. cpu[c].run = 0
      BY <1>2 DEF Off
    <3>2. ~ InTrap(Todo(c))
      BY <1>2, <1>5, <1>6, <3>1 DEF Todo
    <3> QED BY <3>1, <3>2 DEF Closed
  <2>2. \A p \in Procs : Returns(p)
    BY <1>2, <1>6 DEF Returns
  <2> QED BY <2>1, <2>2 DEF TrapInv
<1> QED BY <1>1, <1>8, <1>9 DEF Safe

LEMMA StepLists ==
  ASSUME Safe, NEW c \in Apics, Step(c)
  PROVE  ListInv' /\ TrapInv'
<1>1. CASE \/ change(c) \/ kalloc_peek(c) \/ kalloc_take(c) \/ kfree_push(c) \/ freerange(c) \/ tick(c) \/ request(c)
           \/ idestart(c) \/ lapicinit(c) \/ consoleinit(c) \/ ideinit(c) \/ use_lock(c) \/ startothers_wait(c)
           \/ entry(c) \/ idtinit(c)
  BY <1>1, SimpleSteps
<1>2. CASE back(c) \/ started(c) \/ scan(c)
  BY <1>2, SchedulerSteps, SwitchStep
<1>3. CASE allocproc_find(c) \/ allocproc_kstack(c) \/ mpinit(c) \/ lapicstartap(c)
  BY <1>3, MakingSteps, StartSteps
<1>4. CASE forkret_first(c) \/ ideintr(c) \/ await(c)
  BY <1>4, DiskSteps
<1>5. CASE enter(c) \/ sched(c)
  BY <1>5, EnterStep, SchedStep
<1>6. CASE acquire_cli(c) \/ acquire_xchg(c) \/ release_unlock(c) \/ release_popcli(c)
  BY <1>6, LockSteps
<1>7. CASE sti(c) \/ iret(c) \/ sched_intena(c)
  BY <1>7, FlagSteps
<1>8. CASE timer(c) \/ ide(c) \/ syscall(c)
  BY <1>8, InterruptLists, CalledLists
<1> QED BY <1>1, <1>2, <1>3, <1>4, <1>5, <1>6, <1>7, <1>8 DEF Step

LEMMA StillLists ==
  ASSUME Safe, UNCHANGED vars
  PROVE  ListInv' /\ TrapInv'
<1>1. cpu' = cpu /\ todo' = todo /\ kern' = kern /\ proc' = proc
  BY DEF vars
<1>2. \A t : Code(t)' = Code(t)
  BY <1>1 DEF Code
<1>3. \A c : Todo(c)' = Todo(c) /\ Now(c)' = Now(c)
  BY <1>1 DEF Todo, Now
<1>4. ListInv'
  BY <1>1, <1>2 DEF Safe, ListInv, SmoothInv, Blocks, Idle
<1>5. TrapInv'
  BY <1>1, <1>3 DEF Safe, TrapInv, Closed, Returns, Idle
<1> QED BY <1>4, <1>5

\* Until there is a panic.
SafeInv == ~ panic => Safe

\* The inductive invariant of the interrupts: what a thread still has to do in the kernel is
\* in an order in which a handler turns nothing on before its end, and popcli, whichever
\* thread it ends in, leaves off what the gate has turned off.
THEOREM MachineSafe == Spec => []SafeInv
<1>1. Init => SafeInv
  BY InitSafe DEF SafeInv
<1>2. SafeInv /\ [Next]_vars => SafeInv'
  <2> SUFFICES ASSUME SafeInv, [Next]_vars, ~ panic' PROVE Core' /\ ListInv' /\ TrapInv'
    BY DEF SafeInv, Safe
  <2>1. CASE Next
    <3>1. PICK c \in Apics : Safe /\ Step(c)
      BY <2>1 DEF Next, SafeInv
    <3>2. Core'
      BY <3>1, StepCore DEF Safe
    <3> QED BY <3>1, <3>2, StepLists
  <2>2. CASE UNCHANGED vars
    <3>1. ~ panic
      BY <2>2 DEF vars
    <3>2. Safe
      BY <3>1 DEF SafeInv
    <3> QED BY <2>2, <3>2, StillCore, StillLists DEF Safe
  <2> QED BY <2>1, <2>2
<1> QED BY <1>1, <1>2, PTL DEF Spec

\* No interrupt comes to a processor that holds a lock or handles another interrupt, they
\* are on in user mode, and no two processors spin for one another's locks (trap.c, the gates
\* of the IDT, spinlock.c; intena of sched and of struct cpu).
THEOREM MachineIntrOff == Spec => []IntrOff
<1>1. SafeInv => IntrOff
  <2> SUFFICES ASSUME Safe, NEW c \in Apics
               PROVE  /\ cpu[c].IF => cpu[c].ncli = 0 /\ On("iret", 1) \notin ToSet(Todo(c))
                      /\ cpu[c].run # 0 /\ Todo(c) = <<>> => cpu[c].IF
                      /\ \A d \in Apics : ~ (Awaits(c, d) /\ Awaits(d, c))
    BY DEF SafeInv, IntrOff
  <2>1. Core /\ Sane(c) /\ Closed(c)
    BY DEF Safe, Core, SaneInv, TrapInv
  <2>2. ASSUME cpu[c].IF PROVE cpu[c].ncli = 0 /\ Irq \notin ToSet(Todo(c))
    BY <2>1, <2>2 DEF Sane, Closed, InTrap, ToSet
  <2>3. cpu[c].run # 0 /\ Todo(c) = <<>> => cpu[c].IF
    BY <2>1 DEF Closed
  <2>4. ASSUME NEW d \in Apics, Awaits(c, d), Awaits(d, c) PROVE FALSE
    <3>1. Spins(c) /\ Spins(d) /\ lock[cpu[c].lk] = d /\ lock[cpu[d].lk] = c
      BY <2>4 DEF Awaits
    <3>2. PICK l \in Locks, m \in Locks : /\ l = cpu[c].lk /\ Mine(c) \subseteq Below(l)
                                          /\ m = cpu[d].lk /\ Mine(d) \subseteq Below(m)
      BY <2>1, <3>1, SpinsBelow
    <3>3. m \in Below(l) /\ l \in Below(m)
      BY <3>1, <3>2 DEF Mine
    <3> QED BY <3>3 DEF Below
  <2> QED BY <2>2, <2>3, <2>4 DEF Irq
<1> QED BY <1>1, MachineSafe, PTL

----------------------------------------------------------------------------
(* What is in a list, wherever it is there.                                *)

LEMMA SetIs ==
  ASSUME NEW V, NEW s \in Seq(V)
  PROVE  /\ \A x : x \in ToSet(s) <=> \E a \in 1 .. Len(s) : x = s[a]
         /\ ToSet(s) \subseteq V
<1>1. DOMAIN s = 1 .. Len(s) /\ \A a \in 1 .. Len(s) : s[a] \in V
  BY LenProperties, ElementOfSeq
<1> QED BY <1>1 DEF ToSet

LEMMA SetNil == \A x : x \notin ToSet(<<>>)
  BY DEF ToSet

LEMMA SetConcat ==
  ASSUME NEW V, NEW s \in Seq(V), NEW r \in Seq(V), NEW S, S = s \o r
  PROVE  \A x : x \in ToSet(S) <=> x \in ToSet(s) \/ x \in ToSet(r)
<1>1. PICK m \in Nat, n \in Nat : m = Len(s) /\ n = Len(r)
  BY LenProperties
<1>2. S \in Seq(V) /\ Len(S) = m + n /\ (\A a \in 1 .. m : S[a] = s[a]) /\ \A b \in 1 .. n : S[m + b] = r[b]
  BY <1>1, ConcatIs
<1>3. ASSUME NEW x \in ToSet(S) PROVE x \in ToSet(s) \/ x \in ToSet(r)
  <2>1. PICK w \in Seq(V) : w = S
    BY <1>2
  <2>2. x \in ToSet(w)
    BY <1>3, <2>1
  <2>3. \E a \in 1 .. Len(w) : x = w[a]
    BY <2>2, SetIs
  <2>4. \E a \in 1 .. Len(S) : x = S[a]
    BY <2>3, <2>1
  <2>5. PICK a \in 1 .. m + n : x = S[a]
    BY <1>2, <2>4
  <2>6. a \in 1 .. m \/ (a - m \in 1 .. n /\ m + (a - m) = a)
    BY Places
  <2>7. (\E e \in 1 .. m : x = s[e]) \/ \E e \in 1 .. n : x = r[e]
    BY <1>2, <2>5, <2>6
  <2> QED BY <1>1, <2>7, SetIs
<1>4. ASSUME NEW x \in ToSet(s) PROVE x \in ToSet(S)
  <2>1. PICK a \in 1 .. m : x = s[a]
    BY <1>1, <1>4, SetIs
  <2>2. a \in 1 .. m + n
    OBVIOUS
  <2> QED BY <1>2, <2>1, <2>2, SetIs
<1>5. ASSUME NEW x \in ToSet(r) PROVE x \in ToSet(S)
  <2>1. PICK b \in 1 .. n : x = r[b]
    BY <1>1, <1>5, SetIs
  <2>2. m + b \in 1 .. m + n
    OBVIOUS
  <2> QED BY <1>2, <2>1, <2>2, SetIs
<1> QED BY <1>3, <1>4, <1>5

LEMMA SetHead ==
  ASSUME NEW V, NEW s \in Seq(V), s # <<>>
  PROVE  \A x : x \in ToSet(s) <=> x = Head(s) \/ x \in ToSet(Tail(s))
<1>1. PICK n \in Nat : Len(s) = n + 1 /\ Tail(s) \in Seq(V) /\ Len(Tail(s)) = n /\ Head(s) = s[1]
                       /\ \A b \in 1 .. n : Tail(s)[b] = s[b + 1]
  <2>1. Len(s) \in Nat \ {0} /\ Tail(s) \in Seq(V) /\ Len(Tail(s)) = Len(s) - 1 /\ Head(s) = s[1]
        /\ \A b \in 1 .. Len(Tail(s)) : Tail(s)[b] = s[b + 1]
    BY HeadTailProperties, EmptySeq
  <2>2. PICK l \in Nat : l = Len(s) /\ l # 0
    BY <2>1
  <2>3. PICK n \in Nat : n = l - 1 /\ l = n + 1
    <3>1. l - 1 \in Nat /\ l = (l - 1) + 1
      BY <2>2
    <3> QED BY <3>1
  <2> QED BY <2>1, <2>2, <2>3
<1>2. ASSUME NEW x \in ToSet(s) PROVE x = Head(s) \/ x \in ToSet(Tail(s))
  <2>1. PICK a \in 1 .. n + 1 : x = s[a]
    BY <1>1, <1>2, SetIs
  <2>2. a = 1 \/ (a - 1 \in 1 .. n /\ (a - 1) + 1 = a)
    OBVIOUS
  <2>3. a = 1 \/ \E b \in 1 .. n : x = Tail(s)[b]
    BY <1>1, <2>1, <2>2
  <2> QED BY <1>1, <2>1, <2>3, SetIs
<1>3. Head(s) \in ToSet(s)
  <2>1. 1 \in 1 .. n + 1
    OBVIOUS
  <2> QED BY <1>1, <2>1, SetIs
<1>4. ASSUME NEW x \in ToSet(Tail(s)) PROVE x \in ToSet(s)
  <2>1. PICK w \in Seq(V) : w = Tail(s)
    BY <1>1
  <2>2. x \in ToSet(w)
    BY <1>4, <2>1
  <2>3. \E b \in 1 .. Len(w) : x = w[b]
    BY <2>2, SetIs
  <2>4. \E b \in 1 .. Len(Tail(s)) : x = Tail(s)[b]
    BY <2>3, <2>1
  <2>5. PICK b \in 1 .. n : x = Tail(s)[b]
    BY <1>1, <2>4
  <2>6. b + 1 \in 1 .. n + 1
    OBVIOUS
  <2> QED BY <1>1, <2>5, <2>6, SetIs
<1> QED BY <1>2, <1>3, <1>4

\* What comes behind the first.
LEMMA Behind ==
  ASSUME NEW V, NEW s \in Seq(V), s # <<>>, Smooth(s), NEW x \in ToSet(Tail(s))
  PROVE  ~ Rough(Head(s), x)
<1>1. Tail(s) \in Seq(V) /\ \A b \in 1 .. Len(Tail(s)) : ~ Rough(Head(s), Tail(s)[b])
  BY SmoothTail, HeadTailProperties
<1>2. PICK b \in 1 .. Len(Tail(s)) : x = Tail(s)[b]
  BY <1>1, SetIs
<1> QED BY <1>1, <1>2

----------------------------------------------------------------------------
(* What a step takes from the lists, and what it puts there.               *)

\* A process that neither sleeps nor is about to.
Wakeful(p) == proc[p].state # "SLEEPING" /\ \A x \in ToSet(kern[p]) : x.op \notin {"block", "await"}

Rousing == {"wakeup1", "ideintr", "idestart"}

\* Of what matters for a wakeup, processor c takes what is in out, and puts what is in in.
Flow(c, out, in) ==
  /\ \A d \in Apics : \A x \in ToSet(Todo(d)) : x.op \in Rousing => x \in ToSet(Todo(d)') \/ (d = c /\ x \in out)
  /\ \A p \in Procs : \A x \in ToSet(kern'[p]) :
       x.op \in {"block", "await"} => x \in ToSet(kern[p]) \/ (p = cpu[c].run /\ x \in in)
  /\ \A p \in Procs : \A x \in ToSet(kern[p]) :
       x.op \in {"doze", "request"} => x \in ToSet(kern'[p]) \/ (p = cpu[c].run /\ x \in out) \/ Wakeful(p)'
  /\ \A x \in in : x \in ToSet(Todo(c)')
  /\ cpu[c].run # 0 => \A x \in in : x \in ToSet(kern'[cpu[c].run])

\* The thread of c has S to do then, and u may be a new one.
Turned(c, S, u, U) ==
  /\ \A r \in Threads : Code(r)' = IF r = Running(c) THEN S ELSE IF r = u THEN U ELSE Code(r)
  /\ \A d \in Apics : cpu'[d].run = cpu[d].run
  /\ u # Running(c) => \/ \E q \in Procs : u = <<"proc", q>> /\ Idle(q) /\ U = forkret /\ proc'[q].state = "EMBRYO"
                       \/ \E d \in Apics \ {c} : u = <<"cpu", d>> /\ cpu[d].run = 0 /\ todo[d] = <<>>

LEMMA ForkretIs ==
  \A x \in ToSet(forkret) : x.op \notin {"block", "await"}
<1>1. PICK X : X = {"acquire", "release", "forkret", "iret"}
  OBVIOUS
<1>2. {"acquire", "release"} \subseteq X /\ {"forkret", "iret"} \subseteq X
  BY <1>1
<1>3. forkret \in Seq(Instructions(X))
  BY <1>2, GoodSmall DEF Good
<1>4. \A x \in ToSet(forkret) : x.op \in X
  <2>1. \A a \in 1 .. Len(forkret) : forkret[a].op \in X
    BY <1>3, OpsAre
  <2> QED BY <1>3, <2>1, SetIs
<1> QED BY <1>1, <1>4

LEMMA FlowTo ==
  ASSUME Core, NEW c \in Apics, NEW S, NEW u, NEW U, Turned(c, S, u, U), NEW out, NEW in,
         \A x \in ToSet(Todo(c)) : x \in ToSet(S) \/ x \in out,
         \A x \in ToSet(S) : x \in ToSet(Todo(c)) \/ x \in in,
         \A x \in in : x \in ToSet(S)
  PROVE  Flow(c, out, in)
<1>1. DataTypes /\ CodeTypes /\ RunInv
  BY DEF Core
<1>2. ASSUME NEW d \in Apics, NEW t, t = Running(d)
      PROVE  t \in Threads /\ Todo(d)' = Code(t)' /\ Code(t) = Todo(d)
  <2>1. cpu'[d].run = cpu[d].run
    BY DEF Turned
  <2>2. /\ t \in Threads /\ Code(t) = Todo(d)
        /\ cpu[d].run = 0 => t = <<"cpu", d>>
        /\ cpu[d].run # 0 => cpu[d].run \in Procs /\ t = <<"proc", cpu[d].run>>
    BY <1>1, <1>2, Runs
  <2>3. Todo(d)' = Code(t)'
    <3>1. CASE cpu[d].run = 0
      <4>1. Todo(d)' = todo'[d]
        BY <2>1, <3>1 DEF Todo
      <4> QED BY <2>2, <3>1, <4>1, Names
    <3>2. CASE cpu[d].run # 0
      <4>1. Todo(d)' = kern'[cpu[d].run]
        BY <2>1, <3>2 DEF Todo
      <4> QED BY <2>2, <3>2, <4>1, Names
    <3> QED BY <3>1, <3>2
  <2> QED BY <2>2, <2>3
<1>3. PICK t : t = Running(c) /\ t \in Threads /\ Code(t) = Todo(c) /\ Todo(c)' = S /\ Code(t)' = S
  <2>1. PICK t : t = Running(c)
    OBVIOUS
  <2>2. t \in Threads /\ Todo(c)' = Code(t)' /\ Code(t) = Todo(c)
    BY <1>2, <2>1
  <2> QED BY <2>1, <2>2 DEF Turned
<1>4. ASSUME NEW d \in Apics, d # c PROVE Todo(d)' = Todo(d) \/ Todo(d) = <<>>
  <2>1. PICK r : r = Running(d)
    OBVIOUS
  <2>2. r # Running(c) /\ r \in Threads /\ Todo(d)' = Code(r)' /\ Code(r) = Todo(d)
    BY <1>1, <1>2, <1>4, <2>1, Apart
  <2>3. CASE r # u
    BY <2>2, <2>3 DEF Turned
  <2>4. CASE r = u
    <3>1. \/ \E q \in Procs : r = <<"proc", q>> /\ Idle(q)
          \/ \E e \in Apics \ {c} : r = <<"cpu", e>> /\ cpu[e].run = 0 /\ todo[e] = <<>>
      BY <2>2, <2>4 DEF Turned
    <3>2. ASSUME NEW q \in Procs, r = <<"proc", q>>, Idle(q) PROVE FALSE
      <4>1. cpu[d].run = q
        BY <2>1, <3>2 DEF Running
      <4> QED BY <3>2, <4>1 DEF Idle
    <3>3. PICK e \in Apics \ {c} : r = <<"cpu", e>> /\ cpu[e].run = 0 /\ todo[e] = <<>>
      BY <3>1, <3>2
    <3>4. e = d
      BY <2>1, <3>3 DEF Running
    <3> QED BY <3>3, <3>4 DEF Todo
  <2> QED BY <2>3, <2>4
<1>5. ASSUME NEW p \in Procs
      PROVE  \/ p = cpu[c].run /\ kern[p] = Todo(c) /\ kern'[p] = S
             \/ p # cpu[c].run /\ kern'[p] = kern[p]
             \/ p # cpu[c].run /\ kern'[p] = forkret /\ proc'[p].state = "EMBRYO"
  <2>1. PICK r \in Threads : r = <<"proc", p>> /\ Code(r) = kern[p] /\ Code(r)' = kern'[p]
    BY Names
  <2>2. r = t <=> p = cpu[c].run
    <3>1. p # 0
      BY DEF Procs
    <3>2. cpu[c].run = 0 => t = <<"cpu", c>>
      BY <1>3 DEF Running
    <3>3. cpu[c].run # 0 => t = <<"proc", cpu[c].run>>
      BY <1>3 DEF Running
    <3> QED BY <2>1, <3>1, <3>2, <3>3
  <2>3. CASE r = t
    BY <1>3, <2>1, <2>2, <2>3
  <2>4. CASE r # t /\ r # u
    BY <1>3, <2>1, <2>2, <2>4 DEF Turned
  <2>5. CASE r # t /\ r = u
    <3>1. Code(r)' = U
      BY <1>3, <2>5 DEF Turned
    <3>2. \/ \E q \in Procs : r = <<"proc", q>> /\ U = forkret /\ proc'[q].state = "EMBRYO"
          \/ \E e \in Apics \ {c} : r = <<"cpu", e>>
      BY <1>3, <2>5 DEF Turned
    <3>3. U = forkret /\ proc'[p].state = "EMBRYO"
      BY <2>1, <3>2
    <3> QED BY <2>1, <2>2, <2>5, <3>1, <3>3
  <2> QED BY <2>3, <2>4, <2>5
<1>6. ASSUME NEW d \in Apics, NEW x \in ToSet(Todo(d)) PROVE x \in ToSet(Todo(d)') \/ (d = c /\ x \in out)
  <2>1. CASE d = c
    BY <1>3, <1>6, <2>1
  <2>2. CASE d # c
    <3>1. Todo(d) # <<>>
      BY <1>6, SetNil
    <3> QED BY <1>4, <1>6, <2>2, <3>1
  <2> QED BY <2>1, <2>2
<1>7. ASSUME NEW p \in Procs, NEW x \in ToSet(kern'[p]), x.op \in {"block", "await"}
      PROVE  x \in ToSet(kern[p]) \/ (p = cpu[c].run /\ x \in in)
  BY <1>5, <1>7, ForkretIs
<1>8. ASSUME NEW p \in Procs, NEW x \in ToSet(kern[p])
      PROVE  x \in ToSet(kern'[p]) \/ (p = cpu[c].run /\ x \in out) \/ Wakeful(p)'
  <2>1. CASE kern'[p] = forkret /\ proc'[p].state = "EMBRYO"
    <3>1. \A y \in ToSet(kern'[p]) : y.op \notin {"block", "await"}
      BY <2>1, ForkretIs
    <3> QED BY <2>1, <3>1 DEF Wakeful
  <2>2. CASE ~ (kern'[p] = forkret /\ proc'[p].state = "EMBRYO")
    BY <1>5, <1>8, <2>2
  <2> QED BY <2>1, <2>2
<1>9. cpu[c].run # 0 => kern'[cpu[c].run] = S
  <2>1. cpu[c].run # 0 => cpu[c].run \in Procs
    BY <1>1, Runs
  <2> QED BY <1>5, <2>1
<1> QED BY <1>3, <1>6, <1>7, <1>8, <1>9 DEF Flow

\* Code in place of what is done.
LEMMA FlowThen ==
  ASSUME Core, NEW c \in Apics, Todo(c) # <<>>, NEW code, Then(c, code), \E X : code \in Seq(Instructions(X)),
         \A d \in Apics : cpu'[d].run = cpu[d].run, NEW out, NEW in, out = {Now(c)}, in = ToSet(code)
  PROVE  Flow(c, out, in)
<1>1. PICK s, u, S : s = Todo(c) /\ u = Running(c) /\ S = code \o Tail(s)
  OBVIOUS
<1>2. Goto(c, S)
  BY <1>1 DEF Then
<1>3. Turned(c, S, u, S)
  BY <1>1, <1>2, GoesTo DEF Turned, Core
<1>4. PICK V : s \in Seq(V) /\ code \in Seq(V)
  <2>1. s \in Seq(Instructions(OpsOf(u)))
    BY <1>1, Runs DEF Core
  <2> QED BY <2>1, Together
<1>5. PICK r \in Seq(V) : r = Tail(s)
  BY <1>1, <1>4, HeadTailProperties
<1>6. \A x : x \in ToSet(s) <=> x = Now(c) \/ x \in ToSet(r)
  BY <1>1, <1>4, <1>5, SetHead DEF Now
<1>7. \A x : x \in ToSet(S) <=> x \in ToSet(code) \/ x \in ToSet(r)
  BY <1>1, <1>4, <1>5, SetConcat
<1>8. (\A x \in ToSet(Todo(c)) : x \in ToSet(S) \/ x \in out) /\ (\A x \in ToSet(S) : x \in ToSet(Todo(c)) \/ x \in in)
      /\ \A x \in in : x \in ToSet(S)
  BY <1>1, <1>6, <1>7
<1> QED BY <1>3, <1>8, FlowTo

\* Code in front of what there is.
LEMMA FlowFront ==
  ASSUME Core, NEW c \in Apics, NEW code, Goto(c, code \o Todo(c)), \E X : code \in Seq(Instructions(X)),
         \A d \in Apics : cpu'[d].run = cpu[d].run, NEW out, NEW in, out = {}, in = ToSet(code)
  PROVE  Flow(c, out, in)
<1>1. PICK s, u, S : s = Todo(c) /\ u = Running(c) /\ S = code \o s
  OBVIOUS
<1>2. Turned(c, S, u, S)
  BY <1>1, GoesTo DEF Turned, Core
<1>3. PICK V : s \in Seq(V) /\ code \in Seq(V)
  <2>1. s \in Seq(Instructions(OpsOf(u)))
    BY <1>1, Runs DEF Core
  <2> QED BY <2>1, Together
<1>4. \A x : x \in ToSet(S) <=> x \in ToSet(code) \/ x \in ToSet(s)
  BY <1>1, <1>3, SetConcat
<1>5. (\A x \in ToSet(Todo(c)) : x \in ToSet(S) \/ x \in out) /\ (\A x \in ToSet(S) : x \in ToSet(Todo(c)) \/ x \in in)
      /\ \A x \in in : x \in ToSet(S)
  BY <1>1, <1>4
<1> QED BY <1>2, <1>5, FlowTo

\* No list is touched.
LEMMA FlowStill ==
  ASSUME NEW c \in Apics, UNCHANGED <<todo, kern>>, \A d \in Apics : cpu'[d].run = cpu[d].run,
         NEW out, NEW in, in = {}
  PROVE  Flow(c, out, in)
<1>1. \A d \in Apics : Todo(d)' = Todo(d)
  BY DEF Todo
<1> QED BY <1>1 DEF Flow

\* Another thread gets code of its own.
LEMMA FlowSpawn ==
  ASSUME Core, NEW c \in Apics, NEW op, NEW code, NEW u, NEW U, Spawns(c, op, code, u, U),
         NEW out, NEW in, out = {Now(c)}, in = ToSet(code)
  PROVE  Flow(c, out, in)
<1>1. PICK s, S : s = Todo(c) /\ S = code \o Tail(s)
  OBVIOUS
<1>2. Todo(c) # <<>> /\ cpu' = cpu /\ \E X : code \in Seq(Instructions(X))
  BY DEF Spawns, Doing, Quiet
<1>3. Turned(c, S, u, U)
  BY <1>1, <1>2 DEF Turned, Spawns
<1>4. PICK V : s \in Seq(V) /\ code \in Seq(V)
  <2>1. s \in Seq(Instructions(OpsOf(Running(c))))
    BY <1>1, Runs DEF Core
  <2> QED BY <1>2, <2>1, Together
<1>5. PICK r \in Seq(V) : r = Tail(s)
  BY <1>1, <1>2, <1>4, HeadTailProperties
<1>6. \A x : x \in ToSet(s) <=> x = Now(c) \/ x \in ToSet(r)
  BY <1>1, <1>2, <1>4, <1>5, SetHead DEF Now
<1>7. \A x : x \in ToSet(S) <=> x \in ToSet(code) \/ x \in ToSet(r)
  BY <1>1, <1>4, <1>5, SetConcat
<1>8. (\A x \in ToSet(Todo(c)) : x \in ToSet(S) \/ x \in out) /\ (\A x \in ToSet(S) : x \in ToSet(Todo(c)) \/ x \in in)
      /\ \A x \in in : x \in ToSet(S)
  BY <1>1, <1>6, <1>7
<1> QED BY <1>3, <1>8, FlowTo

\* Behind what gives the processor to another thread nobody is woken.
LEMMA FlowSched ==
  ASSUME Safe, NEW c \in Apics, sched(c), NEW out, NEW in, out = {Now(c)}, in = {}
  PROVE  Flow(c, out, in)
<1>1. PICK op : op = "sched" /\ Doing(c, op)
  BY DEF sched
<1>2. Todo(c) # <<>> /\ Now(c).op = op
  BY <1>1 DEF Doing
<1>3. PICK p \in Procs : p = cpu[c].run /\ p = Me(c) /\ p # 0
  <2>1. op \notin CpuOps \cup BootOps /\ op # "back"
    BY <1>1 DEF CpuOps, BootOps
  <2> QED BY <1>1, <2>1, OfTheProcess DEF Safe
<1>4. PICK s, V : s = kern[p] /\ s = Todo(c) /\ s \in Seq(V)
  BY <1>3, Runs DEF Safe, Core
<1>5. Smooth(s)
  <2>1. Code(<<"proc", p>>) = s /\ <<"proc", p>> \in Threads
    BY <1>4, Names
  <2> QED BY <2>1 DEF Safe, ListInv, SmoothInv
<1>6. PICK r \in Seq(V) : r = Tail(s)
  BY <1>2, <1>4, HeadTailProperties
<1>7. \A x : x \in ToSet(s) <=> x = Now(c) \/ x \in ToSet(r)
  BY <1>2, <1>4, <1>6, SetHead DEF Now
<1>8. \A x \in ToSet(r) : x.op \notin Rousing
  <2> SUFFICES ASSUME NEW x \in ToSet(r) PROVE x.op \notin Rousing
    OBVIOUS
  <2>1. ~ Rough(Now(c), x)
    BY <1>2, <1>4, <1>5, <1>6, Behind DEF Now
  <2> QED BY <1>1, <1>2, <2>1 DEF Rough, Rousing
<1>9. DOMAIN kern = Procs /\ DOMAIN cpu = Apics /\ "run" \in DOMAIN cpu[c]
  BY DEF Safe, Core, DataTypes, CpuType
<1>10. PICK i, S : i = Do("intena") /\ i.op = "intena" /\ S = Kept \o r
  BY FieldsOn DEF Do
<1>11. cpu' = [cpu EXCEPT ![c].run = 0] /\ Then(c, Kept)
  BY DEF sched
<1>12. kern' = [kern EXCEPT ![p] = S] /\ todo' = todo
  BY <1>3, <1>4, <1>6, <1>10, <1>11 DEF Then, Goto
<1>13. kern'[p] = S /\ \A q \in Procs \ {p} : kern'[q] = kern[q]
  BY <1>9, <1>12
<1>14. \A x : x \in ToSet(S) <=> x = i \/ x \in ToSet(r)
  <2>1. PICK T : <<i>> \in Seq(T) /\ r \in Seq(T)
    <3>1. PICK T : T = V \cup {i}
      OBVIOUS
    <3> QED BY <3>1
  <2>2. \A x : x \in ToSet(<<i>>) <=> x = i
    BY DEF ToSet
  <2>3. S = <<i>> \o r
    BY <1>10 DEF Kept
  <2> QED BY <2>1, <2>2, <2>3, SetConcat
<1>15. ASSUME NEW d \in Apics, NEW x \in ToSet(Todo(d)), x.op \in Rousing PROVE x \in ToSet(Todo(d)') \/ (d = c /\ x \in out)
  <2>1. CASE d = c
    <3>1. x = Now(c)
      BY <1>4, <1>7, <1>8, <1>15, <2>1
    <3> QED BY <2>1, <3>1
  <2>2. CASE d # c
    <3>1. cpu'[d] = cpu[d] /\ cpu[d].run # p
      BY <1>3, <1>9, <1>11, <2>2 DEF Safe, Core, RunInv
    <3>2. cpu[d].run \in Procs \cup {0}
      BY DEF Safe, Core, DataTypes, CpuType
    <3>3. Todo(d)' = Todo(d)
      BY <1>12, <1>13, <3>1, <3>2 DEF Todo
    <3> QED BY <1>15, <3>3
  <2> QED BY <2>1, <2>2
<1>16. \A q \in Procs : \A x \in ToSet(kern'[q]) : x.op \in {"block", "await"} => x \in ToSet(kern[q])
  BY <1>4, <1>7, <1>10, <1>13, <1>14
<1>17. \A q \in Procs : \A x \in ToSet(kern[q]) : x.op \in {"doze", "request"} => x \in ToSet(kern'[q])
  BY <1>1, <1>2, <1>4, <1>7, <1>13, <1>14
<1> QED BY <1>15, <1>16, <1>17 DEF Flow

LEMMA FlowSwitch ==
  ASSUME Safe, NEW c \in Apics, scan(c), cpu' # cpu, NEW out, NEW in, out = {Now(c)}, in = {}
  PROVE  Flow(c, out, in)
<1>1. PICK op : op = "scan" /\ Doing(c, op)
  BY DEF scan
<1>2. cpu[c].run = 0 /\ Todo(c) = todo[c] /\ Todo(c) # <<>> /\ Now(c).op = op
  BY <1>1, Scanning DEF Safe
<1>3. PICK s, V : s = Todo(c) /\ s \in Seq(V) /\ Smooth(s)
  BY Runs DEF Safe, Core, ListInv, SmoothInv
<1>4. PICK r \in Seq(V) : r = Tail(s)
  BY <1>2, <1>3, HeadTailProperties
<1>5. \A x : x \in ToSet(s) <=> x = Now(c) \/ x \in ToSet(r)
  BY <1>2, <1>3, <1>4, SetHead DEF Now
<1>6. \A x \in ToSet(r) : x.op \notin Rousing
  <2> SUFFICES ASSUME NEW x \in ToSet(r) PROVE x.op \notin Rousing
    OBVIOUS
  <2>1. ~ Rough(Now(c), x)
    BY <1>2, <1>3, <1>4, Behind DEF Now
  <2> QED BY <1>1, <1>2, <2>1 DEF Rough, Rousing
<1>7. DOMAIN todo = Apics /\ DOMAIN cpu = Apics
  BY DEF Safe, Core, DataTypes
<1>8. (\A d \in Apics \ {c} : cpu'[d] = cpu[d] /\ todo'[d] = todo[d]) /\ kern' = kern
  <2>1. PICK q, code : cpu' = [cpu EXCEPT ![c] = [switchuvm(@, q) EXCEPT !.proc = q, !.run = q]] /\ Then(c, code)
    BY DEF scan
  <2>2. PICK S : todo' = [todo EXCEPT ![c] = S] /\ kern' = kern
    BY <1>2, <2>1 DEF Then, Goto
  <2> QED BY <1>7, <2>1, <2>2
<1>9. ASSUME NEW d \in Apics, NEW x \in ToSet(Todo(d)), x.op \in Rousing PROVE x \in ToSet(Todo(d)') \/ (d = c /\ x \in out)
  <2>1. CASE d = c
    BY <1>3, <1>5, <1>6, <1>9, <2>1
  <2>2. CASE d # c
    BY <1>8, <1>9, <2>2 DEF Todo
  <2> QED BY <2>1, <2>2
<1> QED BY <1>2, <1>8, <1>9 DEF Flow

----------------------------------------------------------------------------
(* The parts of the invariant, one by one.                                 *)

\* Nobody falls asleep, is killed or dies, and only init may get itself for a parent; and
\* who has a lock keeps it.
TableKept ==
  \A p \in Procs :
    /\ proc'[p].state = "SLEEPING" => proc[p].state = "SLEEPING" /\ proc'[p].chan = proc[p].chan
    /\ proc'[p].killed => proc[p].killed
    /\ proc'[p].state = "ZOMBIE" => proc[p].state = "ZOMBIE" /\ proc'[p].parent = proc[p].parent
    /\ proc'[p].parent = p => proc[p].parent = p \/ p = initproc
LocksKept == \A l \in Locks, d \in Apics : lock[l] = d => lock'[l] = d

LEMMA SleepsBack ==
  ASSUME NEW c, NEW out, NEW in, Flow(c, out, in), TableKept, NEW p \in Procs, NEW n,
         p = cpu[c].run => \A x \in in : ~ (x.op = "block" /\ x.n = n), Sleeps(p, n)'
  PROVE  Sleeps(p, n)
<1>1. CASE proc'[p].state = "SLEEPING" /\ proc'[p].chan = n
  BY <1>1 DEF TableKept, Sleeps
<1>2. CASE \E i \in ToSet(kern'[p]) : i.op = "block" /\ i.n = n
  <2>1. PICK i \in ToSet(kern'[p]) : i.op = "block" /\ i.n = n
    BY <1>2
  <2>2. i \in ToSet(kern[p]) \/ (p = cpu[c].run /\ i \in in)
    BY <2>1 DEF Flow
  <2> QED BY <2>1, <2>2 DEF Sleeps
<1> QED BY <1>1, <1>2 DEF Sleeps

LEMMA WakingOn ==
  ASSUME NEW c, NEW out, NEW in, Flow(c, out, in), LocksKept, NEW l \in Locks, NEW n,
         On("wakeup1", n) \notin out, Waking(l, n)
  PROVE  Waking(l, n)'
<1>1. PICK d \in Apics : \E i : i = On("wakeup1", n) /\ lock[l] = d /\ i \in ToSet(Todo(d))
  BY DEF Waking
<1>2. PICK i : i = On("wakeup1", n) /\ lock[l] = d /\ i \in ToSet(Todo(d))
  BY <1>1
<1>3. i.op \in Rousing
  BY <1>2, FieldsOn DEF Rousing
<1>4. i \in ToSet(Todo(d)') /\ lock'[l] = d
  BY <1>2, <1>3 DEF Flow, LocksKept
<1> QED BY <1>2, <1>4 DEF Waking

LEMMA ServingOn ==
  ASSUME NEW c, NEW out, NEW in, Flow(c, out, in), Do("ideintr") \notin out, Do("idestart") \notin out, Serving
  PROVE  Serving'
<1>1. PICK d \in Apics : \E i \in {Do("ideintr"), Do("idestart")} : i \in ToSet(Todo(d))
  BY DEF Serving
<1>2. PICK i \in {Do("ideintr"), Do("idestart")} : i \in ToSet(Todo(d))
  BY <1>1
<1>3. i.op \in Rousing
  BY <1>2, FieldsOn DEF Rousing, Do
<1>4. i \in ToSet(Todo(d)')
  BY <1>2, <1>3 DEF Flow
<1> QED BY <1>2, <1>4 DEF Serving

\* A process that is not asleep, and not about to be.
LEMMA DueOn ==
  ASSUME NEW c, NEW out, NEW in, Flow(c, out, in), NEW p \in Procs, ticks' = ticks,
         p = cpu[c].run => \A x \in out : x.op # "doze", Due(p)
  PROVE  Due(p)' \/ Wakeful(p)'
<1>1. PICK i \in ToSet(kern[p]) : i.op = "doze" /\ ticks - i.since < i.n
  BY DEF Due
<1>2. i \in ToSet(kern'[p]) \/ Wakeful(p)'
  BY <1>1 DEF Flow
<1> QED BY <1>1, <1>2 DEF Due

LEMMA TimeKept ==
  ASSUME NEW p \in Procs, TimeWakes(p), Sleeps(p, Ticks)' => Sleeps(p, Ticks), Due(p) => Due(p)' \/ Wakeful(p)',
         Waking("tickslock", Ticks) => Waking("tickslock", Ticks)'
  PROVE  TimeWakes(p)'
<1> SUFFICES ASSUME Sleeps(p, Ticks)' PROVE Due(p)' \/ Waking("tickslock", Ticks)'
  BY DEF TimeWakes, Ticks
<1>1. ~ Wakeful(p)'
  BY DEF Wakeful, Sleeps
<1> QED BY <1>1 DEF TimeWakes

LEMMA DiskKept ==
  ASSUME NEW p \in Procs, DiskWakes(p), Sleeps(p, Buffer(p))' => Sleeps(p, Buffer(p)), Queued(p) => Queued(p)',
         Waking("idelock", Buffer(p)) => Waking("idelock", Buffer(p))'
  PROVE  DiskWakes(p)'
BY DEF DiskWakes, Buffer

LEMMA ChildKept ==
  ASSUME NEW p \in Procs, ChildWakes(p), Sleeps(p, p)' => Sleeps(p, p), proc'[p].killed => proc[p].killed,
         \A q \in Procs : proc'[q].state = "ZOMBIE" => proc[q].state = "ZOMBIE" /\ proc'[q].parent = proc[q].parent
  PROVE  ChildWakes(p)'
<1> SUFFICES ASSUME Sleeps(p, p)'
             PROVE  ~ proc'[p].killed /\ \A q \in Procs : proc'[q].parent = p => proc'[q].state # "ZOMBIE"
  BY DEF ChildWakes
<1> QED BY DEF ChildWakes

LEMMA AskKept ==
  ASSUME NEW c, NEW out, NEW in, Flow(c, out, in), NEW p \in Procs, Asked(p),
         Queued(p) \/ p \in disk.done => Queued(p)' \/ p \in disk'.done,
         p = cpu[c].run => \A x \in in : x.op # "await",
         p = cpu[c].run => \A x \in out : x.op # "request"
  PROVE  Asked(p)'
<1> SUFFICES ASSUME NEW i \in ToSet(kern'[p]), i.op = "await"
             PROVE  (\E j \in ToSet(kern'[p]) : j.op = "request") \/ Queued(p)' \/ p \in disk'.done
  BY DEF Asked
<1>1. i \in ToSet(kern[p])
  BY DEF Flow
<1>2. CASE Queued(p) \/ p \in disk.done
  BY <1>2
<1>3. CASE \E j \in ToSet(kern[p]) : j.op = "request"
  <2>1. PICK j \in ToSet(kern[p]) : j.op = "request"
    BY <1>3
  <2>2. ~ Wakeful(p)'
    BY DEF Wakeful
  <2> QED BY <2>1, <2>2 DEF Flow
<1> QED BY <1>1, <1>2, <1>3 DEF Asked

LEMMA SleptKept ==
  ASSUME TableKept, NEW p \in Procs, Slept(p)
  PROVE  Slept(p)'
BY DEF TableKept, Slept, Ticks, Buffer

LEMMA ParentsKept ==
  ASSUME TableKept, Parents
  PROVE  Parents'
BY DEF TableKept, Parents, initproc

\* A step that takes nothing from the lists that a wakeup needs, puts nobody to sleep, and
\* lets nobody wait for a block that he does not ask for.
Hushed(c, out, in) ==
  /\ Flow(c, out, in)
  /\ \A x \in in : x.op # "block" /\ (x.op = "await" => \E y \in in : y.op = "request")
  /\ \A x \in out : x.op \notin {"doze", "request"} \cup Rousing

\* What that leaves to a process.
LEMMA HushedKeeps ==
  ASSUME NEW c, NEW out, NEW in, Flow(c, out, in), TableKept, LocksKept, ticks' = ticks, NEW p \in Procs,
         Slept(p), TimeWakes(p), DiskWakes(p), ChildWakes(p), \A x \in in : x.op # "block",
         \A x \in out : x.op \notin {"doze", "wakeup1"}, Queued(p) => Queued(p)'
  PROVE  (Slept(p) /\ TimeWakes(p) /\ DiskWakes(p) /\ ChildWakes(p))'
<1>1. \A n : On("wakeup1", n) \notin out
  BY FieldsOn
<1>2. (Sleeps(p, Ticks)' => Sleeps(p, Ticks)) /\ (Sleeps(p, Buffer(p))' => Sleeps(p, Buffer(p)))
      /\ (Sleeps(p, p)' => Sleeps(p, p))
  BY SleepsBack DEF Ticks, Buffer
<1>3. Due(p) => Due(p)' \/ Wakeful(p)'
  BY DueOn
<1>4. (Waking("tickslock", Ticks) => Waking("tickslock", Ticks)')
      /\ (Waking("idelock", Buffer(p)) => Waking("idelock", Buffer(p))')
  BY <1>1, WakingOn DEF Locks, Ticks, Buffer
<1>5. proc'[p].killed => proc[p].killed
  BY DEF TableKept
<1>6. \A q \in Procs : proc'[q].state = "ZOMBIE" => proc[q].state = "ZOMBIE" /\ proc'[q].parent = proc[q].parent
  BY DEF TableKept
<1>7. Slept(p)'
  BY SleptKept
<1>8. TimeWakes(p)'
  BY <1>2, <1>3, <1>4, TimeKept
<1>9. DiskWakes(p)'
  BY <1>2, <1>4, DiskKept
<1>10. ChildWakes(p)'
  BY <1>2, <1>5, <1>6, ChildKept
<1> QED BY <1>7, <1>8, <1>9, <1>10

LEMMA HushedWakes ==
  ASSUME WakeInv, NEW c, NEW out, NEW in, Hushed(c, out, in), TableKept, LocksKept, UNCHANGED <<ticks, disk>>
  PROVE  WakeInv'
<1>1. Do("ideintr") \notin out /\ Do("idestart") \notin out
  BY FieldsOn DEF Hushed, Rousing, Do
<1>2. /\ Flow(c, out, in) /\ (\A x \in in : x.op # "block") /\ \A x \in out : x.op \notin {"doze", "request", "wakeup1"}
  BY DEF Hushed, Rousing
<1>3. ASSUME NEW p \in Procs PROVE (Slept(p) /\ TimeWakes(p) /\ DiskWakes(p) /\ ChildWakes(p) /\ Asked(p))'
  <2>1. Slept(p) /\ TimeWakes(p) /\ DiskWakes(p) /\ ChildWakes(p) /\ Asked(p)
    BY DEF WakeInv
  <2>2. Queued(p) => Queued(p)'
    BY DEF Queued
  <2>3. (Slept(p) /\ TimeWakes(p) /\ DiskWakes(p) /\ ChildWakes(p))'
    BY <1>2, <2>1, <2>2, HushedKeeps
  <2>4. Asked(p)'
    <3>1. CASE p = cpu[c].run /\ \E x \in in : x.op = "await"
      <4>1. PICK y \in in : y.op = "request"
        BY <3>1 DEF Hushed
      <4>2. p # 0
        BY DEF Procs
      <4>3. y \in ToSet(kern'[p])
        BY <1>2, <3>1, <4>1, <4>2 DEF Flow
      <4> QED BY <4>1, <4>3 DEF Asked
    <3>2. CASE ~ (p = cpu[c].run /\ \E x \in in : x.op = "await")
      BY <1>2, <2>1, <2>2, <3>2, AskKept
    <3> QED BY <3>1, <3>2
  <2> QED BY <2>3, <2>4
<1>4. Served'
  BY <1>1, <1>2, ServingOn DEF Served, WakeInv
<1>5. Parents'
  BY ParentsKept DEF WakeInv
<1> QED BY <1>3, <1>4, <1>5 DEF WakeInv

----------------------------------------------------------------------------
(* The steps that nobody who sleeps hears of.                              *)

LEMMA SameTable ==
  ASSUME proc' = proc
  PROVE  TableKept
BY DEF TableKept

LEMMA SameLocks ==
  ASSUME lock' = lock
  PROVE  LocksKept
BY DEF LocksKept

LEMMA OneChanged ==
  ASSUME NEW q \in Procs, \A p \in Procs \ {q} : proc'[p] = proc[p], proc'[q].state \notin {"SLEEPING", "ZOMBIE"},
         proc'[q].killed => proc[q].killed, proc'[q].parent = q => proc[q].parent = q \/ q = initproc
  PROVE  TableKept
BY DEF TableKept

LEMMA Passes ==
  ASSUME Safe, WakeInv, NEW c \in Apics, Todo(c) # <<>>, Now(c).op \notin {"doze", "request"} \cup Rousing,
         NEW code, Then(c, code), \E X : code \in Seq(Instructions(X)) /\ X \cap {"block", "await"} = {},
         \A d \in Apics : cpu'[d].run = cpu[d].run, TableKept, LocksKept, UNCHANGED <<ticks, disk>>
  PROVE  WakeInv'
<1>1. PICK out, in : out = {Now(c)} /\ in = ToSet(code)
  OBVIOUS
<1>2. Flow(c, out, in)
  BY <1>1, FlowThen DEF Safe
<1>3. \A x \in in : x.op \notin {"block", "await"}
  <2>1. PICK X : code \in Seq(Instructions(X)) /\ X \cap {"block", "await"} = {}
    OBVIOUS
  <2>2. ToSet(code) \subseteq Instructions(X)
    BY <2>1, SetIs
  <2> QED BY <1>1, <2>1, <2>2 DEF Instructions
<1>4. Hushed(c, out, in)
  BY <1>1, <1>2, <1>3 DEF Hushed
<1> QED BY <1>4, HushedWakes

\* One that has only this to do, and changes neither table nor locks.
LEMMA PassesBy ==
  ASSUME Safe, WakeInv, NEW c \in Apics, NEW op, Doing(c, op), op \notin {"doze", "request"} \cup Rousing,
         Then(c, <<>>), \A d \in Apics : cpu'[d].run = cpu[d].run, UNCHANGED <<proc, lock, ticks, disk>>
  PROVE  WakeInv'
<1>1. Todo(c) # <<>> /\ Now(c).op \notin {"doze", "request"} \cup Rousing
  BY DEF Doing
<1>2. PICK X : X = {}
  OBVIOUS
<1>3. <<>> \in Seq(Instructions(X)) /\ X \cap {"block", "await"} = {}
  BY <1>2
<1> QED BY <1>1, <1>3, Passes, SameTable, SameLocks

LEMMA WakesPlain ==
  ASSUME Safe, WakeInv, NEW c \in Apics,
         sti(c) \/ iret(c) \/ sched_intena(c) \/ kalloc_take(c) \/ kfree_push(c) \/ freerange(c) \/ lapicinit(c)
         \/ consoleinit(c) \/ ideinit(c) \/ use_lock(c) \/ startothers_wait(c) \/ entry(c) \/ idtinit(c)
  PROVE  WakeInv'
<1>1. DOMAIN cpu = Apics /\ "run" \in DOMAIN cpu[c]
  BY DEF Safe, Core, DataTypes, CpuType
<1>2. Then(c, <<>>) /\ UNCHANGED <<proc, lock, ticks, disk>>
  BY DEF sti, iret, sched_intena, kalloc_take, kfree_push, freerange, lapicinit, consoleinit, ideinit, use_lock,
         startothers_wait, entry, idtinit, data
<1>3. \A d \in Apics : cpu'[d].run = cpu[d].run
  <2>1. CASE sti(c) \/ iret(c)
    <3>1. cpu' = [cpu EXCEPT ![c].IF = TRUE]
      BY <2>1 DEF sti, iret
    <3> QED BY <1>1, <3>1
  <2>2. CASE sched_intena(c)
    <3>1. PICK v : cpu' = [cpu EXCEPT ![c].intena = v]
      BY <2>2 DEF sched_intena
    <3> QED BY <1>1, <3>1
  <2>3. CASE lapicinit(c)
    <3>1. cpu' = [cpu EXCEPT ![c].timer = TRUE]
      BY <2>3 DEF lapicinit
    <3> QED BY <1>1, <3>1
  <2>4. CASE entry(c)
    <3>1. PICK v : cpu' = [cpu EXCEPT ![c].stack = v]
      BY <2>4 DEF entry
    <3> QED BY <1>1, <3>1
  <2>5. CASE idtinit(c)
    <3>1. cpu' = [cpu EXCEPT ![c].idt = TRUE]
      BY <2>5 DEF idtinit
    <3> QED BY <1>1, <3>1
  <2>6. CASE kalloc_take(c) \/ kfree_push(c) \/ freerange(c) \/ consoleinit(c) \/ ideinit(c) \/ use_lock(c) \/ startothers_wait(c)
    <3>1. cpu' = cpu
      BY <2>6 DEF kalloc_take, kfree_push, freerange, consoleinit, ideinit, use_lock, startothers_wait
    <3> QED BY <3>1
  <2> QED BY <2>1, <2>2, <2>3, <2>4, <2>5, <2>6
<1>4. PICK op : op \notin {"doze", "request"} \cup Rousing /\ Doing(c, op)
  BY DEF sti, iret, sched_intena, kalloc_take, kfree_push, freerange, lapicinit, consoleinit, ideinit, use_lock,
         startothers_wait, entry, idtinit, Rousing
<1> QED BY <1>2, <1>3, <1>4, PassesBy

LEMMA WakesLock ==
  ASSUME Safe, WakeInv, NEW c \in Apics, acquire_cli(c) \/ acquire_xchg(c) \/ release_popcli(c)
  PROVE  WakeInv'
<1>1. DOMAIN cpu = Apics /\ "run" \in DOMAIN cpu[c] /\ DOMAIN lock = Locks /\ cpu[c].lk \in Locks
  BY DEF Safe, Core, DataTypes, CpuType
<1>2. CASE acquire_cli(c)
  <2>1. UNCHANGED <<todo, kern, proc, lock, ticks, disk>>
    BY <1>2 DEF acquire_cli
  <2>2. \A d \in Apics : cpu'[d].run = cpu[d].run
    <3>1. PICK l : cpu' = [cpu EXCEPT ![c] = [pushcli(@) EXCEPT !.at = "xchg", !.lk = l]]
      BY <1>2 DEF acquire_cli
    <3>2. pushcli(cpu[c]).run = cpu[c].run /\ "run" \in DOMAIN pushcli(cpu[c])
      BY <1>1 DEF pushcli
    <3> QED BY <1>1, <3>1, <3>2
  <2>3. PICK out, in : out = {} /\ in = {}
    OBVIOUS
  <2>4. Hushed(c, out, in)
    BY <2>1, <2>2, <2>3, FlowStill DEF Hushed
  <2> QED BY <2>1, <2>4, HushedWakes, SameTable, SameLocks
<1>3. CASE acquire_xchg(c) \/ release_popcli(c)
  <2>1. Todo(c) # <<>> /\ Now(c).op \in {"acquire", "release"}
    BY <1>3 DEF acquire_xchg, release_popcli, Safe, Core, SaneInv, Sane
  <2>2. Then(c, <<>>) /\ UNCHANGED <<proc, ticks, disk>>
    BY <1>3 DEF acquire_xchg, release_popcli
  <2>3. LocksKept
    <3>1. CASE acquire_xchg(c)
      <4>1. lock[cpu[c].lk] = Nobody /\ lock' = [lock EXCEPT ![cpu[c].lk] = c]
        BY <3>1 DEF acquire_xchg
      <4>2. Nobody \notin Apics
        BY MachineAssumption DEF Nobody
      <4> QED BY <1>1, <4>1, <4>2 DEF LocksKept
    <3>2. CASE release_popcli(c)
      BY <3>2 DEF release_popcli, LocksKept
    <3> QED BY <1>3, <3>1, <3>2
  <2>4. \A d \in Apics : cpu'[d].run = cpu[d].run
    <3>1. CASE acquire_xchg(c)
      <4>1. cpu' = [cpu EXCEPT ![c].at = "run"]
        BY <3>1 DEF acquire_xchg
      <4> QED BY <1>1, <4>1
    <3>2. CASE release_popcli(c)
      <4>1. cpu' = [cpu EXCEPT ![c] = [popcli(@) EXCEPT !.at = "run"]]
        BY <3>2 DEF release_popcli
      <4>2. popcli(cpu[c]).run = cpu[c].run /\ "run" \in DOMAIN popcli(cpu[c])
        BY <1>1 DEF popcli
      <4> QED BY <1>1, <4>1, <4>2
    <3> QED BY <1>3, <3>1, <3>2
  <2>5. PICK X : X = {}
    OBVIOUS
  <2>6. <<>> \in Seq(Instructions(X)) /\ X \cap {"block", "await"} = {}
    BY <2>5
  <2>7. Now(c).op \notin {"doze", "request"} \cup Rousing
    BY <2>1 DEF Rousing
  <2>8. TableKept
    BY <2>2, SameTable
  <2> QED BY <2>1, <2>2, <2>3, <2>4, <2>6, <2>7, <2>8, Passes
<1> QED BY <1>2, <1>3

\* Code without a sleep, in place of what is done.
LEMMA QuietPasses ==
  ASSUME Safe, WakeInv, NEW c \in Apics, NEW op, Doing(c, op), op \notin {"doze", "request"} \cup Rousing, NEW code, Quiet(code),
         Then(c, code), \A d \in Apics : cpu'[d].run = cpu[d].run, TableKept, UNCHANGED <<lock, ticks, disk>>
  PROVE  WakeInv'
<1>1. Todo(c) # <<>> /\ Now(c).op \notin {"doze", "request"} \cup Rousing
  BY DEF Doing
<1>2. PICK X : X \cap RoughOps = {} /\ code \in Seq(Instructions(X))
  BY DEF Quiet
<1>3. X \cap {"block", "await"} = {}
  BY <1>2 DEF RoughOps
<1> QED BY <1>1, <1>2, <1>3, Passes, SameLocks

LEMMA WakesScan ==
  ASSUME Safe, WakeInv, NEW c \in Apics, scan(c)
  PROVE  WakeInv'
<1>1. PICK R, q : /\ R = {e \in Procs : e >= Now(c).n /\ proc[e].state = "RUNNABLE"} /\ q = Min(R)
                  /\ IF R = {} THEN Then(c, <<release("ptable")>> \o scheduler) /\ UNCHANGED <<cpu, proc, panic>>
                     ELSE /\ proc' = [proc EXCEPT ![q].state = "RUNNING"]
                          /\ cpu' = [cpu EXCEPT ![c] = [switchuvm(@, q) EXCEPT !.proc = q, !.run = q]]
  BY DEF scan
<1>2. Doing(c, "scan") /\ UNCHANGED <<lock, ticks, disk>>
  BY DEF scan
<1>3. CASE R = {}
  <2>1. PICK code : code = <<release("ptable")>> \o scheduler /\ Then(c, code)
    BY <1>1, <1>3
  <2>2. PICK X : X = {"acquire", "release", "sti", "scan"}
    OBVIOUS
  <2>3. {"acquire", "release"} \subseteq X /\ {"sti", "scan"} \subseteq X
    BY <2>2
  <2>4. scheduler \in Seq(Instructions(X))
    BY <2>3, GoodSmall DEF Good
  <2>5. <<release("ptable")>> \in Seq(Instructions(X))
    BY <2>3, ReleaseIs, MoreOps DEF Locks
  <2>6. code \in Seq(Instructions(X)) /\ X \cap {"block", "await"} = {}
    BY <2>1, <2>2, <2>4, <2>5
  <2>7. Todo(c) # <<>> /\ Now(c).op \notin {"doze", "request"} \cup Rousing
    BY <1>2 DEF Doing, Rousing
  <2>8. cpu' = cpu /\ TableKept /\ LocksKept
    BY <1>1, <1>2, <1>3, SameTable, SameLocks
  <2> QED BY <1>2, <2>1, <2>6, <2>7, <2>8, Passes
<1>4. CASE R # {}
  <2>1. q \in R /\ q \in Procs /\ q # 0
    <3>1. R \in SUBSET Nat
      BY <1>1 DEF Procs
    <3>2. q \in R
      BY <1>1, <1>4, <3>1, Least
    <3> QED BY <1>1, <3>2 DEF Procs
  <2>2. cpu[c].run = 0 /\ DOMAIN cpu = Apics /\ "run" \in DOMAIN cpu[c] /\ DOMAIN proc = Procs
        /\ {"state", "killed", "parent"} \subseteq DOMAIN proc[q]
    BY <1>2, <2>1, Scanning DEF Safe, Core, DataTypes, CpuType
  <2>3. cpu' # cpu
    <3>1. cpu'[c].run = q
      <4>1. "run" \in DOMAIN switchuvm(cpu[c], q)
        BY <2>2 DEF switchuvm
      <4> QED BY <1>1, <1>4, <2>2, <4>1
    <3> QED BY <2>1, <2>2, <3>1
  <2>4. PICK out, in : out = {Now(c)} /\ in = {}
    OBVIOUS
  <2>5. Flow(c, out, in)
    BY <2>3, <2>4, FlowSwitch
  <2>6. Hushed(c, out, in)
    BY <1>2, <2>4, <2>5 DEF Hushed, Doing, Rousing
  <2>7. TableKept
    <3>1. proc' = [proc EXCEPT ![q].state = "RUNNING"]
      BY <1>1, <1>4
    <3>2. (\A p \in Procs \ {q} : proc'[p] = proc[p]) /\ proc'[q].state = "RUNNING" /\ proc'[q].killed = proc[q].killed
          /\ proc'[q].parent = proc[q].parent
      BY <2>1, <2>2, <3>1
    <3> QED BY <2>1, <3>2, OneChanged
  <2> QED BY <1>2, <2>6, <2>7, HushedWakes, SameLocks
<1> QED BY <1>3, <1>4

LEMMA WakesSwitch ==
  ASSUME Safe, WakeInv, NEW c \in Apics, back(c) \/ sched(c)
  PROVE  WakeInv'
<1>1. DOMAIN cpu = Apics /\ {"run", "cr3", "proc"} \subseteq DOMAIN cpu[c] /\ DOMAIN proc = Procs
  BY DEF Safe, Core, DataTypes, CpuType
<1>2. CASE back(c)
  <2>1. Doing(c, "back") /\ UNCHANGED <<lock, proc, ticks, disk>>
    BY <1>2 DEF back, data
  <2>2. PICK i : i = On("scan", Now(c).n + 1) /\ Then(c, <<i>>)
    BY <1>2 DEF back
  <2>3. \A d \in Apics : cpu'[d].run = cpu[d].run
    <3>1. cpu' = [cpu EXCEPT ![c] = [switchkvm(@) EXCEPT !.proc = 0]]
      BY <1>2 DEF back
    <3>2. switchkvm(cpu[c]).run = cpu[c].run /\ "run" \in DOMAIN switchkvm(cpu[c])
      BY <1>1 DEF switchkvm
    <3> QED BY <1>1, <3>1, <3>2
  <2>4. PICK X : X = {"scan"}
    OBVIOUS
  <2>5. i \in Instructions(X)
    <3>1. Now(c).n + 1 \in Int
      BY <2>1, Doings DEF Safe
    <3> QED BY <2>2, <2>4, <3>1, TypeOfDo
  <2>6. <<i>> \in Seq(Instructions(X)) /\ X \cap {"block", "await"} = {}
    BY <2>4, <2>5, OneIs
  <2>7. Todo(c) # <<>> /\ Now(c).op \notin {"doze", "request"} \cup Rousing
    BY <2>1 DEF Doing, Rousing
  <2>8. TableKept /\ LocksKept
    BY <2>1, SameTable, SameLocks
  <2> QED BY <2>1, <2>2, <2>3, <2>6, <2>7, <2>8, Passes
<1>3. CASE sched(c)
  <2>1. Doing(c, "sched") /\ UNCHANGED <<lock, ticks, disk>>
    BY <1>3 DEF sched
  <2>2. PICK v : proc' = [proc EXCEPT ![Me(c)].intena = v]
    BY <1>3 DEF sched
  <2>3. TableKept
    <3>1. \A p \in Procs : proc'[p].state = proc[p].state /\ proc'[p].chan = proc[p].chan /\ proc'[p].killed = proc[p].killed
                           /\ proc'[p].parent = proc[p].parent
      <4> SUFFICES ASSUME NEW p \in Procs
                   PROVE  proc'[p].state = proc[p].state /\ proc'[p].chan = proc[p].chan /\ proc'[p].killed = proc[p].killed
                          /\ proc'[p].parent = proc[p].parent
        OBVIOUS
      <4>1. CASE p = Me(c)
        BY <1>1, <2>2, <4>1
      <4>2. CASE p # Me(c)
        BY <1>1, <2>2, <4>2
      <4> QED BY <4>1, <4>2
    <3> QED BY <3>1 DEF TableKept
  <2>4. PICK out, in : out = {Now(c)} /\ in = {}
    OBVIOUS
  <2>5. Flow(c, out, in)
    BY <1>3, <2>4, FlowSched
  <2>6. Hushed(c, out, in)
    BY <2>1, <2>4, <2>5 DEF Hushed, Doing, Rousing
  <2> QED BY <2>1, <2>3, <2>6, HushedWakes, SameLocks
<1> QED BY <1>2, <1>3

LEMMA WakesStart ==
  ASSUME Safe, WakeInv, NEW c \in Apics, mpinit(c) \/ started(c)
  PROVE  WakeInv'
<1>1. CASE mpinit(c)
  <2>1. Doing(c, "mpinit") /\ UNCHANGED <<cpu, lock, proc, ticks, disk>>
    BY <1>1 DEF mpinit
  <2>2. PICK code : Then(c, code) /\ (code = <<>> \/ \E n \in Int : code = <<On("mpinit", n)>>)
    <3>1. PICK j : j = Now(c).n
      OBVIOUS
    <3>2. j \in Int /\ j + 1 \in Int
      BY <2>1, <3>1, Doings DEF Safe
    <3>3. Then(c, <<>>) \/ Then(c, <<On("mpinit", IF given.table[j].type = "other" THEN j ELSE j + 1)>>)
      BY <1>1, <3>1 DEF mpinit
    <3> QED BY <3>2, <3>3
  <2>3. PICK X : X = {"mpinit"}
    OBVIOUS
  <2>4. code \in Seq(Instructions(X)) /\ X \cap {"block", "await"} = {}
    <3>1. CASE code = <<>>
      BY <2>3, <3>1
    <3>2. CASE \E n \in Int : code = <<On("mpinit", n)>>
      <4>1. PICK n \in Int : code = <<On("mpinit", n)>>
        BY <3>2
      <4>2. On("mpinit", n) \in Instructions(X)
        BY <2>3, TypeOfDo
      <4> QED BY <2>3, <4>1, <4>2, OneIs
    <3> QED BY <2>2, <3>1, <3>2
  <2>5. Todo(c) # <<>> /\ Now(c).op \notin {"doze", "request"} \cup Rousing
    BY <2>1 DEF Doing, Rousing
  <2>6. TableKept /\ LocksKept
    BY <2>1, SameTable, SameLocks
  <2> QED BY <2>1, <2>2, <2>4, <2>5, <2>6, Passes
<1>2. CASE started(c)
  <2>1. Doing(c, "started") /\ UNCHANGED <<cpu, lock, proc, ticks, disk>> /\ Then(c, scheduler)
    BY <1>2 DEF started
  <2>2. PICK X : X = {"acquire", "release", "sti", "scan"}
    OBVIOUS
  <2>3. {"acquire", "release"} \subseteq X /\ {"sti", "scan"} \subseteq X
    BY <2>2
  <2>4. PICK code : code = scheduler
    OBVIOUS
  <2>5. code \in Seq(Instructions(X)) /\ X \cap {"block", "await"} = {}
    BY <2>2, <2>3, <2>4, GoodSmall DEF Good
  <2>6. Todo(c) # <<>> /\ Now(c).op \notin {"doze", "request"} \cup Rousing
    BY <2>1 DEF Doing, Rousing
  <2>7. TableKept /\ LocksKept /\ Then(c, code)
    BY <2>1, <2>4, SameTable, SameLocks
  <2> QED BY <2>1, <2>5, <2>6, <2>7, Passes
<1> QED BY <1>1, <1>2

LEMMA WakesPeek ==
  ASSUME Safe, WakeInv, NEW c \in Apics, kalloc_peek(c)
  PROVE  WakeInv'
<1>1. Doing(c, "peek") /\ Then(c, <<>>) /\ UNCHANGED <<lock, ticks, disk>>
  BY DEF kalloc_peek
<1>2. DOMAIN cpu = Apics /\ "run" \in DOMAIN cpu[c] /\ DOMAIN proc = Procs
  BY DEF Safe, Core, DataTypes, CpuType
<1>3. PICK r : IF cpu[c].run = 0 THEN cpu' = [cpu EXCEPT ![c].r = r] /\ UNCHANGED proc
               ELSE proc' = [proc EXCEPT ![cpu[c].run].r = r] /\ UNCHANGED cpu
  BY DEF kalloc_peek
<1>4. \A d \in Apics : cpu'[d].run = cpu[d].run
  BY <1>2, <1>3
<1>5. \A p \in Procs : proc'[p].state = proc[p].state /\ proc'[p].chan = proc[p].chan /\ proc'[p].killed = proc[p].killed
                       /\ proc'[p].parent = proc[p].parent
  <2>1. CASE cpu[c].run = 0
    BY <1>3, <2>1
  <2>2. CASE cpu[c].run # 0
    <3>1. PICK q : q = cpu[c].run /\ proc' = [proc EXCEPT ![q].r = r]
      BY <1>3, <2>2
    <3> SUFFICES ASSUME NEW p \in Procs
                 PROVE  proc'[p].state = proc[p].state /\ proc'[p].chan = proc[p].chan /\ proc'[p].killed = proc[p].killed
                        /\ proc'[p].parent = proc[p].parent
      OBVIOUS
    <3>2. CASE p = q
      BY <1>2, <3>1, <3>2
    <3>3. CASE p # q
      BY <1>2, <3>1, <3>3
    <3> QED BY <3>2, <3>3
  <2> QED BY <2>1, <2>2
<1>6. TableKept
  BY <1>5 DEF TableKept
<1>7. Quiet(<<>>) /\ "peek" \notin {"doze", "request"} \cup Rousing
  BY QuietCode DEF Rousing
<1> QED BY <1>1, <1>4, <1>6, <1>7, QuietPasses

LEMMA QuietOne ==
  ASSUME NEW op, op \notin RoughOps \cup Opens \cup {"forkret", "acquire", "release"}, NEW n \in Int
  PROVE  Quiet(<<On(op, n)>>)
<1>1. PICK X, i : X = {op} /\ i = On(op, n)
  OBVIOUS
<1>2. i \in Instructions(X)
  BY <1>1, TypeOfDo
<1>3. <<i>> \in Seq(Instructions(X))
  BY <1>2, OneIs
<1> QED BY <1>1, <1>3 DEF Quiet

LEMMA QuietRelease ==
  ASSUME NEW l \in Locks
  PROVE  Quiet(<<release(l)>>)
<1>1. PICK X : X = {"acquire", "release"}
  OBVIOUS
<1>2. X \cap (RoughOps \cup Opens \cup {"forkret"}) = {}
  BY <1>1 DEF RoughOps, Opens
<1> QED BY <1>1, <1>2, ReleaseIs DEF Quiet

LEMMA QuietJoin ==
  ASSUME NEW s, NEW r, Quiet(s), Quiet(r)
  PROVE  Quiet(s \o r)
<1>1. PICK X : X \cap (RoughOps \cup Opens \cup {"forkret"}) = {} /\ s \in Seq(Instructions(X))
  BY DEF Quiet
<1>2. PICK Y : Y \cap (RoughOps \cup Opens \cup {"forkret"}) = {} /\ r \in Seq(Instructions(Y))
  BY DEF Quiet
<1>3. PICK Z : Z = X \cup Y
  OBVIOUS
<1>4. s \in Seq(Instructions(Z)) /\ r \in Seq(Instructions(Z))
  BY <1>1, <1>2, <1>3, MoreOps
<1>5. s \o r \in Seq(Instructions(Z)) /\ Z \cap (RoughOps \cup Opens \cup {"forkret"}) = {}
  BY <1>1, <1>2, <1>3, <1>4
<1> QED BY <1>5 DEF Quiet

LEMMA WakesMaking ==
  ASSUME Safe, WakeInv, NEW c \in Apics, allocproc_find(c) \/ (allocproc_kstack(c) /\ Page(c) = 0)
  PROVE  WakeInv'
<1>1. DOMAIN proc = Procs /\ \A p \in Procs : DOMAIN proc[p] = {"state", "pid", "parent", "killed", "chan", "kstack", "intena", "r"}
  BY DEF Safe, Core, DataTypes
<1>2. CASE allocproc_find(c)
  <2>1. Doing(c, "find") /\ UNCHANGED <<cpu, lock, ticks, disk>>
    BY <1>2 DEF allocproc_find
  <2>2. PICK unused, q :
          /\ unused = {e \in Procs : proc[e].state = "UNUSED"} /\ q = Min(unused)
          /\ IF unused = {} THEN Then(c, <<release("ptable")>>) /\ UNCHANGED proc
             ELSE /\ proc' = [proc EXCEPT ![q].state = "EMBRYO", ![q].pid = q]
                  /\ Then(c, <<release("ptable"), Do("kalloc"), On("kstack", q)>>)
    BY <1>2 DEF allocproc_find
  <2>3. "find" \notin {"doze", "request"} \cup Rousing
    BY DEF Rousing
  <2>4. Quiet(<<release("ptable")>>)
    BY QuietRelease DEF Locks
  <2>5. CASE unused = {}
    <3>1. PICK code : code = <<release("ptable")>> /\ Then(c, code)
      BY <2>2, <2>5
    <3>2. TableKept
      BY <2>2, <2>5, SameTable
    <3> QED BY <2>1, <2>3, <2>4, <3>1, <3>2, QuietPasses
  <2>6. CASE unused # {}
    <3>1. q \in unused /\ q \in Procs /\ q \in Int
      <4>1. unused \in SUBSET Nat
        BY <2>2 DEF Procs
      <4>2. q \in unused
        BY <2>2, <2>6, <4>1, Least
      <4> QED BY <2>2, <4>2 DEF Procs
    <3>2. PICK code : code = <<release("ptable"), Do("kalloc"), On("kstack", q)>> /\ Then(c, code)
      BY <2>2, <2>6
    <3>3. Quiet(code)
      <4>1. "kalloc" \notin RoughOps \cup Opens \cup {"forkret", "acquire", "release"}
            /\ "kstack" \notin RoughOps \cup Opens \cup {"forkret", "acquire", "release"}
        BY DEF RoughOps, Opens
      <4>2. Quiet(<<Do("kalloc")>>) /\ Quiet(<<On("kstack", q)>>)
        BY <3>1, <4>1, QuietOne DEF Do
      <4>3. Quiet(<<Do("kalloc"), On("kstack", q)>>)
        BY <4>2, QuietJoin, Join2
      <4>4. <<release("ptable")>> \o <<Do("kalloc"), On("kstack", q)>> = code
        BY <3>2, Join3
      <4> QED BY <2>4, <4>3, <4>4, QuietJoin
    <3>4. TableKept
      <4>1. proc' = [proc EXCEPT ![q].state = "EMBRYO", ![q].pid = q]
        BY <2>2, <2>6
      <4>2. \A p \in Procs \ {q} : proc'[p] = proc[p]
        BY <1>1, <4>1
      <4>3. proc'[q].state = "EMBRYO" /\ proc'[q].killed = proc[q].killed /\ proc'[q].parent = proc[q].parent
        BY <1>1, <3>1, <4>1
      <4> QED BY <3>1, <4>2, <4>3, OneChanged
    <3> QED BY <2>1, <2>3, <3>2, <3>3, <3>4, QuietPasses
  <2> QED BY <2>5, <2>6
<1>3. CASE allocproc_kstack(c) /\ Page(c) = 0
  <2>1. Doing(c, "kstack") /\ UNCHANGED <<cpu, lock, ticks, disk>> /\ Then(c, <<>>)
    BY <1>3 DEF allocproc_kstack
  <2>2. PICK q : q = Now(c).n /\ proc' = [proc EXCEPT ![q].state = "UNUSED"]
    BY <1>3 DEF allocproc_kstack
  <2>3. q \in Procs
    BY <2>1, <2>2, Maker DEF Safe
  <2>4. TableKept
    <3>1. (\A p \in Procs \ {q} : proc'[p] = proc[p]) /\ proc'[q].state = "UNUSED" /\ proc'[q].killed = proc[q].killed
          /\ proc'[q].parent = proc[q].parent
      BY <1>1, <2>2, <2>3
    <3> QED BY <2>3, <3>1, OneChanged
  <2>5. Quiet(<<>>) /\ "kstack" \notin {"doze", "request"} \cup Rousing
    BY QuietCode DEF Rousing
  <2> QED BY <2>1, <2>4, <2>5, QuietPasses
<1> QED BY <1>2, <1>3

LEMMA WakesSpawn ==
  ASSUME Safe, WakeInv, NEW c \in Apics, (allocproc_kstack(c) /\ Page(c) # 0) \/ lapicstartap(c)
  PROVE  WakeInv'
<1>1. PICK op, code, u, U : Spawns(c, op, code, u, U)
  BY StartSpawns
<1>2. PICK out, in : out = {Now(c)} /\ in = ToSet(code)
  OBVIOUS
<1>3. Flow(c, out, in)
  BY <1>1, <1>2, FlowSpawn DEF Safe
<1>4. Doing(c, op) /\ op \in {"kstack", "lapicstartap"} /\ Quiet(code)
  BY <1>1 DEF Spawns
<1>5. Hushed(c, out, in)
  <2>1. PICK X : X \cap RoughOps = {} /\ code \in Seq(Instructions(X))
    BY <1>4 DEF Quiet
  <2>2. ToSet(code) \subseteq Instructions(X)
    BY <2>1, SetIs
  <2>3. \A x \in in : x.op \notin {"block", "await"}
    BY <1>2, <2>1, <2>2 DEF Instructions, RoughOps
  <2>4. Now(c).op \notin {"doze", "request"} \cup Rousing
    BY <1>4 DEF Doing, Rousing
  <2> QED BY <1>2, <1>3, <2>3, <2>4 DEF Hushed
<1>6. UNCHANGED <<lock, ticks, disk>>
  BY DEF allocproc_kstack, lapicstartap
<1>7. TableKept
  <2>1. CASE lapicstartap(c)
    BY <2>1, SameTable DEF lapicstartap
  <2>2. CASE allocproc_kstack(c) /\ Page(c) # 0
    <3>1. PICK q : q = Now(c).n /\ Doing(c, "kstack") /\ proc' = [proc EXCEPT ![q].kstack = Page(c), ![q].parent = Me(c)]
      BY <2>2 DEF allocproc_kstack
    <3>2. q \in Procs /\ proc[q].state = "EMBRYO" /\ cpu[c].run # q
      BY <3>1, Maker DEF Safe
    <3>3. Me(c) # q
      <4>1. "kstack" # "back"
        OBVIOUS
      <4> QED BY <3>1, <3>2, <4>1, Doings DEF Safe, Me
    <3>4. DOMAIN proc = Procs /\ DOMAIN proc[q] = {"state", "pid", "parent", "killed", "chan", "kstack", "intena", "r"}
      BY <3>2 DEF Safe, Core, DataTypes
    <3>5. \A p \in Procs \ {q} : proc'[p] = proc[p]
      BY <3>1, <3>4
    <3>6. proc'[q].state = "EMBRYO" /\ proc'[q].killed = proc[q].killed /\ proc'[q].parent = Me(c)
      BY <3>1, <3>2, <3>4
    <3> QED BY <3>2, <3>3, <3>5, <3>6, OneChanged
  <2> QED BY <2>1, <2>2
<1> QED BY <1>3, <1>5, <1>6, <1>7, HushedWakes, SameLocks

\* Who has ptable.lock, and has not put the process of its thread to sleep, runs it.
LEMMA RunsNow ==
  ASSUME Safe, NEW c \in Apics, Todo(c) # <<>>, Now(c).op \in {"tidy", "zombie", "runnable", "block", "await", "doze", "reap", "request"},
         cpu[c].run # 0
  PROVE  proc[cpu[c].run].state = "RUNNING"
<1>1. PICK k : Leads(Held(c), Now(c), k)
  BY Next1 DEF Safe, Core
<1>2. PICK h, i : h = Held(c) /\ i = Now(c)
  OBVIOUS
<1>3. h = {"ptable"} \/ h = {"tickslock"} \/ h = {"idelock"}
  BY <1>1, <1>2 DEF Leads
<1>4. "off" \notin h
  BY <1>3
<1> QED BY <1>2, <1>4 DEF Held

LEMMA ProcessDoes ==
  ASSUME Safe, NEW c \in Apics, NEW op, Doing(c, op), op \notin CpuOps \cup BootOps
  PROVE  \E p \in Procs : p = cpu[c].run /\ p = Me(c) /\ p # 0 /\ Todo(c) = kern[p] /\ Todo(c) # <<>> /\ Now(c).op = op
<1>1. op # "back"
  BY DEF CpuOps
<1>2. PICK p \in Procs : p = cpu[c].run /\ p = Me(c) /\ p # 0
  BY <1>1, OfTheProcess DEF Safe
<1> QED BY <1>2, Runs DEF Safe, Core, Doing

LEMMA WakesChange ==
  ASSUME Safe, WakeInv, NEW c \in Apics, change(c), NEW op \in {"tidy", "runnable", "start", "unused"}, Doing(c, op)
  PROVE  WakeInv'
<1>1. /\ UNCHANGED <<cpu, lock, ticks, disk>> /\ Then(c, <<>>) /\ proc' = Change(c) /\ Now(c).op = op
  BY DEF change, Doing
<1>2. DOMAIN proc = Procs /\ \A p \in Procs : DOMAIN proc[p] = {"state", "pid", "parent", "killed", "chan", "kstack", "intena", "r"}
  BY DEF Safe, Core, DataTypes
<1>3. TableKept
  <2>1. CASE op \in {"tidy", "runnable"}
    <3>1. op \notin CpuOps \cup BootOps
      BY <2>1 DEF CpuOps, BootOps
    <3>2. PICK p \in Procs : p = cpu[c].run /\ p = Me(c) /\ p # 0 /\ Todo(c) # <<>>
      BY <3>1, ProcessDoes
    <3>3. proc[p].state = "RUNNING"
      BY <1>1, <2>1, <3>2, RunsNow
    <3>4. proc' = [proc EXCEPT ![p].chan = 0] \/ proc' = [proc EXCEPT ![p].state = "RUNNABLE"]
      BY <1>1, <2>1, <3>2 DEF Change
    <3>5. \A q \in Procs \ {p} : proc'[q] = proc[q]
      BY <1>2, <3>4
    <3>6. proc'[p].state \in {"RUNNING", "RUNNABLE"} /\ proc'[p].killed = proc[p].killed /\ proc'[p].parent = proc[p].parent
      BY <1>2, <3>2, <3>3, <3>4
    <3> QED BY <3>5, <3>6, OneChanged
  <2>2. CASE op = "start"
    <3>1. PICK q : q = Now(c).n /\ q \in Procs /\ proc[q].state = "EMBRYO"
      BY <2>2, Maker DEF Safe
    <3>2. proc' = [proc EXCEPT ![q].state = "RUNNABLE"]
      BY <1>1, <2>2, <3>1 DEF Change
    <3>3. (\A p \in Procs \ {q} : proc'[p] = proc[p]) /\ proc'[q].state = "RUNNABLE" /\ proc'[q].killed = proc[q].killed
          /\ proc'[q].parent = proc[q].parent
      BY <1>2, <3>1, <3>2
    <3> QED BY <3>1, <3>3, OneChanged
  <2>3. CASE op = "unused"
    <3>1. PICK q : q = Now(c).n /\ q \in Procs
      BY <2>3, Maker DEF Safe
    <3>2. proc' = [proc EXCEPT ![q] = Unused]
      BY <1>1, <2>3, <3>1 DEF Change
    <3>3. (\A p \in Procs \ {q} : proc'[p] = proc[p]) /\ proc'[q] = Unused
      BY <1>2, <3>1, <3>2
    <3>4. Unused.state = "UNUSED" /\ Unused.killed = FALSE /\ Unused.parent = 0 /\ q # 0
      BY <3>1 DEF Unused, Procs
    <3> QED BY <3>1, <3>3, <3>4, OneChanged
  <2> QED BY <2>1, <2>2, <2>3
<1>4. Quiet(<<>>) /\ op \notin {"doze", "request"} \cup Rousing
  BY QuietCode DEF Rousing
<1> QED BY <1>1, <1>3, <1>4, QuietPasses

\* The functions that put nobody to sleep.
LEMMA WakesEnter ==
  ASSUME Safe, WakeInv, NEW c \in Apics, enter(c), NEW op, Doing(c, op), op \notin {"doze", "reap"}
  PROVE  WakeInv'
<1>1. op \in {"since", "quit", "preempt", "kalloc", "cprintf", "startothers"}
  BY DEF enter, Doing
<1>2. Then(c, Body(c)) /\ UNCHANGED <<cpu, lock, proc, ticks, disk>>
  BY DEF enter, data
<1>3. Now(c).op = op /\ Now(c).n \in Int /\ Me(c) = cpu[c].run
  <2>1. op # "back"
    BY <1>1
  <2> QED BY <2>1, Doings DEF Safe, Me
<1>4. PICK code : code = Body(c)
  OBVIOUS
<1>5. Quiet(code)
  <2>1. CASE op = "quit"
    <3>1. code = exit \/ code = <<>>
      BY <1>3, <1>4, <2>1 DEF Body, quit
    <3> QED BY <3>1, QuietCode
  <2>2. CASE op = "preempt"
    <3>1. code = yield \/ code = <<>>
      BY <1>3, <1>4, <2>2 DEF Body, preempt
    <3> QED BY <3>1, QuietCode
  <2>3. CASE op \in {"kalloc", "cprintf"}
    <3>1. code = kalloc \/ code = cprintf
      BY <1>3, <1>4, <2>3 DEF Body
    <3> QED BY <3>1, QuietCode
  <2>4. CASE op = "startothers"
    <3>1. PICK j \in Int : code = startothers(c, j)
      BY <1>3, <1>4, <2>4 DEF Body
    <3> QED BY <3>1, QuietStart
  <2>5. CASE op = "since"
    <3>1. PICK i : i = [op |-> "doze", on |-> "none", n |-> Now(c).n, since |-> ticks]
      OBVIOUS
    <3>2. i.op = "doze" /\ i \in Instructions({"doze"})
      <4>1. ticks \in Int
        BY DEF Safe, Core, DataTypes
      <4> QED BY <1>3, <3>1, <4>1 DEF Instructions, LockNames
    <3>3. code = <<i>>
      BY <1>3, <1>4, <2>5, <3>1 DEF Body, since
    <3> QED BY <3>2, <3>3, QuietCode
  <2> QED BY <1>1, <2>1, <2>2, <2>3, <2>4, <2>5
<1>6. op \notin {"doze", "request"} \cup Rousing
  BY <1>1 DEF Rousing
<1>7. TableKept /\ Then(c, code)
  BY <1>2, <1>4, SameTable
<1> QED BY <1>2, <1>5, <1>6, <1>7, QuietPasses

----------------------------------------------------------------------------
(* Interrupts and system calls.                                            *)

\* A handler comes in front of what there is.
LEMMA InterruptFlow ==
  ASSUME Safe, NEW c \in Apics, NEW a, Handles(a), NEW z, z = <<>> \/ z = <<Do("preempt")>>, Interrupt(c, a, z),
         NEW n, n = IF cpu[c].run # 0 /\ Todo(c) = <<>> THEN 1 ELSE 0, NEW in, in = ToSet(Handler(n, a, z))
  PROVE  /\ Flow(c, {}, in) /\ \A x \in in : x.op \notin {"block", "await"}
         /\ UNCHANGED <<lock, proc, ticks>>
<1>1. n \in Int
  OBVIOUS
<1>2. PICK code : code = Handler(n, a, z) /\ HandlerFine(code)
  <2>1. PICK code : code = Handler(n, a, z)
    OBVIOUS
  <2> QED BY <1>1, <2>1, HandlerIs
<1>3. cpu' = [cpu EXCEPT ![c].IF = FALSE] /\ Goto(c, code \o Todo(c)) /\ UNCHANGED <<lock, proc, ticks>>
  BY <1>2 DEF Interrupt
<1>4. DOMAIN cpu = Apics /\ "run" \in DOMAIN cpu[c]
  BY DEF Safe, Core, DataTypes, CpuType
<1>5. \A d \in Apics : cpu'[d].run = cpu[d].run
  BY <1>3, <1>4
<1>6. PICK X : code \in Seq(Instructions(X)) /\ X \cap {"intena", "block", "await", "forkret"} = {}
  BY <1>2 DEF HandlerFine
<1>7. PICK out : out = {}
  OBVIOUS
<1>8. in = ToSet(code)
  BY <1>2
<1>9. Flow(c, out, in)
  BY <1>3, <1>5, <1>6, <1>7, <1>8, FlowFront DEF Safe
<1>10. \A x \in in : x.op \notin {"block", "await"}
  <2>1. ToSet(code) \subseteq Instructions(X)
    BY <1>6, SetIs
  <2> QED BY <1>6, <1>8, <2>1 DEF Instructions
<1> QED BY <1>3, <1>7, <1>9, <1>10

LEMMA WakesTimer ==
  ASSUME Safe, WakeInv, NEW c \in Apics, timer(c)
  PROVE  WakeInv'
<1>1. PICK a, z : Handles(a) /\ (z = <<>> \/ z = <<Do("preempt")>>) /\ Interrupt(c, a, z)
  BY InterruptIs
<1>2. PICK n, in, out : n = (IF cpu[c].run # 0 /\ Todo(c) = <<>> THEN 1 ELSE 0) /\ in = ToSet(Handler(n, a, z)) /\ out = {}
  OBVIOUS
<1>3. Flow(c, out, in) /\ (\A x \in in : x.op \notin {"block", "await"}) /\ UNCHANGED <<lock, proc, ticks>>
  BY <1>1, <1>2, InterruptFlow
<1>4. Hushed(c, out, in)
  BY <1>2, <1>3 DEF Hushed
<1>5. disk' = disk
  BY DEF timer
<1> QED BY <1>3, <1>4, <1>5, HushedWakes, SameTable, SameLocks

\* The disk is not at work then, but the handler will see to that.
LEMMA WakesIde ==
  ASSUME Safe, WakeInv, NEW c \in Apics, ide(c)
  PROVE  WakeInv'
<1>1. PICK i, j, a, z : i = acquire("idelock") /\ j = Do("ideintr") /\ a = <<i, j>> /\ z = <<>>
  OBVIOUS
<1>2. Interrupt(c, a, z) /\ disk' = [disk EXCEPT !.busy = FALSE]
  BY <1>1 DEF ide
<1>3. Handles(a)
  <2>1. i.op = "acquire" /\ j.op = "ideintr" /\ j # Irq
    BY <1>1, FieldsOn, FieldsLock DEF Do, Irq
  <2>2. Smooth(a)
    <3>1. ~ Rough(i, j)
      BY <2>1 DEF Rough
    <3> QED BY <1>1, <3>1, SmoothTwo
  <2>3. Chimes(a)
    <3>1. Len(a) = 2 /\ a[1] = i /\ a[2] = j
      BY <1>1
    <3>2. \A x \in 1 .. Len(a) : x = 1 \/ x = 2
      BY <3>1
    <3> QED BY <2>1, <3>1, <3>2 DEF Chimes, Has
  <2>4. i \in Instructions(FirstOps) /\ j \in Instructions(FirstOps)
    <3>1. {"acquire", "release"} \subseteq FirstOps /\ "ideintr" \in FirstOps
      BY DEF FirstOps
    <3> QED BY <1>1, <3>1, TypeOfDo, TypeOfLock DEF Locks
  <2>5. PICK V : V = Instructions(FirstOps)
    OBVIOUS
  <2>6. a \in Seq(V)
    BY <1>1, <2>4, <2>5
  <2> QED BY <2>2, <2>3, <2>5, <2>6 DEF Handles
<1>4. PICK n, in, out, code : /\ n = (IF cpu[c].run # 0 /\ Todo(c) = <<>> THEN 1 ELSE 0)
                              /\ code = Handler(n, a, z) /\ in = ToSet(code) /\ out = {}
  OBVIOUS
<1>5. Flow(c, out, in) /\ (\A x \in in : x.op \notin {"block", "await"}) /\ UNCHANGED <<lock, proc, ticks>>
  BY <1>1, <1>2, <1>3, <1>4, InterruptFlow
<1>6. j \in in
  <2>1. PICK q, e : q = <<On("quit", n)>> /\ e = <<On("quit", n), On("iret", 1)>>
    OBVIOUS
  <2>2. PICK V : V = {i, j, On("quit", n), On("iret", 1)}
    OBVIOUS
  <2>3. a \in Seq(V) /\ q \in Seq(V) /\ z \in Seq(V) /\ e \in Seq(V)
    BY <1>1, <2>1, <2>2
  <2>4. PICK s, t : s = a \o q /\ t = s \o z /\ s \in Seq(V) /\ t \in Seq(V)
    <3>1. a \o q \in Seq(V)
      BY <2>3, ConcatProperties
    <3>2. (a \o q) \o z \in Seq(V)
      BY <2>3, <3>1, ConcatProperties
    <3> QED BY <3>1, <3>2
  <2>5. code = t \o e
    BY <1>4, <2>1, <2>4 DEF Handler
  <2>6. j \in ToSet(a)
    <3>1. a \in Seq({i, j}) /\ Len(a) = 2 /\ a[2] = j
      BY <1>1
    <3> QED BY <3>1, SetIs
  <2>7. j \in ToSet(s)
    BY <2>3, <2>4, <2>6, SetConcat
  <2>8. j \in ToSet(t)
    BY <2>3, <2>4, <2>7, SetConcat
  <2>9. j \in ToSet(code)
    <3>1. t \in Seq(V) /\ e \in Seq(V)
      BY <2>3, <2>4
    <3> QED BY <2>5, <2>8, <3>1, SetConcat
  <2> QED BY <1>4, <2>9
<1>7. Serving'
  <2>1. j \in ToSet(Todo(c)')
    BY <1>5, <1>6 DEF Flow
  <2> QED BY <1>1, <2>1 DEF Serving
<1>8. TableKept /\ LocksKept
  BY <1>5, SameTable, SameLocks
<1>9. disk'.queue = disk.queue /\ disk'.done = disk.done
  BY <1>2 DEF Safe, Core, DataTypes
<1>10. ASSUME NEW p \in Procs PROVE (Slept(p) /\ TimeWakes(p) /\ DiskWakes(p) /\ ChildWakes(p) /\ Asked(p))'
  <2>1. Slept(p) /\ TimeWakes(p) /\ DiskWakes(p) /\ ChildWakes(p) /\ Asked(p)
    BY DEF WakeInv
  <2>2. Queued(p) => Queued(p)'
    BY <1>9 DEF Queued
  <2>3. \A x : x \notin out
    BY <1>4
  <2>4. ticks' = ticks
    BY <1>5
  <2>5. (Slept(p) /\ TimeWakes(p) /\ DiskWakes(p) /\ ChildWakes(p))'
    BY <1>5, <1>8, <2>1, <2>2, <2>3, <2>4, HushedKeeps
  <2>6. Asked(p)'
    BY <1>5, <1>9, <2>1, <2>2, <2>3, AskKept
  <2> QED BY <2>5, <2>6
<1>11. Served' /\ Parents'
  BY <1>7, <1>8, ParentsKept DEF Served, WakeInv
<1> QED BY <1>10, <1>11 DEF WakeInv

\* Of the code of iderw, and of the body of a call.
LEMMA AsksFor ==
  \A s \in {iderw} \cup {Call(call) : call \in Calls} : \A x \in ToSet(s) :
     x.op # "block" /\ (x.op = "await" => \E y \in ToSet(s) : y.op = "request")
<1>1. ASSUME NEW s, s = iderw
      PROVE  \A x \in ToSet(s) : x.op # "block" /\ (x.op = "await" => \E y \in ToSet(s) : y.op = "request")
  <2>1. PICK i, j, k : i = acquire("idelock") /\ j = Do("request") /\ k = Do("await") /\ s = <<i, j, k>>
    BY <1>1 DEF iderw
  <2>2. i.op = "acquire" /\ j.op = "request" /\ k.op = "await"
    BY <2>1, FieldsLock, FieldsOn DEF Do
  <2>3. s \in Seq({i, j, k}) /\ Len(s) = 3 /\ s[2] = j
    BY <2>1
  <2>4. j \in ToSet(s) /\ ToSet(s) \subseteq {i, j, k}
    BY <2>3, SetIs
  <2> QED BY <2>2, <2>4
<1>2. ASSUME NEW call \in Calls, NEW s, s = Call(call)
      PROVE  \A x \in ToSet(s) : x.op # "block" /\ (x.op = "await" => \E y \in ToSet(s) : y.op = "request")
  <2>1. CASE call.op = "read"
    BY <1>1, <1>2, <2>1 DEF Call
  <2>2. CASE call.op # "read"
    <3>1. PICK X : X = BodyOps \ {"request", "await"}
      OBVIOUS
    <3>2. s \in Seq(Instructions(X))
      BY <1>2, <2>2, <3>1, CallMild
    <3>3. ToSet(s) \subseteq Instructions(X)
      BY <3>2, SetIs
    <3>4. X \cap {"block", "await"} = {}
      BY <3>1 DEF BodyOps
    <3> QED BY <3>3, <3>4 DEF Instructions
  <2> QED BY <2>1, <2>2
<1> QED BY <1>1, <1>2

LEMMA WakesCall ==
  ASSUME Safe, WakeInv, NEW c \in Apics, syscall(c)
  PROVE  WakeInv'
<1>1. /\ cpu[c].run # 0 /\ Todo(c) = <<>> /\ work[Me(c)] # <<>>
      /\ UNCHANGED <<cpu, proc, lock, ticks, disk>>
  BY DEF syscall
<1>2. Me(c) \in Procs /\ (\A p \in Procs : work[p] \in Seq(Calls))
  BY <1>1 DEF Safe, Core, DataTypes, RunInv, Me, CpuType
<1>3. PICK call \in Calls : call = Head(work[Me(c)])
  BY <1>1, <1>2
<1>4. PICK s : s = Call(call) /\ s \in Seq(Instructions(BodyOps))
  <2>1. PICK s : s = Call(call)
    OBVIOUS
  <2> QED BY <2>1, CallIs
<1>5. PICK a, z : a = <<On("quit", 1)>> /\ z = <<On("quit", 1), On("iret", 0)>>
  OBVIOUS
<1>6. PICK X : X = BodyOps \cup {"quit", "iret"}
  OBVIOUS
<1>7. PICK V : V = Instructions(X) /\ a \in Seq(V) /\ s \in Seq(V) /\ z \in Seq(V)
  <2>1. BodyOps \subseteq X /\ "quit" \in X /\ "iret" \in X
    BY <1>6
  <2>2. On("quit", 1) \in Instructions(X) /\ On("iret", 0) \in Instructions(X)
    <3>1. \A op \in {"quit", "iret"} : op \in X /\ op \notin {"acquire", "release"}
      BY <2>1
    <3>2. 0 \in Int /\ 1 \in Int
      OBVIOUS
    <3> QED BY <3>1, <3>2, TypeOfDo
  <2>3. s \in Seq(Instructions(X))
    BY <1>4, <2>1, MoreOps
  <2> QED BY <1>5, <2>2, <2>3
<1>8. PICK b \in Seq(V) : b = a \o s
  <2>1. a \o s \in Seq(V)
    BY <1>7, ConcatProperties
  <2> QED BY <2>1
<1>9. PICK code \in Seq(V) : code = b \o z
  <2>1. b \o z \in Seq(V)
    BY <1>7, <1>8, ConcatProperties
  <2> QED BY <2>1
<1>10. Goto(c, code \o Todo(c))
  <2>1. Goto(c, code)
    BY <1>3, <1>4, <1>5, <1>8, <1>9 DEF syscall
  <2>2. code \o Todo(c) = code
    BY <1>1, <1>9
  <2> QED BY <2>1, <2>2
<1>11. PICK in, out : in = ToSet(code) /\ out = {}
  OBVIOUS
<1>12. Flow(c, out, in)
  BY <1>1, <1>7, <1>9, <1>10, <1>11, FlowFront DEF Safe
<1>13. \A x : x \in in <=> x \in ToSet(a) \/ x \in ToSet(s) \/ x \in ToSet(z)
  <2>1. \A x : x \in ToSet(b) <=> x \in ToSet(a) \/ x \in ToSet(s)
    BY <1>7, <1>8, SetConcat
  <2>2. \A x : x \in ToSet(code) <=> x \in ToSet(b) \/ x \in ToSet(z)
    BY <1>7, <1>8, <1>9, SetConcat
  <2> QED BY <1>11, <2>1, <2>2
<1>14. \A x : x \in ToSet(a) \/ x \in ToSet(z) => x.op \in {"quit", "iret"}
  <2>1. PICK q, e : q = On("quit", 1) /\ e = On("iret", 0) /\ a \in Seq({q, e}) /\ z \in Seq({q, e})
    BY <1>5
  <2>2. ToSet(a) \subseteq {q, e} /\ ToSet(z) \subseteq {q, e}
    BY <2>1, SetIs
  <2> QED BY <2>1, <2>2, FieldsOn
<1>15. \A x \in ToSet(s) : x.op # "block" /\ (x.op = "await" => \E y \in ToSet(s) : y.op = "request")
  BY <1>4, AsksFor
<1>16. Hushed(c, out, in)
  BY <1>11, <1>12, <1>13, <1>14, <1>15 DEF Hushed
<1> QED BY <1>1, <1>16, HushedWakes, SameTable, SameLocks

LEMMA WakesForkret ==
  ASSUME Safe, WakeInv, NEW c \in Apics, forkret_first(c)
  PROVE  WakeInv'
<1>1. Doing(c, "forkret") /\ UNCHANGED <<cpu, proc, lock, ticks, disk>> /\ (Then(c, iderw) \/ Then(c, <<>>))
  BY DEF forkret_first
<1>2. CASE Then(c, <<>>)
  <2>1. "forkret" \notin {"doze", "request"} \cup Rousing
    BY DEF Rousing
  <2> QED BY <1>1, <1>2, <2>1, PassesBy
<1>3. CASE Then(c, iderw)
  <2>1. PICK code, in, out : code = iderw /\ in = ToSet(code) /\ out = {Now(c)}
    OBVIOUS
  <2>2. \E X : code \in Seq(Instructions(X))
    <3>1. PICK X : X = {"acquire", "release", "request", "await"}
      OBVIOUS
    <3>2. {"acquire", "release"} \subseteq X /\ {"request", "await"} \subseteq X
      BY <3>1
    <3> QED BY <2>1, <3>2, GoodSmall DEF Good
  <2>3. Todo(c) # <<>> /\ Now(c).op = "forkret" /\ Then(c, code)
    BY <1>1, <1>3, <2>1 DEF Doing
  <2>4. Flow(c, out, in)
    BY <1>1, <2>1, <2>2, <2>3, FlowThen DEF Safe
  <2>5. \A x \in in : x.op # "block" /\ (x.op = "await" => \E y \in in : y.op = "request")
    BY <2>1, AsksFor
  <2>6. Hushed(c, out, in)
    BY <2>1, <2>3, <2>4, <2>5 DEF Hushed, Rousing
  <2> QED BY <1>1, <2>6, HushedWakes, SameTable, SameLocks
<1> QED BY <1>1, <1>2, <1>3

----------------------------------------------------------------------------
(* Who is about to sleep.                                                  *)

\* Processor e is about to put p to sleep on n: it has ptable.lock already, or still has
\* the lock that p gives up for it.
Pends(e, p, n) ==
  /\ cpu[e].run = p /\ Todo(e) = kern[p] /\ Todo(e) # <<>> /\ Now(e).op \in {"acquire", "release", "block"}
  /\ n \in {Ticks, Buffer(p), p}
  /\ \/ lock["ptable"] = e
     \/ n = Ticks /\ lock["tickslock"] = e
     \/ n = Buffer(p) /\ lock["idelock"] = e

LEMMA MineOf ==
  ASSUME NEW e, NEW l \in Locks, l \in Held(e), ~ (cpu[e].at = "popcli" /\ Now(e).on = l)
  PROVE  lock[l] = e
<1>1. l \notin {"early", "off"}
  BY DEF Locks
<1> QED BY <1>1 DEF Held, Mine

LEMMA Pending ==
  ASSUME Safe, NEW p \in Procs, NEW x \in ToSet(kern[p]), x.op = "block", NEW n, n = x.n
  PROVE  \E e \in Apics : Pends(e, p, n)
<1>1. PICK s, V : s = kern[p] /\ s \in Seq(V)
  <2>1. <<"proc", p>> \in Threads /\ Code(<<"proc", p>>) = kern[p]
    BY Names
  <2> QED BY <2>1 DEF Safe, Core, CodeTypes
<1>2. PICK b \in 1 .. Len(s) : s[b] = x
  BY <1>1, SetIs
<1>3. Block(p, s, b) /\ ~ Idle(p)
  BY <1>1, <1>2 DEF Safe, ListInv, Blocks
<1>4. PICK e \in Apics : cpu[e].run = p
  BY <1>3 DEF Idle
<1>5. p # 0
  BY DEF Procs
<1>6. Todo(e) = s
  BY <1>1, <1>4, <1>5 DEF Todo
<1>7. s # <<>> /\ Len(s) \in Nat /\ 1 \in 1 .. Len(s) /\ Head(s) = s[1]
  <2>1. Len(s) \in Nat /\ b \in 1 .. Len(s)
    BY <1>1, LenProperties
  <2>2. s # <<>>
    BY <2>1
  <2> QED BY <1>1, <2>1, <2>2, HeadTailProperties
<1>8. Sane(e)
  BY DEF Safe, Core, SaneInv
<1>9. PICK f \in [1 .. Len(s) + 1 -> SUBSET Tokens] :
        f[1] = Held(e) /\ \A i \in 1 .. Len(s) : Leads(f[i], s[i], f[i + 1])
  BY <1>6, <1>8 DEF Sane, Path
<1>10. /\ n \in {Ticks, Buffer(p), p} /\ b \in 1 .. 3
       /\ b > 1 => Given(p, n, s[b - 1])
       /\ b = 3 => s[1] = acquire("ptable")
  BY <1>2, <1>3 DEF Block
<1>11. "ptable" \in Locks /\ "tickslock" \in Locks /\ "idelock" \in Locks
  BY DEF Locks
<1>12. Now(e) = s[1]
  BY <1>6, <1>7 DEF Now
<1>13. (cpu[e].at = "xchg" => s[1].op = "acquire") /\ (cpu[e].at = "popcli" => s[1].op = "release")
  BY <1>8, <1>12 DEF Sane
<1>14. CASE b = 1
  <2>1. Leads(Held(e), s[1], f[1 + 1]) /\ s[1].op = "block"
    BY <1>2, <1>9, <1>14
  <2>2. "ptable" \in Held(e)
    <3>1. PICK h, i, k : h = Held(e) /\ i = s[1] /\ k = f[1 + 1] /\ Leads(h, i, k)
      BY <2>1
    <3>2. h = {"ptable"}
      BY <2>1, <3>1 DEF Leads
    <3> QED BY <3>1, <3>2
  <2>3. lock["ptable"] = e
    BY <1>11, <1>13, <2>1, <2>2, MineOf
  <2> QED BY <1>1, <1>4, <1>6, <1>7, <1>10, <1>12, <2>1, <2>3 DEF Pends
<1>15. CASE b = 2
  <2>1. 1 \in 1 .. Len(s) /\ 2 \in 1 .. Len(s) /\ b - 1 = 1 /\ b > 1 /\ 1 + 1 = 2 /\ s[2].op = "block"
    BY <1>2, <1>7, <1>15
  <2>2. PICK l \in {"tickslock", "idelock"} : s[1] = release(l)
    BY <1>10, <2>1 DEF Given
  <2>3. s[1].op = "release" /\ s[1].on = l
    BY <2>2, FieldsLock
  <2>4. Leads(Held(e), s[1], f[2]) /\ Leads(f[2], s[2], f[2 + 1])
    BY <1>9, <2>1
  <2>5. PICK h, i, k, j, m : h = Held(e) /\ i = s[1] /\ k = f[2] /\ j = s[2] /\ m = f[2 + 1] /\ Leads(h, i, k) /\ Leads(k, j, m)
    BY <2>4
  <2>6. k = h \ {l}
    BY <2>3, <2>5 DEF Leads
  <2>7. k = {"ptable"}
    BY <2>1, <2>5 DEF Leads
  <2>8. "ptable" \in Held(e) /\ l # "ptable"
    BY <2>5, <2>6, <2>7
  <2>9. lock["ptable"] = e
    BY <1>11, <1>12, <2>3, <2>8, MineOf
  <2> QED BY <1>1, <1>4, <1>6, <1>7, <1>10, <1>12, <2>3, <2>9 DEF Pends
<1>16. CASE b = 3
  <2>1. 1 \in 1 .. Len(s) /\ 2 \in 1 .. Len(s) /\ b - 1 = 2 /\ b > 1 /\ 1 + 1 = 2
    BY <1>7, <1>16
  <2>2. (n = Ticks /\ s[2] = release("tickslock")) \/ (n = Buffer(p) /\ s[2] = release("idelock"))
    BY <1>10, <2>1 DEF Given
  <2>3. s[1].op = "acquire" /\ s[1].on = "ptable"
    BY <1>10, <1>16, FieldsLock
  <2>4. Leads(Held(e), s[1], f[2]) /\ Leads(f[2], s[2], f[2 + 1])
    BY <1>9, <2>1
  <2>5. PICK h, i, k, j, m : h = Held(e) /\ i = s[1] /\ k = f[2] /\ j = s[2] /\ m = f[2 + 1] /\ Leads(h, i, k) /\ Leads(k, j, m)
    BY <2>4
  <2>6. k = h \cup {"ptable"}
    BY <2>3, <2>5 DEF Leads
  <2>7. ASSUME NEW l \in {"tickslock", "idelock"}, s[2] = release(l) PROVE lock[l] = e
    <3>1. j.op = "release" /\ j.on = l
      BY <2>5, <2>7, FieldsLock
    <3>2. l \in k
      BY <2>5, <3>1 DEF Leads
    <3>3. l \in Held(e)
      BY <2>5, <2>6, <3>2
    <3>4. cpu[e].at # "popcli"
      BY <1>13, <2>3
    <3> QED BY <1>11, <3>3, <3>4, MineOf
  <2>8. (n = Ticks /\ lock["tickslock"] = e) \/ (n = Buffer(p) /\ lock["idelock"] = e)
    BY <2>2, <2>7
  <2> QED BY <1>1, <1>4, <1>6, <1>7, <1>10, <1>12, <2>3, <2>8 DEF Pends
<1> QED BY <1>10, <1>14, <1>15, <1>16

----------------------------------------------------------------------------
(* The steps that wake somebody, or put him to sleep.                      *)

LEMMA Guarding ==
  ASSUME Safe, NEW c \in Apics, NEW op, Doing(c, op)
  PROVE  /\ op \in {"reap", "block", "tidy", "runnable", "wakeup1", "zombie", "kill"} => lock["ptable"] = c
         /\ op \in {"tick", "doze"} => lock["tickslock"] = c
         /\ op \in {"request", "ideintr", "idestart", "await"} => lock["idelock"] = c
<1>1. EveryAccessLocked
  BY AccessLocked DEF Safe
<1>2. cpu[c].at = "run" /\ Todo(c) # <<>> /\ Now(c).op = op
  BY DEF Doing
<1>3. PICK l : op \in DOMAIN Guarded => l = Guarded[op]
  OBVIOUS
<1>4. op \in DOMAIN Guarded /\ l # "kmem" => lock[l] = c
  BY <1>1, <1>2, <1>3 DEF EveryAccessLocked
<1>5. CASE op \in {"reap", "block", "tidy", "runnable", "wakeup1", "zombie", "kill"}
  <2>1. op \in DOMAIN Guarded /\ l = "ptable"
    BY <1>3, <1>5 DEF Guarded
  <2> QED BY <1>4, <1>5, <2>1
<1>6. CASE op \in {"tick", "doze"}
  <2>1. op \in DOMAIN Guarded /\ l = "tickslock"
    BY <1>3, <1>6 DEF Guarded
  <2> QED BY <1>4, <1>6, <2>1
<1>7. CASE op \in {"request", "ideintr", "idestart", "await"}
  <2>1. op \in DOMAIN Guarded /\ l = "idelock"
    BY <1>3, <1>7 DEF Guarded
  <2> QED BY <1>4, <1>7, <2>1
<1> QED BY <1>5, <1>6, <1>7

\* One that puts nobody to sleep, and takes no wakeup from who is about to sleep.
LEMMA KeepsOn ==
  ASSUME WakeInv, NEW c, NEW out, NEW in, Flow(c, out, in), TableKept, UNCHANGED <<ticks, disk>>, in = {},
         \A x \in out : x.op \notin {"doze", "request", "ideintr", "idestart"},
         \A p \in Procs : Sleeps(p, Ticks)' /\ Waking("tickslock", Ticks) => Waking("tickslock", Ticks)',
         \A p \in Procs : Sleeps(p, Buffer(p))' /\ Waking("idelock", Buffer(p)) => Waking("idelock", Buffer(p))'
  PROVE  WakeInv'
<1>1. ASSUME NEW p \in Procs PROVE (Slept(p) /\ TimeWakes(p) /\ DiskWakes(p) /\ ChildWakes(p) /\ Asked(p))'
  <2>1. Slept(p) /\ TimeWakes(p) /\ DiskWakes(p) /\ ChildWakes(p) /\ Asked(p)
    BY DEF WakeInv
  <2>2. (Sleeps(p, Ticks)' => Sleeps(p, Ticks)) /\ (Sleeps(p, Buffer(p))' => Sleeps(p, Buffer(p)))
        /\ (Sleeps(p, p)' => Sleeps(p, p))
    BY SleepsBack DEF Ticks, Buffer
  <2>3. Due(p) => Due(p)' \/ Wakeful(p)'
    BY DueOn
  <2>4. Slept(p)'
    BY <2>1, SleptKept
  <2>5. TimeWakes(p)'
    <3> SUFFICES ASSUME Sleeps(p, Ticks)' PROVE Due(p)' \/ Waking("tickslock", Ticks)'
      BY DEF TimeWakes, Ticks
    <3>1. ~ Wakeful(p)'
      BY DEF Wakeful, Sleeps
    <3> QED BY <2>1, <2>2, <2>3, <3>1 DEF TimeWakes
  <2>6. DiskWakes(p)'
    <3> SUFFICES ASSUME Sleeps(p, Buffer(p))' PROVE Queued(p)' \/ Waking("idelock", Buffer(p))'
      BY DEF DiskWakes, Buffer
    <3> QED BY <2>1, <2>2 DEF DiskWakes, Queued
  <2>7. proc'[p].killed => proc[p].killed
    BY DEF TableKept
  <2>8. \A q \in Procs : proc'[q].state = "ZOMBIE" => proc[q].state = "ZOMBIE" /\ proc'[q].parent = proc[q].parent
    BY DEF TableKept
  <2>9. ChildWakes(p)'
    BY <2>1, <2>2, <2>7, <2>8, ChildKept
  <2>10. Queued(p) \/ p \in disk.done => Queued(p)' \/ p \in disk'.done
    BY DEF Queued
  <2>11. Asked(p)'
    BY <2>1, <2>10, AskKept
  <2> QED BY <2>4, <2>5, <2>6, <2>9, <2>11
<1>2. Do("ideintr") \notin out /\ Do("idestart") \notin out
  BY FieldsOn DEF Do
<1>3. Served'
  BY <1>2, ServingOn DEF Served, WakeInv
<1>4. Parents'
  BY ParentsKept DEF WakeInv
<1> QED BY <1>1, <1>3, <1>4 DEF WakeInv

\* Who is about to wake somebody does not give up a lock before.
LEMMA WakesRelease ==
  ASSUME Safe, WakeInv, NEW c \in Apics, release_unlock(c), ~ panic'
  PROVE  WakeInv'
<1>1. PICK l : l = Now(c).on /\ lock[l] = c /\ lock' = [lock EXCEPT ![l] = Nobody]
  BY DEF release_unlock, holding
<1>2. Todo(c) # <<>> /\ Now(c).op = "release" /\ UNCHANGED <<todo, kern, proc, ticks, disk>>
  BY DEF release_unlock, Doing
<1>3. DOMAIN cpu = Apics /\ "run" \in DOMAIN cpu[c] /\ DOMAIN lock = Locks
  BY DEF Safe, Core, DataTypes, CpuType
<1>4. \A d \in Apics : cpu'[d].run = cpu[d].run
  <2>1. cpu' = [cpu EXCEPT ![c].at = "popcli"]
    BY DEF release_unlock
  <2> QED BY <1>3, <2>1
<1>5. PICK out, in : out = {} /\ in = {}
  OBVIOUS
<1>6. Flow(c, out, in)
  BY <1>2, <1>4, <1>5, FlowStill
<1>7. \A d \in Apics : Todo(d)' = Todo(d)
  BY <1>2, <1>4 DEF Todo
<1>8. PICK s, V : s = Todo(c) /\ s \in Seq(V) /\ Smooth(s)
  BY Runs DEF Safe, Core, ListInv, SmoothInv
<1>9. \A x \in ToSet(s) : x.op # "wakeup1"
  <2> SUFFICES ASSUME NEW x \in ToSet(s), x.op = "wakeup1" PROVE FALSE
    OBVIOUS
  <2>1. x = Head(s) \/ x \in ToSet(Tail(s))
    BY <1>2, <1>8, SetHead
  <2>2. x \in ToSet(Tail(s))
    BY <1>2, <1>8, <2>1 DEF Now
  <2>3. ~ Rough(Head(s), x)
    BY <1>2, <1>8, <2>2, Behind
  <2> QED BY <1>2, <1>8, <2>3 DEF Rough, Now
<1>10. ASSUME NEW m \in Locks, NEW n, Waking(m, n) PROVE Waking(m, n)'
  <2>1. PICK d \in Apics : lock[m] = d /\ On("wakeup1", n) \in ToSet(Todo(d))
    BY <1>10 DEF Waking
  <2>2. d # c
    BY <1>8, <1>9, <2>1, FieldsOn
  <2>3. lock'[m] = d
    BY <1>1, <1>3, <2>1, <2>2
  <2> QED BY <1>7, <2>1, <2>3 DEF Waking
<1>11. (Waking("tickslock", Ticks) => Waking("tickslock", Ticks)')
       /\ \A p \in Procs : Waking("idelock", Buffer(p)) => Waking("idelock", Buffer(p))'
  BY <1>10 DEF Locks, Ticks, Buffer
<1>12. \A x \in out : x.op \notin {"doze", "request", "ideintr", "idestart"}
  BY <1>5
<1>13. TableKept /\ UNCHANGED <<ticks, disk>>
  BY <1>2, SameTable
<1> QED BY <1>5, <1>6, <1>11, <1>12, <1>13, KeepsOn

LEMMA WakesWakeup ==
  ASSUME Safe, WakeInv, NEW c \in Apics, change(c), Doing(c, "wakeup1")
  PROVE  WakeInv'
<1>1. PICK m : m = Now(c).n /\ Now(c).op = "wakeup1" /\ Todo(c) # <<>>
  BY DEF Doing
<1>2. UNCHANGED <<cpu, lock, ticks, disk>> /\ Then(c, <<>>) /\ proc' = Woken(proc, m)
  BY <1>1 DEF change, Change
<1>3. lock["ptable"] = c
  BY Guarding
<1>4. \A q \in Procs : DOMAIN proc[q] = Fields
  BY DEF Safe, Core, DataTypes, Fields
<1>5. \A q \in Procs : /\ proc'[q].killed = proc[q].killed /\ proc'[q].chan = proc[q].chan /\ proc'[q].parent = proc[q].parent
                       /\ proc'[q].state = IF proc[q].state = "SLEEPING" /\ proc[q].chan = m THEN "RUNNABLE" ELSE proc[q].state
  BY <1>2, <1>4, WokenIs DEF Alike
<1>6. TableKept
  BY <1>5 DEF TableKept
<1>7. PICK out, in, code : out = {Now(c)} /\ in = ToSet(code) /\ code = <<>>
  OBVIOUS
<1>8. in = {}
  BY <1>7, SetNil
<1>9. Flow(c, out, in)
  <2>1. \E X : code \in Seq(Instructions(X))
    BY <1>7
  <2> QED BY <1>1, <1>2, <1>7, <2>1, FlowThen DEF Safe
<1>10. ASSUME NEW p \in Procs, NEW l \in {"tickslock", "idelock"}, NEW n,
             (l = "tickslock" /\ n = Ticks) \/ (l = "idelock" /\ n = Buffer(p)), Sleeps(p, n)', Waking(l, n)
       PROVE Waking(l, n)'
  <2>1. PICK d \in Apics : \E x : x = On("wakeup1", n) /\ lock[l] = d /\ x \in ToSet(Todo(d))
    BY <1>10 DEF Waking
  <2>2. PICK x : x = On("wakeup1", n) /\ lock[l] = d /\ x \in ToSet(Todo(d))
    BY <2>1
  <2>3. x.op = "wakeup1" /\ x.n = n
    BY <2>2, FieldsOn
  <2>4. CASE x \in ToSet(Todo(d)')
    BY <1>2, <2>2, <2>4 DEF Waking
  <2>5. CASE x \notin ToSet(Todo(d)')
    <3>1. d = c /\ x \in out
      BY <1>9, <2>2, <2>3, <2>5 DEF Flow, Rousing
    <3>2. n = m
      BY <1>1, <1>7, <2>3, <3>1
    <3>3. ~ (proc'[p].state = "SLEEPING" /\ proc'[p].chan = n)
      BY <1>5, <3>2
    <3>4. PICK y \in ToSet(kern'[p]) : y.op = "block" /\ y.n = n
      BY <1>10, <3>3 DEF Sleeps
    <3>5. y \in ToSet(kern[p])
      BY <1>8, <1>9, <3>4 DEF Flow
    <3>6. PICK e \in Apics : Pends(e, p, n)
      BY <3>4, <3>5, Pending
    <3>7. e # c
      BY <1>1, <3>6 DEF Pends
    <3>8. Ticks # Buffer(p)
      BY DEF Ticks, Buffer, Procs
    <3> QED BY <1>3, <1>10, <2>2, <3>1, <3>6, <3>7, <3>8 DEF Pends
  <2> QED BY <2>4, <2>5
<1>11. \A p \in Procs : Sleeps(p, Ticks)' /\ Waking("tickslock", Ticks) => Waking("tickslock", Ticks)'
  BY <1>10 DEF Ticks
<1>12. \A p \in Procs : Sleeps(p, Buffer(p))' /\ Waking("idelock", Buffer(p)) => Waking("idelock", Buffer(p))'
  BY <1>10 DEF Buffer
<1>13. \A x \in out : x.op \notin {"doze", "request", "ideintr", "idestart"}
  BY <1>1, <1>7
<1> QED BY <1>2, <1>6, <1>8, <1>9, <1>11, <1>12, <1>13, KeepsOn

\* One that changes only the table.
LEMMA TableWakes ==
  ASSUME WakeInv, NEW c, NEW out, NEW in, Flow(c, out, in), UNCHANGED <<lock, ticks, disk>>, in = {},
         \A x \in out : x.op \notin {"doze", "request"} \cup Rousing,
         \A p \in Procs : Slept(p)' /\ ChildWakes(p)',
         \A p \in Procs : (Sleeps(p, Ticks)' => Sleeps(p, Ticks)) /\ (Sleeps(p, Buffer(p))' => Sleeps(p, Buffer(p))),
         Parents'
  PROVE  WakeInv'
<1>1. \A n : On("wakeup1", n) \notin out
  BY FieldsOn DEF Rousing
<1>2. Do("ideintr") \notin out /\ Do("idestart") \notin out
  BY FieldsOn DEF Do, Rousing
<1>3. LocksKept
  BY SameLocks
<1>4. ASSUME NEW p \in Procs PROVE (TimeWakes(p) /\ DiskWakes(p) /\ Asked(p))'
  <2>1. TimeWakes(p) /\ DiskWakes(p) /\ Asked(p)
    BY DEF WakeInv
  <2>2. Due(p) => Due(p)' \/ Wakeful(p)'
    BY DueOn
  <2>3. (Waking("tickslock", Ticks) => Waking("tickslock", Ticks)')
        /\ (Waking("idelock", Buffer(p)) => Waking("idelock", Buffer(p))')
    BY <1>1, <1>3, WakingOn DEF Locks, Ticks, Buffer
  <2>4. Queued(p) => Queued(p)'
    BY DEF Queued
  <2>5. TimeWakes(p)'
    BY <2>1, <2>2, <2>3, TimeKept
  <2>6. DiskWakes(p)'
    BY <2>1, <2>3, <2>4, DiskKept
  <2>7. Queued(p) \/ p \in disk.done => Queued(p)' \/ p \in disk'.done
    BY <2>4
  <2>8. Asked(p)'
    BY <2>1, <2>7, AskKept
  <2> QED BY <2>5, <2>6, <2>8
<1>5. Served'
  BY <1>2, ServingOn DEF Served, WakeInv
<1> QED BY <1>4, <1>5 DEF WakeInv

LEMMA WakesBlock ==
  ASSUME Safe, WakeInv, NEW c \in Apics, change(c), Doing(c, "block")
  PROVE  WakeInv'
<1>1. PICK op : op = "block" /\ op \notin CpuOps \cup BootOps /\ Doing(c, op)
  BY DEF CpuOps, BootOps
<1>2. PICK p \in Procs : p = cpu[c].run /\ p = Me(c) /\ p # 0 /\ Todo(c) = kern[p] /\ Todo(c) # <<>> /\ Now(c).op = op
  BY <1>1, ProcessDoes
<1>3. PICK i : i = Now(c) /\ i.op = "block"
  BY <1>1, <1>2
<1>4. UNCHANGED <<cpu, lock, ticks, disk>> /\ Then(c, <<>>) /\ proc' = [proc EXCEPT ![p].chan = i.n, ![p].state = "SLEEPING"]
  BY <1>2, <1>3 DEF change, Change
<1>5. proc[p].state = "RUNNING"
  BY <1>1, <1>2, RunsNow
<1>6. DOMAIN proc = Procs /\ \A q \in Procs : DOMAIN proc[q] = Fields
  BY DEF Safe, Core, DataTypes, Fields
<1>7. \A q \in Procs \ {p} : proc'[q] = proc[q]
  BY <1>4, <1>6
<1>8. /\ proc'[p].chan = i.n /\ proc'[p].state = "SLEEPING"
      /\ proc'[p].killed = proc[p].killed /\ proc'[p].parent = proc[p].parent
  BY <1>4, <1>6 DEF Fields
<1>9. PICK out, in, code : out = {Now(c)} /\ in = ToSet(code) /\ code = <<>>
  OBVIOUS
<1>10. in = {}
  BY <1>9, SetNil
<1>11. Flow(c, out, in)
  <2>1. \E X : code \in Seq(Instructions(X))
    BY <1>9
  <2> QED BY <1>2, <1>4, <1>9, <2>1, FlowThen DEF Safe
<1>12. i \in ToSet(kern[p])
  <2>1. PICK s, V : s = Todo(c) /\ s \in Seq(V)
    BY Runs DEF Safe, Core
  <2> QED BY <1>2, <1>3, <2>1, SetHead DEF Now
<1>13. ASSUME NEW q \in Procs, NEW n, Sleeps(q, n)' PROVE Sleeps(q, n)
  <2>1. CASE \E x \in ToSet(kern'[q]) : x.op = "block" /\ x.n = n
    <3>1. PICK x \in ToSet(kern'[q]) : x.op = "block" /\ x.n = n
      BY <2>1
    <3>2. x \in ToSet(kern[q])
      BY <1>10, <1>11, <3>1 DEF Flow
    <3> QED BY <3>1, <3>2 DEF Sleeps
  <2>2. CASE proc'[q].state = "SLEEPING" /\ proc'[q].chan = n
    BY <1>3, <1>7, <1>8, <1>12, <2>2 DEF Sleeps
  <2> QED BY <1>13, <2>1, <2>2 DEF Sleeps
<1>14. \A q \in Procs : (Sleeps(q, Ticks)' => Sleeps(q, Ticks)) /\ (Sleeps(q, Buffer(q))' => Sleeps(q, Buffer(q)))
  BY <1>13 DEF Ticks, Buffer
<1>15. ASSUME NEW q \in Procs PROVE Slept(q)' /\ ChildWakes(q)'
  <2>1. Slept(q) /\ ChildWakes(q)
    BY DEF WakeInv
  <2>2. Slept(q)'
    <3>1. CASE q = p
      <4>1. PICK n : n = i.n
        OBVIOUS
      <4>2. PICK e \in Apics : Pends(e, p, n)
        BY <1>3, <1>12, <4>1, Pending
      <4> QED BY <1>8, <3>1, <4>1, <4>2 DEF Slept, Pends, Ticks, Buffer
    <3>2. CASE q # p
      BY <1>7, <2>1, <3>2 DEF Slept, Ticks, Buffer
    <3> QED BY <3>1, <3>2
  <2>3. Sleeps(q, q)' => Sleeps(q, q)
    BY <1>13
  <2>4. proc'[q].killed => proc[q].killed
    BY <1>7, <1>8
  <2>5. \A r \in Procs : proc'[r].state = "ZOMBIE" => proc[r].state = "ZOMBIE" /\ proc'[r].parent = proc[r].parent
    BY <1>7, <1>8
  <2> QED BY <2>1, <2>2, <2>3, <2>4, <2>5, ChildKept
<1>16. \A x \in out : x.op \notin {"doze", "request"} \cup Rousing
  BY <1>3, <1>9 DEF Rousing
<1>17. Parents'
  BY <1>7, <1>8 DEF WakeInv, Parents, initproc
<1> QED BY <1>4, <1>10, <1>11, <1>14, <1>15, <1>16, <1>17, TableWakes

\* While c has ptable.lock nobody else is about to sleep for a child.
LEMMA NoneWaits ==
  ASSUME Safe, NEW c \in Apics, lock["ptable"] = c, Now(c).op \notin {"acquire", "release", "block"},
         NEW p \in Procs, NEW x \in ToSet(kern[p]), x.op = "block"
  PROVE  x.n # p
<1> SUFFICES ASSUME x.n = p PROVE FALSE
  OBVIOUS
<1>1. PICK e \in Apics : Pends(e, p, p)
  BY Pending
<1>2. p # Ticks /\ p # Buffer(p)
  BY DEF Ticks, Buffer, Procs
<1> QED BY <1>1, <1>2 DEF Pends

LEMMA WakesZombie ==
  ASSUME Safe, WakeInv, NEW c \in Apics, change(c), Doing(c, "zombie"), ~ panic'
  PROVE  WakeInv'
<1>1. PICK op : op = "zombie" /\ op \notin CpuOps \cup BootOps /\ Doing(c, op)
  BY DEF CpuOps, BootOps
<1>2. PICK p \in Procs : p = cpu[c].run /\ p = Me(c) /\ p # 0 /\ Todo(c) = kern[p] /\ Todo(c) # <<>> /\ Now(c).op = op
  BY <1>1, ProcessDoes
<1>3. PICK z : z = Zombie(p)
  OBVIOUS
<1>4. UNCHANGED <<cpu, lock, ticks, disk>> /\ Then(c, <<>>) /\ proc' = z /\ p # initproc
  BY <1>1, <1>2, <1>3 DEF change, Change
<1>5. lock["ptable"] = c
  BY Guarding
<1>6. /\ DOMAIN z = Procs /\ z[p].state = "ZOMBIE"
      /\ \A q \in Procs :
           /\ Alike(z[q], proc[q])
           /\ z[q].parent = IF proc[q].parent = p THEN initproc ELSE proc[q].parent
           /\ q # p => z[q].state = proc[q].state \/ (proc[q].state = "SLEEPING" /\ z[q].state = "RUNNABLE")
           /\ q # p /\ z[q].state = "SLEEPING" => proc[q].chan # proc[p].parent
                /\ (proc[q].chan = initproc => \A r \in Procs : proc[r].parent = p => proc[r].state # "ZOMBIE")
  BY <1>3, ZombieIs DEF Safe, Core
<1>7. \A q \in Procs : z[q].state = "SLEEPING" => proc[q].state = "SLEEPING" /\ q # p
  BY <1>6
<1>8. \A q \in Procs : z[q].chan = proc[q].chan /\ z[q].killed = proc[q].killed
  BY <1>6 DEF Alike
<1>9. PICK out, in, code : out = {Now(c)} /\ in = ToSet(code) /\ code = <<>>
  OBVIOUS
<1>10. in = {}
  BY <1>9, SetNil
<1>11. Flow(c, out, in)
  <2>1. \E X : code \in Seq(Instructions(X))
    BY <1>9
  <2> QED BY <1>2, <1>4, <1>9, <2>1, FlowThen DEF Safe
<1>12. \A q \in Procs : \A x \in ToSet(kern'[q]) : x.op = "block" => x \in ToSet(kern[q])
  BY <1>10, <1>11 DEF Flow
<1>13. ASSUME NEW q \in Procs, NEW n, Sleeps(q, n)' PROVE Sleeps(q, n)
  BY <1>4, <1>7, <1>8, <1>12, <1>13 DEF Sleeps
<1>14. \A q \in Procs : (Sleeps(q, Ticks)' => Sleeps(q, Ticks)) /\ (Sleeps(q, Buffer(q))' => Sleeps(q, Buffer(q)))
  BY <1>13 DEF Ticks, Buffer
<1>15. \A q \in Procs : Slept(q)'
  BY <1>4, <1>7, <1>8 DEF WakeInv, Slept, Ticks, Buffer
<1>16. Parents'
  BY <1>4, <1>6 DEF WakeInv, Parents, initproc
<1>17. ASSUME NEW r \in Procs, Sleeps(r, r)', NEW q \in Procs, z[q].parent = r, z[q].state = "ZOMBIE"
       PROVE FALSE
  <2>1. r # p /\ z[r].state = "SLEEPING" /\ proc[r].chan = r
    <3>1. \A x \in ToSet(kern'[r]) : x.op = "block" => x.n # r
      BY <1>1, <1>2, <1>5, <1>12, NoneWaits
    <3> QED BY <1>4, <1>7, <1>8, <1>17, <3>1 DEF Sleeps
  <2>2. proc[r].chan # proc[p].parent
        /\ (proc[r].chan = initproc => \A s \in Procs : proc[s].parent = p => proc[s].state # "ZOMBIE")
    BY <1>6, <2>1
  <2>3. \A s \in Procs : proc[s].parent = r => proc[s].state # "ZOMBIE"
    <3>1. Sleeps(r, r)
      BY <1>13, <1>17
    <3> QED BY <3>1 DEF WakeInv, ChildWakes
  <2>4. CASE q = p
    <3>1. proc[p].parent # p
      BY <1>4 DEF WakeInv, Parents
    <3> QED BY <1>6, <1>17, <2>1, <2>2, <2>4, <3>1
  <2>5. CASE q # p
    <3>1. proc[q].state = "ZOMBIE"
      BY <1>6, <1>17, <2>5
    <3> QED BY <1>6, <1>17, <2>1, <2>2, <2>3, <3>1
  <2> QED BY <2>4, <2>5
<1>18. \A r \in Procs : ChildWakes(r)'
  <2> SUFFICES ASSUME NEW r \in Procs, Sleeps(r, r)'
               PROVE  ~ proc'[r].killed /\ \A q \in Procs : proc'[q].parent = r => proc'[q].state # "ZOMBIE"
    BY DEF ChildWakes
  <2>1. Sleeps(r, r)
    BY <1>13
  <2>2. ~ proc[r].killed
    BY <2>1 DEF WakeInv, ChildWakes
  <2> QED BY <1>4, <1>8, <1>17, <2>2
<1>19. \A x \in out : x.op \notin {"doze", "request"} \cup Rousing
  BY <1>1, <1>2, <1>9 DEF Rousing
<1>20. \A q \in Procs : Slept(q)' /\ ChildWakes(q)'
  BY <1>15, <1>18
<1> QED BY <1>4, <1>10, <1>11, <1>14, <1>16, <1>19, <1>20, TableWakes

LEMMA WakesKill ==
  ASSUME Safe, WakeInv, NEW c \in Apics, change(c), Doing(c, "kill")
  PROVE  WakeInv'
<1>1. PICK k : k = Now(c).n /\ Now(c).op = "kill" /\ Todo(c) # <<>>
  BY DEF Doing
<1>2. UNCHANGED <<cpu, lock, ticks, disk>> /\ Then(c, <<>>) /\ proc' = Killed(k)
  BY <1>1 DEF change, Change
<1>3. lock["ptable"] = c
  BY Guarding
<1>4. DOMAIN proc = Procs /\ \A q \in Procs : DOMAIN proc[q] = Fields
  BY DEF Safe, Core, DataTypes, Fields
<1>5. ASSUME NEW q \in Procs
      PROVE  \/ proc'[q] = proc[q]
             \/ /\ proc'[q].state # "SLEEPING" /\ proc'[q].parent = proc[q].parent
                /\ proc'[q].state = "ZOMBIE" => proc[q].state = "ZOMBIE"
  <2>1. CASE proc' = proc
    BY <2>1
  <2>2. CASE proc' # proc
    <3>1. proc' = [proc EXCEPT ![k].killed = TRUE, ![k].state = IF @ = "SLEEPING" THEN "RUNNABLE" ELSE @]
      BY <1>2, <2>2 DEF Killed
    <3>2. CASE q # k
      BY <1>4, <3>1, <3>2
    <3>3. CASE q = k
      <4>1. proc'[q] = [proc[q] EXCEPT !.killed = TRUE, !.state = IF @ = "SLEEPING" THEN "RUNNABLE" ELSE @]
        BY <1>4, <3>1, <3>3
      <4> QED BY <1>4, <4>1 DEF Fields
    <3> QED BY <3>2, <3>3
  <2> QED BY <2>1, <2>2
<1>6. PICK out, in, code : out = {Now(c)} /\ in = ToSet(code) /\ code = <<>>
  OBVIOUS
<1>7. in = {}
  BY <1>6, SetNil
<1>8. Flow(c, out, in)
  <2>1. \E X : code \in Seq(Instructions(X))
    BY <1>6
  <2> QED BY <1>1, <1>2, <1>6, <2>1, FlowThen DEF Safe
<1>9. \A q \in Procs : \A x \in ToSet(kern'[q]) : x.op = "block" => x \in ToSet(kern[q])
  BY <1>7, <1>8 DEF Flow
<1>10. ASSUME NEW q \in Procs, NEW n, Sleeps(q, n)' PROVE Sleeps(q, n)
  BY <1>5, <1>9, <1>10 DEF Sleeps
<1>11. \A q \in Procs : (Sleeps(q, Ticks)' => Sleeps(q, Ticks)) /\ (Sleeps(q, Buffer(q))' => Sleeps(q, Buffer(q)))
  BY <1>10 DEF Ticks, Buffer
<1>12. \A q \in Procs : Slept(q)'
  BY <1>5 DEF WakeInv, Slept, Ticks, Buffer
<1>13. Parents'
  BY <1>5 DEF WakeInv, Parents, initproc
<1>14. \A r \in Procs : ChildWakes(r)'
  <2> SUFFICES ASSUME NEW r \in Procs, Sleeps(r, r)'
               PROVE  ~ proc'[r].killed /\ \A q \in Procs : proc'[q].parent = r => proc'[q].state # "ZOMBIE"
    BY DEF ChildWakes
  <2>1. Sleeps(r, r)
    BY <1>10
  <2>2. ~ proc[r].killed /\ \A q \in Procs : proc[q].parent = r => proc[q].state # "ZOMBIE"
    BY <2>1 DEF WakeInv, ChildWakes
  <2>3. \A x \in ToSet(kern'[r]) : x.op = "block" => x.n # r
    BY <1>1, <1>3, <1>9, NoneWaits
  <2>4. proc'[r].state = "SLEEPING"
    BY <2>3 DEF Sleeps
  <2> QED BY <1>5, <2>2, <2>4
<1>15. \A x \in out : x.op \notin {"doze", "request"} \cup Rousing
  BY <1>1, <1>6 DEF Rousing
<1>16. \A q \in Procs : Slept(q)' /\ ChildWakes(q)'
  BY <1>12, <1>14
<1> QED BY <1>2, <1>7, <1>8, <1>11, <1>13, <1>15, <1>16, TableWakes

\* What a list, a lock and a table that stay leave to a process.
LEMMA MostKept ==
  ASSUME WakeInv, NEW c, NEW out, NEW in, Flow(c, out, in), proc' = proc, NEW p \in Procs,
         p = cpu[c].run => \A x \in in : x.op # "block"
  PROVE  /\ Slept(p)' /\ ChildWakes(p)'
         /\ Sleeps(p, Ticks)' => Sleeps(p, Ticks)
         /\ Sleeps(p, Buffer(p))' => Sleeps(p, Buffer(p))
<1>1. Slept(p) /\ ChildWakes(p)
  BY DEF WakeInv
<1>2. TableKept
  BY SameTable
<1>3. (Sleeps(p, Ticks)' => Sleeps(p, Ticks)) /\ (Sleeps(p, Buffer(p))' => Sleeps(p, Buffer(p)))
      /\ (Sleeps(p, p)' => Sleeps(p, p))
  BY <1>2, SleepsBack DEF Ticks, Buffer
<1>4. Slept(p)'
  BY <1>1, <1>2, SleptKept
<1>5. ChildWakes(p)'
  BY <1>1, <1>3, ChildKept
<1> QED BY <1>3, <1>4, <1>5

\* The tick: who sleeps for time is about to be woken.
LEMMA WakesTick ==
  ASSUME Safe, WakeInv, NEW c \in Apics, tick(c)
  PROVE  WakeInv'
<1>1. Doing(c, "tick") /\ Todo(c) # <<>> /\ Now(c).op = "tick" /\ Then(c, <<>>) /\ UNCHANGED <<cpu, lock, proc, disk>>
  BY DEF tick, Doing
<1>2. PICK out, in, code : out = {Now(c)} /\ in = ToSet(code) /\ code = <<>>
  OBVIOUS
<1>3. in = {}
  BY <1>2, SetNil
<1>4. Flow(c, out, in)
  <2>1. \E X : code \in Seq(Instructions(X))
    BY <1>2
  <2> QED BY <1>1, <1>2, <2>1, FlowThen DEF Safe
<1>5. \A x \in out : x.op = "tick"
  BY <1>1, <1>2
<1>6. Waking("tickslock", Ticks)'
  <2>1. PICK x : x = On("wakeup1", Ticks) /\ x.op = "wakeup1"
    BY FieldsOn
  <2>2. PICK s, V : s = Todo(c) /\ s \in Seq(V) /\ Rings(s)
    BY Runs DEF Safe, Core, ListInv
  <2>3. Has(s, "tick")
    <3>1. Len(s) \in Nat \ {0} /\ Head(s) = s[1]
      BY <1>1, <2>2, HeadTailProperties, EmptySeq
    <3>2. 1 \in 1 .. Len(s) /\ s[1].op = "tick"
      BY <1>1, <2>2, <3>1 DEF Now
    <3> QED BY <3>2 DEF Has
  <2>4. x \in ToSet(s)
    BY <2>1, <2>2, <2>3, SetIs DEF Rings
  <2>5. x \in ToSet(Todo(c)')
    BY <1>4, <1>5, <2>1, <2>2, <2>4 DEF Flow, Rousing
  <2>6. lock'["tickslock"] = c
    BY <1>1, Guarding
  <2> QED BY <2>1, <2>5, <2>6 DEF Waking
<1>7. LocksKept /\ TableKept
  BY <1>1, SameLocks, SameTable
<1>8. ASSUME NEW p \in Procs PROVE (Slept(p) /\ TimeWakes(p) /\ DiskWakes(p) /\ ChildWakes(p) /\ Asked(p))'
  <2>1. DiskWakes(p) /\ Asked(p)
    BY DEF WakeInv
  <2>2. Slept(p)' /\ ChildWakes(p)' /\ (Sleeps(p, Buffer(p))' => Sleeps(p, Buffer(p)))
    BY <1>1, <1>3, <1>4, MostKept
  <2>3. TimeWakes(p)'
    BY <1>6 DEF TimeWakes, Ticks
  <2>4. Queued(p) => Queued(p)'
    BY <1>1 DEF Queued
  <2>5. Waking("idelock", Buffer(p)) => Waking("idelock", Buffer(p))'
    <3>1. On("wakeup1", Buffer(p)) \notin out
      BY <1>5, FieldsOn
    <3> QED BY <1>4, <1>7, <3>1, WakingOn DEF Locks, Buffer
  <2>6. DiskWakes(p)'
    BY <2>1, <2>2, <2>4, <2>5, DiskKept
  <2>7. Queued(p) \/ p \in disk.done => Queued(p)' \/ p \in disk'.done
    BY <1>1, <2>4
  <2>8. Asked(p)'
    BY <1>3, <1>4, <1>5, <2>1, <2>7, AskKept
  <2> QED BY <2>2, <2>3, <2>6, <2>8
<1>9. Served'
  <2>1. Do("ideintr") \notin out /\ Do("idestart") \notin out
    BY <1>5, FieldsOn DEF Do
  <2> QED BY <1>1, <1>4, <2>1, ServingOn DEF Served, WakeInv
<1>10. Parents'
  BY <1>7, ParentsKept DEF WakeInv
<1> QED BY <1>8, <1>9, <1>10 DEF WakeInv

LEMMA WakesRequest ==
  ASSUME Safe, WakeInv, NEW c \in Apics, request(c)
  PROVE  WakeInv'
<1>1. PICK op : op = "request" /\ op \notin CpuOps \cup BootOps /\ Doing(c, op)
  BY DEF request, CpuOps, BootOps
<1>2. PICK p \in Procs : p = cpu[c].run /\ p = Me(c) /\ p # 0 /\ Todo(c) = kern[p] /\ Todo(c) # <<>> /\ Now(c).op = op
  BY <1>1, ProcessDoes
<1>3. Then(c, <<>>) /\ UNCHANGED <<cpu, lock, proc, ticks>>
  BY DEF request
<1>4. PICK q \in Seq(Int) : q = disk.queue
  BY DEF Safe, Core, DataTypes
<1>5. disk'.queue = Append(q, p) /\ disk'.done = disk.done /\ disk'.busy = (disk.busy \/ disk.queue = <<>>)
  BY <1>2, <1>4 DEF request, Safe, Core, DataTypes
<1>6. \A x : x \in ToSet(disk'.queue) <=> x \in ToSet(q) \/ x = p
  <2>1. p \in Int
    BY DEF Procs
  <2>2. Append(q, p) = q \o <<p>> /\ <<p>> \in Seq(Int)
    BY <2>1, AppendIsConcat
  <2>3. \A x : x \in ToSet(<<p>>) <=> x = p
    BY DEF ToSet
  <2>4. \A x : x \in ToSet(disk'.queue) <=> x \in ToSet(q) \/ x \in ToSet(<<p>>)
    BY <1>5, <2>2, SetConcat
  <2> QED BY <2>3, <2>4
<1>7. \A r \in Procs : (Queued(r) => Queued(r)') /\ Queued(p)'
  BY <1>4, <1>6 DEF Queued
<1>8. PICK out, in, code : out = {Now(c)} /\ in = ToSet(code) /\ code = <<>>
  OBVIOUS
<1>9. in = {}
  BY <1>8, SetNil
<1>10. Flow(c, out, in)
  <2>1. \E X : code \in Seq(Instructions(X))
    BY <1>8
  <2> QED BY <1>2, <1>3, <1>8, <2>1, FlowThen DEF Safe
<1>11. LocksKept /\ TableKept
  BY <1>3, SameLocks, SameTable
<1>12. ASSUME NEW r \in Procs PROVE (Slept(r) /\ TimeWakes(r) /\ DiskWakes(r) /\ ChildWakes(r) /\ Asked(r))'
  <2>1. Slept(r) /\ TimeWakes(r) /\ DiskWakes(r) /\ ChildWakes(r) /\ Asked(r)
    BY DEF WakeInv
  <2>2. \A x \in out : x.op \notin {"doze", "wakeup1"}
    BY <1>1, <1>2, <1>8
  <2>3. (Slept(r) /\ TimeWakes(r) /\ DiskWakes(r) /\ ChildWakes(r))'
    BY <1>3, <1>7, <1>9, <1>10, <1>11, <2>1, <2>2, HushedKeeps
  <2>4. Asked(r)'
    <3>1. CASE r = p
      BY <1>7, <3>1 DEF Asked
    <3>2. CASE r # p
      <4>1. Queued(r) \/ r \in disk.done => Queued(r)' \/ r \in disk'.done
        BY <1>5, <1>7
      <4> QED BY <1>2, <1>10, <2>1, <3>2, <4>1, AskKept
    <3> QED BY <3>1, <3>2
  <2> QED BY <2>3, <2>4
<1>13. Served'
  <2>1. Do("ideintr") \notin out /\ Do("idestart") \notin out
    BY <1>1, <1>2, <1>8, FieldsOn DEF Do
  <2>2. Serving => Serving'
    BY <1>10, <2>1, ServingOn
  <2> QED BY <1>5, <2>2 DEF Served, WakeInv
<1>14. Parents'
  BY <1>11, ParentsKept DEF WakeInv
<1> QED BY <1>12, <1>13, <1>14 DEF WakeInv

LEMMA WakesIdestart ==
  ASSUME Safe, WakeInv, NEW c \in Apics, idestart(c)
  PROVE  WakeInv'
<1>1. Doing(c, "idestart") /\ Todo(c) # <<>> /\ Now(c).op = "idestart" /\ Then(c, <<>>) /\ UNCHANGED <<cpu, lock, proc, ticks>>
  BY DEF idestart, Doing
<1>2. disk'.queue = disk.queue /\ disk'.done = disk.done /\ disk'.busy = (disk.queue # <<>>)
  BY DEF idestart, Safe, Core, DataTypes
<1>3. PICK out, in, code : out = {Now(c)} /\ in = ToSet(code) /\ code = <<>>
  OBVIOUS
<1>4. in = {}
  BY <1>3, SetNil
<1>5. Flow(c, out, in)
  <2>1. \E X : code \in Seq(Instructions(X))
    BY <1>3
  <2> QED BY <1>1, <1>3, <2>1, FlowThen DEF Safe
<1>6. LocksKept /\ TableKept
  BY <1>1, SameLocks, SameTable
<1>7. \A x \in out : x.op = "idestart"
  BY <1>1, <1>3
<1>8. ASSUME NEW r \in Procs PROVE (Slept(r) /\ TimeWakes(r) /\ DiskWakes(r) /\ ChildWakes(r) /\ Asked(r))'
  <2>1. Slept(r) /\ TimeWakes(r) /\ DiskWakes(r) /\ ChildWakes(r) /\ Asked(r)
    BY DEF WakeInv
  <2>2. Queued(r) => Queued(r)'
    BY <1>2 DEF Queued
  <2>3. (Slept(r) /\ TimeWakes(r) /\ DiskWakes(r) /\ ChildWakes(r))'
    BY <1>1, <1>4, <1>5, <1>6, <1>7, <2>1, <2>2, HushedKeeps
  <2>4. Queued(r) \/ r \in disk.done => Queued(r)' \/ r \in disk'.done
    BY <1>2, <2>2
  <2>5. Asked(r)'
    BY <1>4, <1>5, <1>7, <2>1, <2>4, AskKept
  <2> QED BY <2>3, <2>5
<1>9. Served'
  BY <1>2 DEF Served
<1>10. Parents'
  BY <1>6, ParentsKept DEF WakeInv
<1> QED BY <1>8, <1>9, <1>10 DEF WakeInv

\* The first of the queue is served: its process is about to be woken.
LEMMA WakesIdeintr ==
  ASSUME Safe, WakeInv, NEW c \in Apics, ideintr(c)
  PROVE  WakeInv'
<1>1. Doing(c, "ideintr") /\ Todo(c) # <<>> /\ Now(c).op = "ideintr" /\ UNCHANGED <<cpu, lock, proc, ticks>>
  BY DEF ideintr, Doing
<1>2. lock'["idelock"] = c
  BY <1>1, Guarding
<1>3. PICK q \in Seq(Int) : q = disk.queue
  BY DEF Safe, Core, DataTypes
<1>4. PICK b, w, i, j : b = Head(q) /\ w = wakeup(Buffer(b)) /\ i = Do("idestart") /\ j = release("idelock")
  OBVIOUS
<1>5. PICK code : /\ Then(c, code)
                  /\ \/ q = <<>> /\ code = <<j>> /\ disk' = disk
                     \/ q # <<>> /\ code = w \o <<i, j>> /\ disk' = [disk EXCEPT !.queue = Tail(q), !.done = @ \cup {b}]
  BY <1>3, <1>4 DEF ideintr
<1>6. i.op = "idestart" /\ j.op = "release"
  BY <1>4, FieldsOn, FieldsLock DEF Do
<1>7. PICK X : X = {"acquire", "release", "wakeup1", "idestart"}
  OBVIOUS
<1>8. PICK V : V = Instructions(X)
  OBVIOUS
<1>9. i \in V /\ j \in V
  <2>1. "idestart" \in X /\ {"acquire", "release"} \subseteq X
    BY <1>7
  <2> QED BY <1>4, <1>8, <2>1, TypeOfDo, TypeOfLock DEF Locks
<1>10. q # <<>> => /\ w \in Seq(V) /\ Len(w) = 3 /\ w[2] = On("wakeup1", Buffer(b))
  <2> SUFFICES ASSUME q # <<>> PROVE w \in Seq(V) /\ Len(w) = 3 /\ w[2] = On("wakeup1", Buffer(b))
    OBVIOUS
  <2>1. b \in Int
    BY <1>3, <1>4, HeadTailProperties
  <2>2. PICK n \in Int : n = Buffer(b)
    BY <2>1 DEF Buffer
  <2>3. w = wakeup(n)
    BY <1>4, <2>2
  <2>4. w \in Seq(Instructions({"acquire", "release", "wakeup1"})) /\ Len(w) = 3 /\ w[2] = On("wakeup1", n)
    BY <2>3, SmoothWakeup
  <2>5. {"acquire", "release", "wakeup1"} \subseteq X
    BY <1>7
  <2> QED BY <1>8, <2>2, <2>4, <2>5, MoreOps
<1>11. <<j>> \in Seq(V) /\ <<i, j>> \in Seq(V)
  BY <1>9
<1>12. code \in Seq(V)
  <2>1. CASE q = <<>>
    BY <1>5, <1>11, <2>1
  <2>2. CASE q # <<>>
    <3>1. w \o <<i, j>> \in Seq(V)
      BY <1>10, <1>11, <2>2, ConcatProperties
    <3> QED BY <1>5, <2>2, <3>1
  <2> QED BY <2>1, <2>2
<1>13. PICK out, in : out = {Now(c)} /\ in = ToSet(code)
  OBVIOUS
<1>14. Flow(c, out, in)
  <2>1. \E Y : code \in Seq(Instructions(Y))
    BY <1>8, <1>12
  <2>2. \A d \in Apics : cpu'[d].run = cpu[d].run
    BY <1>1
  <2> QED BY <1>1, <1>5, <1>13, <2>1, <2>2, FlowThen DEF Safe
<1>15. \A x \in in : x.op \notin {"block", "await"}
  <2>1. ToSet(code) \subseteq V
    BY <1>12, SetIs
  <2> QED BY <1>7, <1>8, <1>13, <2>1 DEF Instructions
<1>16. q # <<>> => On("wakeup1", Buffer(b)) \in in /\ i \in in
  <2> SUFFICES ASSUME q # <<>> PROVE On("wakeup1", Buffer(b)) \in in /\ i \in in
    OBVIOUS
  <2>1. PICK r \in Seq(V) : r = <<i, j>> /\ Len(r) = 2 /\ r[1] = i
    BY <1>11
  <2>2. w[2] \in ToSet(w) /\ i \in ToSet(r)
    <3>1. w \in Seq(V) /\ Len(w) = 3
      BY <1>10
    <3>2. 2 \in 1 .. 3 /\ 1 \in 1 .. 2
      OBVIOUS
    <3> QED BY <2>1, <3>1, <3>2, SetIs
  <2>3. code = w \o r
    BY <1>5, <2>1
  <2>4. \A x : x \in ToSet(code) <=> x \in ToSet(w) \/ x \in ToSet(r)
    BY <1>10, <2>1, <2>3, SetConcat
  <2> QED BY <1>10, <1>13, <2>2, <2>4
<1>17. q # <<>> => Waking("idelock", Buffer(b))' /\ Serving'
  <2> SUFFICES ASSUME q # <<>> PROVE Waking("idelock", Buffer(b))' /\ Serving'
    OBVIOUS
  <2>1. PICK x, n : n = Buffer(b) /\ x = On("wakeup1", n) /\ x \in in
    BY <1>16
  <2>2. x \in ToSet(Todo(c)') /\ i \in ToSet(Todo(c)')
    BY <1>14, <1>16, <2>1 DEF Flow
  <2>3. Waking("idelock", n)'
    BY <1>2, <2>1, <2>2 DEF Waking
  <2>4. Serving'
    BY <1>4, <2>2 DEF Serving
  <2>5. b' = b
    OBVIOUS
  <2> QED BY <2>1, <2>3, <2>4 DEF Buffer
<1>18. /\ disk'.queue = <<>> \/ q # <<>>
       /\ \A p : Queued(p) => Queued(p)' \/ (q # <<>> /\ p = b /\ p \in disk'.done)
       /\ \A p \in disk.done : p \in disk'.done
  <2>1. CASE q = <<>>
    BY <1>3, <1>5, <2>1 DEF Queued
  <2>2. CASE q # <<>>
    <3>1. disk'.queue = Tail(q) /\ disk'.done = disk.done \cup {b}
      BY <1>5, <2>2 DEF Safe, Core, DataTypes
    <3>2. \A x : x \in ToSet(q) <=> x = b \/ x \in ToSet(Tail(q))
      BY <1>3, <1>4, <2>2, SetHead
    <3> QED BY <1>3, <2>2, <3>1, <3>2 DEF Queued
  <2> QED BY <2>1, <2>2
<1>19. LocksKept /\ TableKept
  BY <1>1, SameLocks, SameTable
<1>20. \A x \in out : x.op = "ideintr"
  BY <1>1, <1>13
<1>21. \A n : On("wakeup1", n) \notin out
  BY <1>20, FieldsOn
<1>22. ASSUME NEW p \in Procs PROVE (Slept(p) /\ TimeWakes(p) /\ DiskWakes(p) /\ ChildWakes(p) /\ Asked(p))'
  <2>1. TimeWakes(p) /\ DiskWakes(p) /\ Asked(p)
    BY DEF WakeInv
  <2>2. Slept(p)' /\ ChildWakes(p)' /\ (Sleeps(p, Ticks)' => Sleeps(p, Ticks)) /\ (Sleeps(p, Buffer(p))' => Sleeps(p, Buffer(p)))
    BY <1>1, <1>14, <1>15, MostKept
  <2>3. Due(p) => Due(p)' \/ Wakeful(p)'
    BY <1>1, <1>14, <1>20, DueOn
  <2>4. (Waking("tickslock", Ticks) => Waking("tickslock", Ticks)')
        /\ (Waking("idelock", Buffer(p)) => Waking("idelock", Buffer(p))')
    BY <1>14, <1>19, <1>21, WakingOn DEF Locks, Ticks, Buffer
  <2>5. TimeWakes(p)'
    BY <2>1, <2>2, <2>3, <2>4, TimeKept
  <2>6. DiskWakes(p)'
    <3> SUFFICES ASSUME Sleeps(p, Buffer(p))' PROVE Queued(p)' \/ Waking("idelock", Buffer(p))'
      BY DEF DiskWakes, Buffer
    <3>1. Queued(p) \/ Waking("idelock", Buffer(p))
      BY <2>1, <2>2 DEF DiskWakes
    <3> QED BY <1>17, <1>18, <2>4, <3>1
  <2>7. Queued(p) \/ p \in disk.done => Queued(p)' \/ p \in disk'.done
    BY <1>18
  <2>8. Asked(p)'
    BY <1>14, <1>15, <1>20, <2>1, <2>7, AskKept
  <2> QED BY <2>2, <2>5, <2>6, <2>8
<1>23. Served'
  BY <1>17, <1>18 DEF Served
<1>24. Parents'
  BY <1>19, ParentsKept DEF WakeInv
<1> QED BY <1>22, <1>23, <1>24 DEF WakeInv

\* A sleep, and what follows it.
Nap(code, chan, lk, i) == code = sleep(chan, lk) \o <<i>>

\* What that puts in a list.
LEMMA SleepPuts ==
  ASSUME NEW chan \in Int, NEW lk \in {"ptable", "tickslock", "idelock"}, NEW i \in Instructions({"await", "reap", "doze"}),
         NEW code, Nap(code, chan, lk, i)
  PROVE  /\ \E X : code \in Seq(Instructions(X))
         /\ \A x \in ToSet(code) : (x.op = "block" => x.n = chan) /\ (x # i => x.op # "await")
         /\ i \in ToSet(code)
<1>1. PICK s : s = sleep(chan, lk)
  OBVIOUS
<1>2. PICK X, Y : X = {"acquire", "release", "block", "sched", "tidy"} /\ Y = X \cup {"await", "reap", "doze"}
  OBVIOUS
<1>3. s \in Seq(Instructions(X)) /\ \A a \in 1 .. Len(s) : s[a].op = "block" => s[a].n = chan
  <2>1. CASE lk = "ptable"
    <3>1. s \in Seq(Instructions(X)) /\ Len(s) = 3 /\ s[1] = On("block", chan) /\ s[2] = Do("sched") /\ s[3] = Do("tidy")
      BY <1>1, <1>2, <2>1, SleepHere
    <3>2. s[1].n = chan /\ s[2].op # "block" /\ s[3].op # "block"
      BY <3>1, FieldsOn DEF Do
    <3>3. \A a \in 1 .. Len(s) : a = 1 \/ a = 2 \/ a = 3
      BY <3>1
    <3> QED BY <3>1, <3>2, <3>3
  <2>2. CASE lk # "ptable"
    <3>1. lk \in {"tickslock", "idelock"}
      BY <2>2
    <3>2. /\ s \in Seq(Instructions(X)) /\ Len(s) = 7
          /\ s[1] = acquire("ptable") /\ s[2] = release(lk) /\ s[3] = On("block", chan) /\ s[4] = Do("sched")
          /\ s[5] = Do("tidy") /\ s[6] = release("ptable") /\ s[7] = acquire(lk)
      BY <1>1, <1>2, <3>1, SleepIs
    <3>3. s[1].op # "block" /\ s[2].op # "block" /\ s[3].n = chan /\ s[4].op # "block" /\ s[5].op # "block"
          /\ s[6].op # "block" /\ s[7].op # "block"
      BY <3>2, FieldsOn, FieldsLock DEF Do
    <3>4. \A a \in 1 .. Len(s) : a = 1 \/ a = 2 \/ a = 3 \/ a = 4 \/ a = 5 \/ a = 6 \/ a = 7
      BY <3>2
    <3> QED BY <3>2, <3>3, <3>4
  <2> QED BY <2>1, <2>2
<1>4. PICK V : V = Instructions(Y)
  OBVIOUS
<1>5. s \in Seq(V)
  <2>1. X \subseteq Y
    BY <1>2
  <2> QED BY <1>3, <1>4, <2>1, MoreOps
<1>6. PICK r : r = <<i>> /\ r \in Seq(V)
  <2>1. {"await", "reap", "doze"} \subseteq Y
    BY <1>2
  <2>2. <<i>> \in Seq(V)
    BY <1>4, <2>1, OneIs
  <2> QED BY <2>2
<1>7. \A x : x \in ToSet(r) <=> x = i
  BY <1>6 DEF ToSet
<1>8. \A x : x \in ToSet(code) <=> x \in ToSet(s) \/ x = i
  <2>1. code = s \o r
    BY <1>1, <1>6 DEF Nap
  <2>2. \A x : x \in ToSet(code) <=> x \in ToSet(s) \/ x \in ToSet(r)
    BY <1>5, <1>6, <2>1, SetConcat
  <2> QED BY <1>7, <2>2
<1>9. code \in Seq(V)
  <2>1. s \o r \in Seq(V)
    BY <1>5, <1>6, ConcatProperties
  <2> QED BY <1>1, <1>6, <2>1 DEF Nap
<1>10. i.op # "block"
  BY DEF Instructions
<1>11. \A x \in ToSet(s) : (x.op = "block" => x.n = chan) /\ x.op # "await"
  <2>1. ToSet(s) \subseteq Instructions(X)
    BY <1>3, SetIs
  <2>2. \A x \in ToSet(s) : x.op \in X
    BY <2>1 DEF Instructions
  <2> QED BY <1>2, <1>3, <2>2, SetIs
<1> QED BY <1>4, <1>8, <1>9, <1>10, <1>11

\* Who decides to sleep does not sleep yet.
LEMMA NotAsleep ==
  ASSUME Safe, NEW c \in Apics, NEW p \in Procs, p = cpu[c].run, p # 0, Todo(c) # <<>>, Now(c).op \in {"await", "doze", "reap"}
  PROVE  \A n : ~ Sleeps(p, n)
<1> SUFFICES ASSUME NEW n, Sleeps(p, n) PROVE FALSE
  OBVIOUS
<1>1. proc[p].state = "RUNNING"
  BY RunsNow
<1>2. PICK x \in ToSet(kern[p]) : x.op = "block" /\ x.n = n
  BY <1>1 DEF Sleeps
<1>3. PICK e \in Apics : Pends(e, p, n)
  BY <1>2, Pending
<1>4. e = c
  BY <1>3 DEF Pends, Safe, Core, RunInv
<1> QED BY <1>3, <1>4 DEF Pends

\* And then only on that channel.
LEMMA OnlyFor ==
  ASSUME NEW c, NEW out, NEW in, Flow(c, out, in), proc' = proc, NEW p \in Procs, \A n : ~ Sleeps(p, n), NEW chan,
         \A x \in in : x.op = "block" => x.n = chan
  PROVE  \A n : n # chan => ~ Sleeps(p, n)'
<1> SUFFICES ASSUME NEW n, n # chan, Sleeps(p, n)' PROVE FALSE
  OBVIOUS
<1>1. Sleeps(p, n)
  BY SameTable, SleepsBack
<1> QED BY <1>1

\* The other processes, when one decides whether it sleeps.
LEMMA OthersKeep ==
  ASSUME WakeInv, NEW c, NEW out, NEW in, Flow(c, out, in), UNCHANGED <<proc, lock, ticks>>, NEW p \in Procs, p # cpu[c].run,
         \A x \in out : x.op # "wakeup1", Queued(p) => Queued(p)', Queued(p) \/ p \in disk.done => Queued(p)' \/ p \in disk'.done
  PROVE  (Slept(p) /\ TimeWakes(p) /\ DiskWakes(p) /\ ChildWakes(p) /\ Asked(p))'
<1>1. TimeWakes(p) /\ DiskWakes(p) /\ Asked(p)
  BY DEF WakeInv
<1>2. Slept(p)' /\ ChildWakes(p)' /\ (Sleeps(p, Ticks)' => Sleeps(p, Ticks)) /\ (Sleeps(p, Buffer(p))' => Sleeps(p, Buffer(p)))
  BY MostKept
<1>3. Due(p) => Due(p)' \/ Wakeful(p)'
  BY DueOn
<1>4. \A n : On("wakeup1", n) \notin out
  BY FieldsOn
<1>5. (Waking("tickslock", Ticks) => Waking("tickslock", Ticks)')
      /\ (Waking("idelock", Buffer(p)) => Waking("idelock", Buffer(p))')
  BY <1>4, SameLocks, WakingOn DEF Locks, Ticks, Buffer
<1>6. TimeWakes(p)'
  BY <1>1, <1>2, <1>3, <1>5, TimeKept
<1>7. DiskWakes(p)'
  BY <1>1, <1>2, <1>5, DiskKept
<1>8. Asked(p)'
  BY <1>1, AskKept
<1> QED BY <1>2, <1>6, <1>7, <1>8

\* Who waits for the disk, and has not been served, is in the queue.
LEMMA WakesAwait ==
  ASSUME Safe, WakeInv, NEW c \in Apics, await(c)
  PROVE  WakeInv'
<1>1. PICK op : op = "await" /\ op \notin CpuOps \cup BootOps /\ Doing(c, op)
  BY DEF await, CpuOps, BootOps
<1>2. PICK p \in Procs : p = cpu[c].run /\ p = Me(c) /\ p # 0 /\ Todo(c) = kern[p] /\ Todo(c) # <<>> /\ Now(c).op = op
  BY <1>1, ProcessDoes
<1>3. UNCHANGED <<cpu, lock, proc, ticks>>
  BY DEF await
<1>4. PICK i, n, code : /\ i = Do("await") /\ n = Buffer(p) /\ Then(c, code)
                        /\ \/ p \in disk.done /\ code = <<release("idelock")>> /\ disk' = [disk EXCEPT !.done = @ \ {p}]
                           \/ p \notin disk.done /\ code = sleep(n, "idelock") \o <<i>> /\ disk' = disk
  BY <1>2 DEF await
<1>5. n \in Int /\ i \in Instructions({"await", "reap", "doze"})
  <2>1. n \in Int
    BY <1>4 DEF Buffer, Procs
  <2>2. "await" \in {"await", "reap", "doze"} /\ "await" \notin {"acquire", "release"}
    OBVIOUS
  <2> QED BY <1>4, <2>1, <2>2, TypeOfDo
<1>6. PICK out, in : out = {Now(c)} /\ in = ToSet(code)
  OBVIOUS
<1>7. (\E X : code \in Seq(Instructions(X))) /\ \A x \in in : (x.op = "block" => x.n = n) /\ (x.op = "await" => p \notin disk.done)
  <2>1. CASE p \in disk.done
    <3>1. code = <<release("idelock")>> /\ "idelock" \in Locks
      BY <1>4, <2>1 DEF Locks
    <3>2. code \in Seq(Instructions({"acquire", "release"}))
      BY <3>1, ReleaseIs
    <3>3. ToSet(code) \subseteq Instructions({"acquire", "release"})
      BY <3>2, SetIs
    <3>4. \A x \in in : x.op \in {"acquire", "release"}
      BY <1>6, <3>3 DEF Instructions
    <3> QED BY <3>2, <3>4
  <2>2. CASE p \notin disk.done
    <3>1. code = sleep(n, "idelock") \o <<i>>
      BY <1>4, <2>2
    <3>2. PICK lk \in {"ptable", "tickslock", "idelock"} : Nap(code, n, lk, i)
      BY <3>1 DEF Nap
    <3>3. (\E X : code \in Seq(Instructions(X))) /\ \A x \in ToSet(code) : x.op = "block" => x.n = n
      BY <1>5, <3>2, SleepPuts
    <3> QED BY <1>6, <2>2, <3>3
  <2> QED BY <2>1, <2>2
<1>8. Flow(c, out, in)
  <2>1. \A d \in Apics : cpu'[d].run = cpu[d].run
    BY <1>3
  <2> QED BY <1>2, <1>4, <1>6, <1>7, <2>1, FlowThen DEF Safe
<1>9. PICK s, V : s = kern[p] /\ s \in Seq(V) /\ s # <<>> /\ Head(s).op = "await" /\ Smooth(s) /\ code \in Seq(V)
  <2>1. PICK s : s = Todo(c) /\ s \in Seq(Instructions(OpsOf(Running(c)))) /\ Smooth(s)
    BY Runs DEF Safe, Core, ListInv, SmoothInv
  <2>2. \E T : s \in Seq(Instructions(T)) /\ code \in Seq(Instructions(T))
    BY <1>7, <2>1, Together
  <2> QED BY <1>1, <1>2, <2>1, <2>2 DEF Now
<1>10. PICK r \in Seq(V) : r = Tail(s)
  BY <1>9, HeadTailProperties
<1>11. (\A x \in ToSet(r) : x.op \notin {"await", "request"}) /\ \A x : x \in ToSet(s) <=> x = Head(s) \/ x \in ToSet(r)
  <2>1. \A x \in ToSet(r) : ~ Rough(Head(s), x)
    BY <1>9, <1>10, Behind
  <2> QED BY <1>9, <1>10, <2>1, SetHead DEF Rough
<1>12. p \notin disk.done => Queued(p)
  <2>1. Head(s) \in ToSet(s)
    BY <1>11
  <2>2. \A x \in ToSet(kern[p]) : x.op # "request"
    BY <1>9, <1>11
  <2> QED BY <1>9, <2>1, <2>2 DEF WakeInv, Asked
<1>13. p \in disk.done => \A x \in ToSet(kern'[p]) : x.op # "await"
  <2> SUFFICES ASSUME p \in disk.done PROVE \A x \in ToSet(kern'[p]) : x.op # "await"
    OBVIOUS
  <2>1. \A x \in in : x.op # "await"
    BY <1>7
  <2>2. kern'[p] = code \o r
    <3>1. DOMAIN kern = Procs
      BY DEF Safe, Core, DataTypes
    <3>2. kern' = [kern EXCEPT ![p] = code \o Tail(Todo(c))]
      BY <1>2, <1>4 DEF Then, Goto
    <3> QED BY <1>2, <1>9, <1>10, <3>1, <3>2
  <2>3. \A x : x \in ToSet(kern'[p]) <=> x \in ToSet(code) \/ x \in ToSet(r)
    BY <1>9, <1>10, <2>2, SetConcat
  <2> QED BY <1>6, <1>11, <2>1, <2>3
<1>14. disk'.queue = disk.queue /\ disk'.busy = disk.busy /\ (\A q : q # p => (q \in disk'.done <=> q \in disk.done))
  <2>1. CASE disk' = disk
    BY <2>1
  <2>2. CASE disk' = [disk EXCEPT !.done = @ \ {p}]
    <3>1. disk'.queue = disk.queue /\ disk'.busy = disk.busy /\ disk'.done = disk.done \ {p}
      BY <2>2 DEF Safe, Core, DataTypes
    <3> QED BY <3>1
  <2> QED BY <1>4, <2>1, <2>2
<1>15. \A q : Queued(q) <=> Queued(q)'
  BY <1>14 DEF Queued
<1>16. \A x \in out : x.op = "await"
  BY <1>1, <1>2, <1>6
<1>17. ASSUME NEW q \in Procs, q # p PROVE (Slept(q) /\ TimeWakes(q) /\ DiskWakes(q) /\ ChildWakes(q) /\ Asked(q))'
  <2>1. Queued(q) => Queued(q)'
    BY <1>15
  <2>2. Queued(q) \/ q \in disk.done => Queued(q)' \/ q \in disk'.done
    BY <1>14, <1>15, <1>17
  <2> QED BY <1>2, <1>3, <1>8, <1>16, <1>17, <2>1, <2>2, OthersKeep
<1>18. (Slept(p) /\ TimeWakes(p) /\ DiskWakes(p) /\ ChildWakes(p) /\ Asked(p))'
  <2>1. \A m : ~ Sleeps(p, m)
    BY <1>1, <1>2, NotAsleep
  <2>2. \A m : m # n => ~ Sleeps(p, m)'
    <3>1. PICK chan : chan = n
      OBVIOUS
    <3>2. \A x \in in : x.op = "block" => x.n = chan
      BY <1>7, <3>1
    <3>3. proc' = proc
      BY <1>3
    <3>4. \A m : m # chan => ~ Sleeps(p, m)'
      BY <1>8, <2>1, <3>2, <3>3, OnlyFor
    <3> QED BY <3>1, <3>4
  <2>3. ~ Sleeps(p, Ticks)' /\ ~ Sleeps(p, p)'
    BY <1>4, <2>2 DEF Buffer, Ticks, Procs
  <2>4. p \in disk.done => ~ Sleeps(p, n)'
    <3> SUFFICES ASSUME p \in disk.done, Sleeps(p, n)' PROVE FALSE
      OBVIOUS
    <3>1. \A x \in in : x.op # "block"
      <4>1. code = <<release("idelock")>> /\ "idelock" \in Locks
        BY <1>4 DEF Locks
      <4>2. code \in Seq(Instructions({"acquire", "release"}))
        BY <4>1, ReleaseIs
      <4>3. ToSet(code) \subseteq Instructions({"acquire", "release"})
        BY <4>2, SetIs
      <4> QED BY <1>6, <4>3 DEF Instructions
    <3>2. Sleeps(p, n)
      BY <1>3, <1>8, <3>1, SameTable, SleepsBack
    <3> QED BY <2>1, <3>2
  <2>5. Slept(p)'
    <3>1. Slept(p)
      BY DEF WakeInv
    <3> QED BY <1>3, <3>1, SameTable, SleptKept
  <2>6. TimeWakes(p)'
    BY <2>3 DEF TimeWakes, Ticks
  <2>7. ChildWakes(p)'
    BY <2>3 DEF ChildWakes
  <2>8. DiskWakes(p)'
    <3>1. Sleeps(p, n)' => Queued(p)'
      BY <1>12, <1>15, <2>4
    <3> QED BY <1>4, <3>1 DEF DiskWakes, Buffer
  <2>9. Asked(p)'
    <3>1. p \notin disk.done => Queued(p)'
      BY <1>12, <1>15
    <3> QED BY <1>13, <3>1 DEF Asked
  <2> QED BY <2>5, <2>6, <2>7, <2>8, <2>9
<1>19. Served'
  <2>1. Do("ideintr") \notin out /\ Do("idestart") \notin out
    BY <1>16, FieldsOn DEF Do
  <2> QED BY <1>8, <1>14, <2>1, ServingOn DEF Served, WakeInv
<1>20. Parents'
  BY <1>3, SameTable, ParentsKept DEF WakeInv
<1> QED BY <1>17, <1>18, <1>19, <1>20 DEF WakeInv

\* What a look at the state may lead to: to go on; to sleep for a time that is not over; to
\* sleep for a child when there is none that ended, and no kill.
Naps == Instructions({"await", "reap", "doze"})
Childless(p) == ~ proc[p].killed /\ \A q \in Procs : proc[q].parent = p => proc[q].state # "ZOMBIE"
Decision(p, code) ==
  \/ Quiet(code)
  \/ \E i \in Naps : i.op = "doze" /\ ticks - i.since < i.n /\ Nap(code, Ticks, "tickslock", i)
  \/ \E i \in Naps : i.op = "reap" /\ Childless(p) /\ Nap(code, p, "ptable", i)

LEMMA DecisionIs ==
  ASSUME NEW p \in Procs, NEW code, Decision(p, code)
  PROVE  /\ \E X : code \in Seq(Instructions(X))
         /\ \E chan \in {0, Ticks, p} :
              /\ \A x \in ToSet(code) : (x.op = "block" => x.n = chan) /\ x.op # "await"
              /\ chan = Ticks => \E i \in ToSet(code) : i.op = "doze" /\ ticks - i.since < i.n
              /\ chan = p => Childless(p)
<1>1. 0 # Ticks /\ 0 # p /\ Ticks # p /\ p \in Int /\ Ticks \in Int
  BY DEF Procs, Ticks
<1>2. CASE Quiet(code)
  <2>1. PICK X : X \cap RoughOps = {} /\ code \in Seq(Instructions(X))
    BY <1>2 DEF Quiet
  <2>2. ToSet(code) \subseteq Instructions(X)
    BY <2>1, SetIs
  <2>3. \A x \in ToSet(code) : x.op \notin {"block", "await"}
    BY <2>1, <2>2 DEF Instructions, RoughOps
  <2> QED BY <1>1, <2>1, <2>3
<1>3. CASE \E i \in Naps : i.op = "doze" /\ ticks - i.since < i.n /\ Nap(code, Ticks, "tickslock", i)
  <2>1. PICK i \in Naps : i.op = "doze" /\ ticks - i.since < i.n /\ Nap(code, Ticks, "tickslock", i)
    BY <1>3
  <2>2. PICK n \in Int, lk \in {"ptable", "tickslock", "idelock"} : n = Ticks /\ Nap(code, n, lk, i)
    BY <1>1, <2>1
  <2>3. /\ \E X : code \in Seq(Instructions(X))
        /\ \A x \in ToSet(code) : (x.op = "block" => x.n = n) /\ (x # i => x.op # "await")
        /\ i \in ToSet(code)
    BY <2>1, <2>2, SleepPuts DEF Naps
  <2>4. \A x \in ToSet(code) : (x.op = "block" => x.n = n) /\ x.op # "await"
    BY <2>1, <2>3
  <2> QED BY <1>1, <2>1, <2>2, <2>3, <2>4
<1>4. CASE \E i \in Naps : i.op = "reap" /\ Childless(p) /\ Nap(code, p, "ptable", i)
  <2>1. PICK i \in Naps : i.op = "reap" /\ Childless(p) /\ Nap(code, p, "ptable", i)
    BY <1>4
  <2>2. PICK n \in Int, lk \in {"ptable", "tickslock", "idelock"} : n = p /\ Nap(code, n, lk, i)
    BY <1>1, <2>1
  <2>3. /\ \E X : code \in Seq(Instructions(X))
        /\ \A x \in ToSet(code) : (x.op = "block" => x.n = n) /\ (x # i => x.op # "await")
        /\ i \in ToSet(code)
    BY <2>1, <2>2, SleepPuts DEF Naps
  <2>4. \A x \in ToSet(code) : (x.op = "block" => x.n = n) /\ x.op # "await"
    BY <2>1, <2>3
  <2> QED BY <1>1, <2>1, <2>2, <2>3, <2>4
<1> QED BY <1>2, <1>3, <1>4 DEF Decision

LEMMA Decides ==
  ASSUME Safe, WakeInv, NEW c \in Apics, NEW p \in Procs, p = cpu[c].run, p # 0, Todo(c) # <<>>, Now(c).op \in {"doze", "reap"},
         NEW code, Then(c, code), UNCHANGED <<cpu, lock, proc, ticks, disk>>, Decision(p, code)
  PROVE  WakeInv'
<1>1. PICK out, in : out = {Now(c)} /\ in = ToSet(code)
  OBVIOUS
<1>2. \E X : code \in Seq(Instructions(X))
  BY DecisionIs
<1>3. PICK chan \in {0, Ticks, p} :
        /\ \A x \in in : (x.op = "block" => x.n = chan) /\ x.op # "await"
        /\ chan = Ticks => \E i \in in : i.op = "doze" /\ ticks - i.since < i.n
        /\ chan = p => Childless(p)
  BY <1>1, DecisionIs
<1>4. Flow(c, out, in)
  <2>1. \A d \in Apics : cpu'[d].run = cpu[d].run
    OBVIOUS
  <2> QED BY <1>1, <1>2, <2>1, FlowThen DEF Safe
<1>5. \A x \in out : x.op \in {"doze", "reap"}
  BY <1>1
<1>6. \A q : (Queued(q) => Queued(q)') /\ (Queued(q) \/ q \in disk.done => Queued(q)' \/ q \in disk'.done)
  BY DEF Queued
<1>7. ASSUME NEW q \in Procs, q # p PROVE (Slept(q) /\ TimeWakes(q) /\ DiskWakes(q) /\ ChildWakes(q) /\ Asked(q))'
  <2>1. (Queued(q) => Queued(q)') /\ (Queued(q) \/ q \in disk.done => Queued(q)' \/ q \in disk'.done)
    BY <1>6
  <2>2. \A x \in out : x.op # "wakeup1"
    BY <1>5
  <2> QED BY <1>4, <1>7, <2>1, <2>2, OthersKeep
<1>8. (Slept(p) /\ TimeWakes(p) /\ DiskWakes(p) /\ ChildWakes(p) /\ Asked(p))'
  <2>1. \A n : ~ Sleeps(p, n)
    BY NotAsleep
  <2>2. \A n : n # chan => ~ Sleeps(p, n)'
    <3>1. (\A x \in in : x.op = "block" => x.n = chan) /\ proc' = proc /\ p \in Procs
      BY <1>3
    <3>2. \A q \in Procs : (\A n : ~ Sleeps(q, n)) => \A n : n # chan => ~ Sleeps(q, n)'
      BY <1>4, <3>1, OnlyFor
    <3> QED BY <2>1, <3>1, <3>2
  <2>3. Slept(p)'
    <3>1. Slept(p)
      BY DEF WakeInv
    <3> QED BY <3>1, SameTable, SleptKept
  <2>4. TimeWakes(p)'
    <3>1. CASE chan = Ticks
      <4>1. PICK i \in in : i.op = "doze" /\ ticks - i.since < i.n
        BY <1>3, <3>1
      <4>2. i \in ToSet(kern'[p])
        BY <1>4 DEF Flow
      <4>3. Due(p)'
        BY <4>1, <4>2 DEF Due
      <4> QED BY <4>3 DEF TimeWakes
    <3>2. CASE chan # Ticks
      BY <2>2, <3>2 DEF TimeWakes, Ticks
    <3> QED BY <3>1, <3>2
  <2>5. DiskWakes(p)'
    <3>1. Buffer(p) # chan
      BY DEF Buffer, Ticks, Procs
    <3> QED BY <2>2, <3>1 DEF DiskWakes, Buffer
  <2>6. ChildWakes(p)'
    <3>1. CASE chan = p
      <4>1. Childless(p)
        BY <1>3, <3>1
      <4> QED BY <4>1 DEF ChildWakes, Childless
    <3>2. CASE chan # p
      BY <2>2, <3>2 DEF ChildWakes
    <3> QED BY <3>1, <3>2
  <2>7. Asked(p)'
    <3>1. Asked(p) /\ (Queued(p) \/ p \in disk.done => Queued(p)' \/ p \in disk'.done)
      BY <1>6 DEF WakeInv
    <3> QED BY <1>3, <1>4, <1>5, <3>1, AskKept
  <2> QED BY <2>3, <2>4, <2>5, <2>6, <2>7
<1>9. Served'
  <2>1. Do("ideintr") \notin out /\ Do("idestart") \notin out
    BY <1>5, FieldsOn DEF Do
  <2> QED BY <1>4, <2>1, ServingOn DEF Served, WakeInv
<1>10. Parents'
  BY SameTable, ParentsKept DEF WakeInv
<1> QED BY <1>7, <1>8, <1>9, <1>10 DEF WakeInv

LEMMA WakesSleep ==
  ASSUME Safe, WakeInv, NEW c \in Apics, enter(c), NEW op \in {"doze", "reap"}, Doing(c, op)
  PROVE  WakeInv'
<1>1. op \notin CpuOps \cup BootOps
  BY DEF CpuOps, BootOps
<1>2. PICK p \in Procs : p = cpu[c].run /\ p = Me(c) /\ p # 0 /\ Todo(c) = kern[p] /\ Todo(c) # <<>> /\ Now(c).op = op
  BY <1>1, ProcessDoes
<1>3. PICK i, code : i = Now(c) /\ code = Body(c) /\ Then(c, code) /\ UNCHANGED <<cpu, lock, proc, ticks, disk>>
  BY DEF enter, data
<1>4. i.op = op /\ i.n \in Int /\ i.since \in Int /\ i \in Instructions(OpsOf(Running(c)))
  BY <1>2, <1>3, Doings DEF Safe
<1>5. i \in Naps
  BY <1>4 DEF Naps, Instructions
<1>6. Decision(p, code)
  <2>1. CASE op = "doze"
    <3>1. code = doze(p, i)
      BY <1>2, <1>3, <2>1 DEF Body
    <3>2. CASE ticks - i.since >= i.n \/ proc[p].killed
      <4>1. code = <<release("tickslock")>>
        BY <3>1, <3>2 DEF doze
      <4> QED BY <4>1, QuietRelease DEF Decision, Locks
    <3>3. CASE ~ (ticks - i.since >= i.n \/ proc[p].killed)
      <4>1. Nap(code, Ticks, "tickslock", i)
        BY <3>1, <3>3 DEF doze, Nap
      <4>2. ticks - i.since < i.n
        <5>1. ticks \in Int
          BY DEF Safe, Core, DataTypes
        <5> QED BY <1>4, <3>3, <5>1
      <4> QED BY <1>4, <1>5, <2>1, <4>1, <4>2 DEF Decision
    <3> QED BY <3>2, <3>3
  <2>2. CASE op = "reap"
    <3>1. code = reap(p)
      BY <1>2, <1>3, <2>2 DEF Body
    <3>2. PICK K, D : K = {q \in Procs : proc[q].parent = p} /\ D = {q \in K : proc[q].state = "ZOMBIE"}
      OBVIOUS
    <3>3. \/ D # {} /\ code = freeing(Min(D))
          \/ code = <<release("ptable")>>
          \/ D = {} /\ ~ proc[p].killed /\ code = sleep(p, "ptable") \o <<Do("reap")>>
      BY <3>1, <3>2 DEF reap
    <3>4. CASE D # {} /\ code = freeing(Min(D))
      <4>1. D \in SUBSET Nat
        BY <3>2 DEF Procs
      <4>2. Min(D) \in Procs
        BY <3>2, <3>4, <4>1, Least
      <4> QED BY <3>4, <4>2, QuietFree DEF Decision
    <3>5. CASE code = <<release("ptable")>>
      BY <3>5, QuietRelease DEF Decision, Locks
    <3>6. CASE D = {} /\ ~ proc[p].killed /\ code = sleep(p, "ptable") \o <<Do("reap")>>
      <4>1. PICK j : j = Do("reap") /\ Nap(code, p, "ptable", j)
        BY <3>6 DEF Nap
      <4>2. j \in Naps /\ j.op = "reap"
        <5>1. PICK X : X = {"await", "reap", "doze"}
          OBVIOUS
        <5>2. "reap" \in X /\ "reap" \notin {"acquire", "release"}
          BY <5>1
        <5> QED BY <4>1, <5>1, <5>2, TypeOfDo, FieldsOn DEF Naps, Do
      <4>3. Childless(p)
        BY <3>2, <3>6 DEF Childless
      <4> QED BY <4>1, <4>2, <4>3 DEF Decision
    <3> QED BY <3>3, <3>4, <3>5, <3>6
  <2> QED BY <2>1, <2>2
<1>7. Now(c).op \in {"doze", "reap"}
  BY <1>2
<1> QED BY <1>2, <1>3, <1>6, <1>7, Decides

----------------------------------------------------------------------------
(* The step, and the theorem.                                              *)

LEMMA WakesDone ==
  ASSUME Safe, WakeInv, NEW c \in Apics, change(c), ~ panic'
  PROVE  WakeInv'
<1>1. PICK op \in {"block", "tidy", "runnable", "wakeup1", "zombie", "kill", "start", "unused"} : Doing(c, op)
  BY DEF change
<1>2. CASE op \in {"tidy", "runnable", "start", "unused"}
  BY <1>1, <1>2, WakesChange
<1>3. CASE op = "block"
  BY <1>1, <1>3, WakesBlock
<1>4. CASE op = "wakeup1"
  BY <1>1, <1>4, WakesWakeup
<1>5. CASE op = "zombie"
  BY <1>1, <1>5, WakesZombie
<1>6. CASE op = "kill"
  BY <1>1, <1>6, WakesKill
<1> QED BY <1>1, <1>2, <1>3, <1>4, <1>5, <1>6

LEMMA WakesEnters ==
  ASSUME Safe, WakeInv, NEW c \in Apics, enter(c)
  PROVE  WakeInv'
<1>1. PICK op : Doing(c, op)
  BY DEF enter
<1>2. CASE op \in {"doze", "reap"}
  BY <1>1, <1>2, WakesSleep
<1>3. CASE op \notin {"doze", "reap"}
  BY <1>1, <1>3, WakesEnter
<1> QED BY <1>2, <1>3

LEMMA StepWakes ==
  ASSUME Safe, WakeInv, NEW c \in Apics, Step(c), ~ panic'
  PROVE  WakeInv'
<1>1. CASE \/ sti(c) \/ iret(c) \/ sched_intena(c) \/ kalloc_take(c) \/ kfree_push(c) \/ freerange(c) \/ lapicinit(c)
           \/ consoleinit(c) \/ ideinit(c) \/ use_lock(c) \/ startothers_wait(c) \/ entry(c) \/ idtinit(c)
  BY <1>1, WakesPlain
<1>2. CASE acquire_cli(c) \/ acquire_xchg(c) \/ release_popcli(c)
  BY <1>2, WakesLock
<1>3. CASE release_unlock(c)
  BY <1>3, WakesRelease
<1>4. CASE scan(c)
  BY <1>4, WakesScan
<1>5. CASE back(c) \/ sched(c)
  BY <1>5, WakesSwitch
<1>6. CASE change(c)
  BY <1>6, WakesDone
<1>7. CASE allocproc_find(c) \/ (allocproc_kstack(c) /\ Page(c) = 0)
  BY <1>7, WakesMaking
<1>8. CASE (allocproc_kstack(c) /\ Page(c) # 0) \/ lapicstartap(c)
  BY <1>8, WakesSpawn
<1>9. CASE kalloc_peek(c)
  BY <1>9, WakesPeek
<1>10. CASE timer(c) \/ ide(c)
  BY <1>10, WakesTimer, WakesIde
<1>11. CASE tick(c)
  BY <1>11, WakesTick
<1>12. CASE request(c)
  BY <1>12, WakesRequest
<1>13. CASE ideintr(c)
  BY <1>13, WakesIdeintr
<1>14. CASE idestart(c)
  BY <1>14, WakesIdestart
<1>15. CASE await(c)
  BY <1>15, WakesAwait
<1>16. CASE syscall(c)
  BY <1>16, WakesCall
<1>17. CASE enter(c)
  BY <1>17, WakesEnters
<1>18. CASE mpinit(c) \/ started(c)
  BY <1>18, WakesStart
<1>19. CASE forkret_first(c)
  BY <1>19, WakesForkret
<1> QED BY <1>1, <1>2, <1>3, <1>4, <1>5, <1>6, <1>7, <1>8, <1>9, <1>10, <1>11, <1>12, <1>13, <1>14, <1>15, <1>16,
           <1>17, <1>18, <1>19 DEF Step

LEMMA InitWake ==
  ASSUME Init
  PROVE  WakeInv
<1>1. /\ \A p \in Procs : kern[p] = <<>> /\ proc[p] = Unused
      /\ disk.queue = <<>>
  BY DEF Init, Start
<1>2. ASSUME NEW p \in Procs
      PROVE  proc[p].state = "UNUSED" /\ proc[p].parent = 0 /\ ToSet(kern[p]) = {} /\ p # 0
  BY <1>1, <1>2, SetNil DEF Unused, Procs
<1>3. \A p \in Procs : \A n : ~ Sleeps(p, n)
  BY <1>2 DEF Sleeps
<1>4. \A p \in Procs : Slept(p) /\ TimeWakes(p) /\ DiskWakes(p) /\ ChildWakes(p) /\ Asked(p)
  BY <1>2, <1>3 DEF Slept, TimeWakes, DiskWakes, ChildWakes, Asked
<1> QED BY <1>1, <1>2, <1>4 DEF Served, Parents, WakeInv

LEMMA StillWake ==
  ASSUME WakeInv, UNCHANGED vars
  PROVE  WakeInv'
<1>1. /\ cpu' = cpu /\ todo' = todo /\ kern' = kern /\ proc' = proc /\ lock' = lock /\ ticks' = ticks /\ disk' = disk
  BY DEF vars
<1>2. \A c : Todo(c)' = Todo(c)
  BY <1>1 DEF Todo
<1>3. \A l, n : Waking(l, n)' = Waking(l, n)
  BY <1>1, <1>2 DEF Waking
<1>4. Serving' = Serving
  BY <1>1, <1>2 DEF Serving
<1>5. \A p : /\ (\A n : Sleeps(p, n)' = Sleeps(p, n))
             /\ Queued(p)' = Queued(p) /\ Due(p)' = Due(p)
  BY <1>1 DEF Sleeps, Queued, Due
<1>6. ASSUME NEW p \in Procs
      PROVE  (Slept(p) /\ TimeWakes(p) /\ DiskWakes(p) /\ ChildWakes(p) /\ Asked(p))'
  <2>1. Slept(p) /\ TimeWakes(p) /\ DiskWakes(p) /\ ChildWakes(p) /\ Asked(p)
    BY DEF WakeInv
  <2>2. Slept(p)' /\ Asked(p)'
    BY <1>1, <1>5, <2>1 DEF Slept, Asked, Buffer
  <2>3. TimeWakes(p)' /\ DiskWakes(p)' /\ ChildWakes(p)'
    BY <1>1, <1>3, <1>5, <2>1 DEF TimeWakes, DiskWakes, ChildWakes, Buffer
  <2> QED BY <2>2, <2>3
<1>7. Served' /\ Parents'
  BY <1>1, <1>4 DEF WakeInv, Served, Parents
<1> QED BY <1>6, <1>7 DEF WakeInv

\* Until there is a panic.
AwakeInv == ~ panic => WakeInv

\* No wakeup is lost: who sleeps, or is about to, sleeps for a time not yet over, for a block
\* still in the queue of the disk, or for a child none of which is dead, or the processor
\* that holds the lock given up for the sleep has his wakeup still to do (sleep, wakeup1,
\* wait, kill and exit of proc.c, sys_sleep, the timer of trap.c, iderw and ideintr of ide.c).
THEOREM MachineNoLostWakeup == Spec => []NoLostWakeup
<1>1. Init => AwakeInv
  BY InitWake DEF AwakeInv
<1>2. SafeInv /\ AwakeInv /\ [Next]_vars => AwakeInv'
  <2> SUFFICES ASSUME SafeInv, AwakeInv, [Next]_vars, ~ panic' PROVE WakeInv'
    BY DEF AwakeInv
  <2>1. CASE Next
    <3>1. PICK c \in Apics : Safe /\ WakeInv /\ Step(c)
      BY <2>1 DEF Next, SafeInv, AwakeInv
    <3> QED BY <3>1, StepWakes
  <2>2. CASE UNCHANGED vars
    <3>1. ~ panic
      BY <2>2 DEF vars
    <3> QED BY <2>2, <3>1, StillWake DEF AwakeInv
  <2> QED BY <2>1, <2>2
<1>3. AwakeInv => NoLostWakeup
  <2> SUFFICES ASSUME WakeInv, NEW p \in Procs, proc[p].state = "SLEEPING"
               PROVE  \/ proc[p].chan = Ticks /\ \E i \in ToSet(kern[p]) : i.op = "doze" /\ ticks - i.since < i.n
                      \/ proc[p].chan = Ticks
                         /\ \E c \in Apics : lock["tickslock"] = c /\ On("wakeup1", Ticks) \in ToSet(Todo(c))
                      \/ proc[p].chan = Buffer(p) /\ p \in ToSet(disk.queue)
                         /\ (disk.busy \/ \E c \in Apics : \E op \in {"ideintr", "idestart"} : Do(op) \in ToSet(Todo(c)))
                      \/ proc[p].chan = Buffer(p)
                         /\ \E c \in Apics : lock["idelock"] = c /\ On("wakeup1", Buffer(p)) \in ToSet(Todo(c))
                      \/ proc[p].chan = p /\ ~ proc[p].killed
                         /\ \A q \in Procs : proc[q].parent = p => proc[q].state # "ZOMBIE"
    BY DEF AwakeInv, NoLostWakeup
  <2>1. Slept(p) /\ TimeWakes(p) /\ DiskWakes(p) /\ ChildWakes(p) /\ Served
    BY DEF WakeInv
  <2>2. Sleeps(p, proc[p].chan) /\ proc[p].chan \in {Ticks, Buffer(p), p}
    BY <2>1 DEF Sleeps, Slept
  <2>3. CASE proc[p].chan = Ticks
    <3>1. Due(p) \/ Waking("tickslock", Ticks)
      BY <2>1, <2>2, <2>3 DEF TimeWakes
    <3> QED BY <2>3, <3>1 DEF Due, Waking
  <2>4. CASE proc[p].chan = Buffer(p)
    <3>1. Queued(p) \/ Waking("idelock", Buffer(p))
      BY <2>1, <2>2, <2>4 DEF DiskWakes
    <3>2. CASE Queued(p)
      <4>1. disk.queue # <<>>
        BY <3>2, SetNil DEF Queued
      <4>2. disk.busy \/ Serving
        BY <2>1, <4>1 DEF Served
      <4>3. Serving => \E c \in Apics : \E op \in {"ideintr", "idestart"} : Do(op) \in ToSet(Todo(c))
        BY DEF Serving
      <4> QED BY <2>4, <3>2, <4>2, <4>3 DEF Queued
    <3> QED BY <2>4, <3>1, <3>2 DEF Waking
  <2>5. CASE proc[p].chan = p
    BY <2>1, <2>2, <2>5 DEF ChildWakes
  <2> QED BY <2>2, <2>3, <2>4, <2>5
<1> QED BY <1>1, <1>2, <1>3, MachineSafe, PTL DEF Spec
=============================================================================
