---------------------------- MODULE FilesChannel ----------------------------
(***************************************************************************)
(* The pipes of Files implement Channel, whatever the size of the buffer:   *)
(* the arithmetic of the wrapping counters, and one lemma for each action   *)
(* that touches a pipe.                                                     *)
(***************************************************************************)
EXTENDS FilesProofs

----------------------------------------------------------------------------
(* Places in a circular buffer.                                            *)

\* A number in terms of its quotient and remainder.
LEMMA Divides ==
  ASSUME NEW x \in Nat
  PROVE  /\ x \div PIPESIZE \in Nat /\ x % PIPESIZE \in 0 .. PIPESIZE - 1
         /\ x = PIPESIZE * (x \div PIPESIZE) + (x % PIPESIZE)
  BY Uint

\* Different multiples of PIPESIZE are at least PIPESIZE apart.
LEMMA Multiples ==
  ASSUME NEW a \in Int, NEW b \in Int, a < b
  PROVE  PIPESIZE * a + PIPESIZE <= PIPESIZE * b
<1>1. PIPESIZE \in Int /\ PIPESIZE > 0
  BY Uint
<1>2. \A d \in Nat : PIPESIZE * (a + 1 + d) = PIPESIZE * a + PIPESIZE + PIPESIZE * d
  BY <1>1
<1>3. \A d \in Nat : PIPESIZE * d >= 0
  BY <1>1
<1>4. b - a - 1 \in Nat /\ a + 1 + (b - a - 1) = b
  OBVIOUS
<1> DEFINE d == b - a - 1
<1>5. PIPESIZE * (a + 1 + d) = PIPESIZE * a + PIPESIZE + PIPESIZE * d /\ PIPESIZE * d >= 0
  BY <1>2, <1>3, <1>4
<1>6. PIPESIZE * b = PIPESIZE * a + PIPESIZE + PIPESIZE * d /\ PIPESIZE * d >= 0
  BY <1>4, <1>5
<1>7. PIPESIZE * d \in Int /\ PIPESIZE * a \in Int /\ PIPESIZE * b \in Int
  BY <1>1, <1>4
<1> HIDE DEF d
<1> QED
  BY <1>1, <1>6, <1>7

\* Quotient and remainder are unique.
LEMMA Remainders ==
  ASSUME NEW a \in Int, NEW b \in Int, NEW r \in 0 .. PIPESIZE - 1, NEW s \in 0 .. PIPESIZE - 1,
         PIPESIZE * a + r = PIPESIZE * b + s
  PROVE  a = b /\ r = s
<1>0. PIPESIZE * a \in Int /\ PIPESIZE * b \in Int /\ PIPESIZE \in Int
  BY Uint
<1>1. CASE a < b
  <2>1. PIPESIZE * a + PIPESIZE <= PIPESIZE * b
    BY <1>1, Multiples
  <2> DEFINE x == PIPESIZE * a  y == PIPESIZE * b
  <2>2. x + PIPESIZE <= y /\ x + r = y + s /\ x \in Int /\ y \in Int
    BY <2>1, <1>0
  <2> HIDE DEF x, y
  <2> QED
    BY <2>2, Uint
<1>2. CASE b < a
  <2>1. PIPESIZE * b + PIPESIZE <= PIPESIZE * a
    BY <1>2, Multiples
  <2> DEFINE x == PIPESIZE * a  y == PIPESIZE * b
  <2>2. y + PIPESIZE <= x /\ x + r = y + s /\ x \in Int /\ y \in Int
    BY <2>1, <1>0
  <2> HIDE DEF x, y
  <2> QED
    BY <2>2, Uint
<1>3. CASE a = b
  <2> DEFINE x == PIPESIZE * a
  <2>2. x + r = x + s /\ x \in Int
    BY <1>3, <1>0
  <2> HIDE DEF x
  <2> QED
    BY <2>2, <1>3
<1> QED
  BY <1>1, <1>2, <1>3

\* Numbers less than PIPESIZE apart have different places in the buffer.
LEMMA SameSlot ==
  ASSUME NEW a \in Nat, NEW b \in Nat, a <= b, b - a < PIPESIZE, a % PIPESIZE = b % PIPESIZE
  PROVE  a = b
<1> DEFINE qa == a \div PIPESIZE  qb == b \div PIPESIZE  r == a % PIPESIZE
           x == PIPESIZE * qa  y == PIPESIZE * qb
<1>1. qa \in Nat /\ qb \in Nat /\ r \in 0 .. PIPESIZE - 1 /\ a = x + r /\ b = y + r
  BY Divides
<1>2. x \in Int /\ y \in Int
  BY <1>1, Uint
<1>3. CASE qa < qb
  <2>1. x + PIPESIZE <= y
    BY <1>1, <1>3, Multiples
  <2> HIDE DEF x, y, r
  <2> QED
    BY <1>1, <1>2, <2>1, Uint
<1>4. CASE qb < qa
  <2>1. y + PIPESIZE <= x
    BY <1>1, <1>4, Multiples
  <2> HIDE DEF x, y, r
  <2> QED
    BY <1>1, <1>2, <2>1, Uint
<1>5. CASE qa = qb
  BY <1>1, <1>5
<1> HIDE DEF qa, qb
<1> QED
  BY <1>1, <1>3, <1>4, <1>5

\* A counter that wraps keeps its place in the buffer.
LEMMA WrapSlot ==
  ASSUME NEW x \in Nat
  PROVE  (x + UINT) % PIPESIZE = x % PIPESIZE
<1> DEFINE u == UINT \div PIPESIZE  y == x + UINT
           qx == x \div PIPESIZE  rx == x % PIPESIZE
           qy == y \div PIPESIZE  ry == y % PIPESIZE
<1>1. u \in Nat /\ UINT = PIPESIZE * u
  <2>1. UINT % PIPESIZE = 0
    BY FilesAssumption
  <2>2. u \in Nat /\ UINT = PIPESIZE * u + 0
    BY <2>1, Divides, Uint
  <2>3. PIPESIZE * u \in Int
    BY <2>2, Uint
  <2> QED
    BY <2>2, <2>3
<1>2. qx \in Nat /\ rx \in 0 .. PIPESIZE - 1 /\ x = PIPESIZE * qx + rx
  BY Divides
<1>3. qy \in Nat /\ ry \in 0 .. PIPESIZE - 1 /\ y = PIPESIZE * qy + ry
  <2>1. y \in Nat
    BY Uint
  <2> HIDE DEF y
  <2> QED
    BY <2>1, Divides
<1>4. PIPESIZE * (qx + u) = PIPESIZE * qx + PIPESIZE * u
  <2> HIDE DEF qx, u
  <2> QED
    BY <1>1, <1>2, Uint
<1>5. PIPESIZE * qx \in Int /\ PIPESIZE * u \in Int
  <2> HIDE DEF qx, u
  <2> QED
    BY <1>1, <1>2, Uint
<1>6. y = PIPESIZE * (qx + u) + rx
  <2> DEFINE m == PIPESIZE * qx  n == PIPESIZE * u
  <2>1. x = m + rx /\ UINT = n /\ m \in Int /\ n \in Int /\ PIPESIZE * (qx + u) = m + n
    BY <1>1, <1>2, <1>4, <1>5
  <2> HIDE DEF m, n, qx, rx, u
  <2> QED
    BY <1>2, <2>1
<1>7. rx = ry
  <2>1. qx + u \in Int /\ qy \in Int
    BY <1>1, <1>2, <1>3
  <2>2. PIPESIZE * (qx + u) + rx = PIPESIZE * qy + ry
    BY <1>3, <1>6
  <2> HIDE DEF qx, u, rx, qy, ry
  <2> QED
    BY <1>2, <1>3, <2>1, <2>2, Remainders
<1> QED
  BY <1>7

\* The n oldest bytes of a pipe.
Bytes(r, n) == [k \in 1 .. n |-> r.data[(r.nread + k - 1) % PIPESIZE]]

\* A counter a few bytes on, with or without the wrap.
LEMMA OnSlot ==
  ASSUME NEW n \in 0 .. UINT - 1, NEW j \in Nat, j <= PIPESIZE, NEW k \in Nat
  PROVE  (((n + j) % UINT) + k) % PIPESIZE = (n + j + k) % PIPESIZE
<1>1. n + j \in Nat /\ n + j < 2 * UINT /\ n \in Nat
  BY Uint
<1> DEFINE m == (n + j) % UINT
<1>2. m = IF n + j < UINT THEN n + j ELSE (n + j) - UINT
  <2> DEFINE y == n + j
  <2>1. y \in Nat /\ y < 2 * UINT
    BY <1>1
  <2>2. y % UINT = IF y < UINT THEN y ELSE y - UINT
    <3> HIDE DEF y
    <3> QED
      BY <2>1, Wraps
  <2> QED
    BY <2>2
<1> HIDE DEF m
<1>3. CASE n + j < UINT
  <2>1. m = n + j
    BY <1>2, <1>3
  <2> QED
    BY <2>1 DEF m
<1>4. CASE ~ (n + j < UINT)
  <2>1. m = (n + j) - UINT
    BY <1>2, <1>4
  <2>2. m + k \in Nat /\ n + j + k = m + k + UINT
    BY <1>1, <1>4, <2>1, Uint
  <2> DEFINE z == m + k
  <2>3. (z + UINT) % PIPESIZE = z % PIPESIZE
    <3>1. z \in Nat
      BY <2>2
    <3> HIDE DEF z
    <3> QED
      BY <3>1, WrapSlot
  <2>4. (m + k) % PIPESIZE = (n + j + k) % PIPESIZE
    BY <2>2, <2>3
  <2> QED
    BY <2>4 DEF m
<1> QED
  BY <1>3, <1>4

\* nwrite is as many bytes after nread as there are in the pipe.
LEMMA WriteSlot ==
  ASSUME NEW r \in 0 .. UINT - 1, NEW w \in 0 .. UINT - 1, NEW k \in Nat
  PROVE  (w + k) % PIPESIZE = (r + Between(r, w) + k) % PIPESIZE
<1> DEFINE c == Between(r, w)
<1>1. c \in Nat /\ c = IF r <= w THEN w - r ELSE w + UINT - r
  BY BetweenIs
<1> HIDE DEF c
<1>2. CASE r <= w
  <2>1. w + k = r + c + k
    BY <1>1, <1>2
  <2> QED
    BY <2>1 DEF c
<1>3. CASE ~ (r <= w)
  <2>1. r + c + k = (w + k) + UINT /\ w + k \in Nat
    BY <1>1, <1>3, Uint
  <2> DEFINE z == w + k
  <2>2. (z + UINT) % PIPESIZE = z % PIPESIZE
    <3>1. z \in Nat
      BY <2>1
    <3> HIDE DEF z
    <3> QED
      BY <3>1, WrapSlot
  <2>3. (r + c + k) % PIPESIZE = (w + k) % PIPESIZE
    BY <2>1, <2>2
  <2> QED
    BY <2>3 DEF c
<1> QED
  BY <1>2, <1>3

\* What is written follows what was in the pipe, and overwrites none of it.
LEMMA WrittenBytes ==
  ASSUME NEW r, PipeType(r), NEW v, Sequence(v), NEW x, Moved(r, x, Len(v), 0),
         x.data = Filled(r, v).data, NEW c \in Nat, c = Between(r.nread, r.nwrite),
         c + Len(v) <= PIPESIZE
  PROVE  /\ \A k \in 1 .. c : Bytes(x, c + Len(v))[k] = Bytes(r, c)[k]
         /\ \A m \in 1 .. Len(v) : Bytes(x, c + Len(v))[c + m] = v[m]
<1> DEFINE n == r.nread
           K(j) == {m \in 1 .. Len(v) : (r.nwrite + m - 1) % PIPESIZE = j}
           s(k) == (n + k - 1) % PIPESIZE
<1>1. /\ n \in 0 .. UINT - 1 /\ r.nwrite \in 0 .. UINT - 1 /\ Len(v) \in Nat
      /\ DOMAIN r.data = 0 .. PIPESIZE - 1
  BY DEF PipeType, Sequence
<1>2. x.nread = n
  BY <1>1, Still DEF Moved
<1>3. x.data = [j \in DOMAIN r.data |-> IF K(j) = {} THEN r.data[j] ELSE v[Max(K(j))]]
  <2>1. /\ DOMAIN r = {"used", "nread", "nwrite", "data", "readopen", "writeopen", "lock", "spoiled"}
    BY Fields DEF PipeType
  <2> DEFINE D == [j \in DOMAIN r.data |-> IF K(j) = {} THEN r.data[j] ELSE v[Max(K(j))]]
  <2>2. Filled(r, v) = [r EXCEPT !.nwrite = (@ + Len(v)) % UINT, !.data = D]
    BY DEF Filled
  <2> HIDE DEF D
  <2>3. Filled(r, v).data = D
    BY <2>1, <2>2
  <2> QED
    BY <2>3 DEF D
<1>4. \A m \in 1 .. Len(v) : (r.nwrite + m - 1) % PIPESIZE = s(c + m)
  <2> TAKE m \in 1 .. Len(v)
  <2>1. m - 1 \in Nat
    BY <1>1
  <2>2. (r.nwrite + (m - 1)) % PIPESIZE = (n + c + (m - 1)) % PIPESIZE
    BY <1>1, <2>1, WriteSlot
  <2>3. r.nwrite + (m - 1) = r.nwrite + m - 1 /\ n + c + (m - 1) = n + (c + m) - 1
    BY <1>1
  <2> QED
    BY <2>2, <2>3
<1>5. ASSUME NEW k \in 1 .. PIPESIZE, NEW l \in 1 .. PIPESIZE, s(k) = s(l) PROVE k = l
  <2>1. n + k - 1 \in Nat /\ n + l - 1 \in Nat
    BY <1>1, Uint
  <2>2. CASE k <= l
    <3>1. n + k - 1 <= n + l - 1 /\ (n + l - 1) - (n + k - 1) < PIPESIZE
      BY <1>1, <2>2, Uint
    <3>2. n + k - 1 = n + l - 1
      BY <1>5, <2>1, <3>1, SameSlot
    <3> QED
      BY <1>1, <3>2
  <2>3. CASE l <= k
    <3>1. n + l - 1 <= n + k - 1 /\ (n + k - 1) - (n + l - 1) < PIPESIZE
      BY <1>1, <2>3, Uint
    <3>2. n + l - 1 = n + k - 1
      BY <1>5, <2>1, <3>1, SameSlot
    <3> QED
      BY <1>1, <3>2
  <2> QED
    BY <2>2, <2>3, Uint
<1>6. \A k \in 1 .. c + Len(v) : s(k) \in DOMAIN r.data
  <2> TAKE k \in 1 .. c + Len(v)
  <2>1. n + k - 1 \in Nat
    BY <1>1
  <2> QED
    BY <1>1, <2>1, Divides
<1>7. \A k \in 1 .. c + Len(v) : Bytes(x, c + Len(v))[k] = x.data[s(k)]
  BY <1>2 DEF Bytes
<1> HIDE DEF s, n
<1>8. ASSUME NEW k \in 1 .. c PROVE Bytes(x, c + Len(v))[k] = Bytes(r, c)[k]
  <2>1. K(s(k)) = {}
    <3>1. ASSUME NEW m \in K(s(k)) PROVE FALSE
      <4>1. m \in 1 .. Len(v) /\ s(c + m) = s(k)
        BY <1>4, <3>1
      <4>2. c + m \in 1 .. PIPESIZE /\ k \in 1 .. PIPESIZE /\ c + m # k
        BY SMTT(30), <1>1, <4>1, Uint
      <4> QED
        BY <1>5, <4>1, <4>2
    <3> QED
      BY <3>1
  <2>2. x.data[s(k)] = r.data[s(k)]
    <3>1. k \in 1 .. c + Len(v)
      BY <1>1
    <3> HIDE DEF K
    <3> QED
      BY <1>3, <1>6, <2>1, <3>1
  <2>3. Bytes(r, c)[k] = r.data[s(k)]
    BY DEF Bytes, s, n
  <2>4. k \in 1 .. c + Len(v)
    BY <1>1
  <2> QED
    BY <1>7, <2>2, <2>3, <2>4
<1>9. ASSUME NEW m \in 1 .. Len(v) PROVE Bytes(x, c + Len(v))[c + m] = v[m]
  <2>0. c + m \in 1 .. c + Len(v) /\ c + m \in 1 .. PIPESIZE
    BY <1>1, Uint
  <2>1. K(s(c + m)) = {m}
    <3>1. m \in K(s(c + m))
      BY <1>4
    <3>2. ASSUME NEW l \in K(s(c + m)) PROVE l = m
      <4>1. l \in 1 .. Len(v) /\ s(c + l) = s(c + m)
        BY <1>4, <3>2
      <4>2. c + l \in 1 .. PIPESIZE
        BY SMTT(30), <1>1, <4>1, Uint
      <4>3. c + l = c + m
        BY <1>5, <2>0, <4>1, <4>2
      <4> QED
        BY <1>1, <4>1, <4>3
    <3> QED
      BY <3>1, <3>2
  <2>2. Max(K(s(c + m))) = m
    <3>1. m \in Int /\ m >= m
      BY <1>1
    <3> HIDE DEF K
    <3> QED
      BY <2>1, <3>1 DEF Max
  <2>3. K(s(c + m)) # {}
    BY <2>1
  <2>4. x.data[s(c + m)] = v[m]
    <3> HIDE DEF K
    <3> QED
      BY <1>3, <1>6, <2>0, <2>2, <2>3
  <2> QED
    BY <1>7, <2>0, <2>4
<1> QED
  BY <1>8, <1>9

\* A read takes the oldest bytes and leaves the others.
LEMMA ReadBytes ==
  ASSUME NEW r, PipeType(r), NEW c \in Nat, c <= PIPESIZE, NEW j \in 0 .. c,
         NEW x, x.nread = (r.nread + j) % UINT, x.data = r.data
  PROVE  \A k \in 1 .. c - j : Bytes(x, c - j)[k] = Bytes(r, c)[k + j]
<1> TAKE k \in 1 .. c - j
<1>1. r.nread \in 0 .. UINT - 1
  BY DEF PipeType
<1>2. (((r.nread + j) % UINT) + (k - 1)) % PIPESIZE = (r.nread + j + (k - 1)) % PIPESIZE
  <2> DEFINE l == k - 1
  <2>1. l \in Nat /\ j \in Nat /\ j <= PIPESIZE
    BY Uint
  <2> HIDE DEF l
  <2>2. (((r.nread + j) % UINT) + l) % PIPESIZE = (r.nread + j + l) % PIPESIZE
    BY <1>1, <2>1, OnSlot
  <2> QED
    BY <2>2 DEF l
<1>3. r.nread + j + (k - 1) = r.nread + (k + j) - 1 /\ x.nread + k - 1 = x.nread + (k - 1)
  <2>1. x.nread \in Int
    BY <1>1, Uint
  <2> QED
    BY <1>1, <2>1
<1>4. k + j \in 1 .. c
  OBVIOUS
<1> QED
  BY <1>2, <1>3, <1>4 DEF Bytes

----------------------------------------------------------------------------
(* Steps of the channel.                                                   *)

\* A pipe that keeps its counters, its bytes and its ends is the same channel.
LEMMA SameChannel ==
  ASSUME \A x \in {"nread", "nwrite", "data", "readopen", "writeopen"} : pipe'[1][x] = pipe[1][x]
  PROVE  UNCHANGED Chan!vars
<1>1. /\ pipe'[1].nread = pipe[1].nread /\ pipe'[1].nwrite = pipe[1].nwrite
      /\ pipe'[1].data = pipe[1].data
      /\ pipe'[1].readopen = pipe[1].readopen /\ pipe'[1].writeopen = pipe[1].writeopen
  OBVIOUS
<1>2. Count(1)' = Count(1)
  BY <1>1 DEF Count
<1>3. Contents(1)' = Contents(1)
  BY <1>1, <1>2 DEF Contents
<1> QED
  BY <1>1, <1>3 DEF Chan!vars

\* The first page exists, and what Contents(1) is in terms of its record.
LEMMA FirstPipe ==
  ASSUME Types
  PROVE  /\ 1 \in Pipes /\ DOMAIN pipe = Pipes /\ PipeType(pipe[1])
         /\ Count(1) \in Nat /\ Count(1) = Between(pipe[1].nread, pipe[1].nwrite)
         /\ Contents(1) = Bytes(pipe[1], Count(1)) /\ Len(Contents(1)) = Count(1)
<1>1. 1 \in Pipes
  BY Tables DEF Types
<1>2. Count(1) \in Nat /\ Count(1) = Between(pipe[1].nread, pipe[1].nwrite) /\ PipeType(pipe[1]) /\ DOMAIN pipe = Pipes
  BY <1>1, CountIs
<1>3. Contents(1) = Bytes(pipe[1], Count(1))
  BY DEF Contents, Bytes
<1>4. Len(Contents(1)) = Count(1)
  BY <1>2 DEF Contents
<1> QED
  BY <1>1, <1>2, <1>3, <1>4

\* Who is inside a pipe has its end.
LEMMA InsideEnd ==
  ASSUME IInv, NEW p \in Procs, NEW i \in Pipes, proc[p].pipe = i,
         NEW w \in BOOLEAN, proc[p].at = IF w THEN "pipewrite" ELSE "piperead"
  PROVE  Ends(i, w) # {}
<1>1. proc[p].at \in Reading \cup Writing /\ (proc[p].at \in Writing) = w
  BY DEF Reading, Writing
<1>2. PICK d \in Fds : /\ proc[p].ofile[d] # None
                       /\ Has(file[proc[p].ofile[d]], i, w)
  BY <1>1 DEF IInv, InsideInv
<1>3. proc[p].ofile[d] \in Files
  BY <1>2, DescriptorsOf DEF IInv
<1> QED
  BY <1>2, <1>3, InEnds

\* A writer finds the write end open.
LEMMA WriterOpen ==
  ASSUME IInv, NEW p \in Procs, NEW i \in Pipes, proc[p].pipe = i, proc[p].at = "pipewrite"
  PROVE  pipe[i].writeopen
<1>1. Ends(i, TRUE) # {}
  BY InsideEnd
<1> QED
  BY <1>1 DEF IInv, EndInv

\* A reader finds the read end open.
LEMMA ReaderOpen ==
  ASSUME IInv, NEW p \in Procs, NEW i \in Pipes, proc[p].pipe = i, proc[p].at = "piperead"
  PROVE  pipe[i].readopen
<1>1. Ends(i, FALSE) # {}
  BY InsideEnd
<1> QED
  BY <1>1 DEF IInv, EndInv

\* pipewrite writes to the channel, or finds no room.
LEMMA pipewrite_channel ==
  ASSUME IInv, IInv', UNCHANGED work, NEW p \in Procs, pipewrite(p)
  PROVE  Chan!write \/ UNCHANGED Chan!vars
<1>1. Types /\ PlaceInv /\ CountInv /\ CountInv' /\ Types' /\ Pipes' = Pipes
  BY DEF IInv, Pipes
<1>2. PICK i, x, v :
        /\ i \in Pipes /\ i = proc[p].pipe /\ proc[p].at = "pipewrite"
        /\ pipe' = [pipe EXCEPT ![i] = x]
        /\ Sequence(v) /\ Len(v) <= Room(i) /\ Moved(pipe[i], x, Len(v), 0)
        /\ x.data = Filled(pipe[i], v).data
  BY <1>1, pipewrite_effect
<1>3. /\ 1 \in Pipes /\ DOMAIN pipe = Pipes /\ PipeType(pipe[1])
      /\ Count(1) \in Nat /\ Count(1) = Between(pipe[1].nread, pipe[1].nwrite)
      /\ Contents(1) = Bytes(pipe[1], Count(1)) /\ Len(Contents(1)) = Count(1)
  BY <1>1, FirstPipe
<1>4. CASE i # 1
  <2>1. pipe'[1] = pipe[1]
    BY <1>2, <1>3, <1>4
  <2> QED
    BY <2>1, SameChannel
<1>5. CASE i = 1
  <2> DEFINE c == Count(1)  n == Len(v)
  <2>1. pipe'[1] = x /\ n \in Nat /\ c + n <= PIPESIZE
    <3>1. n <= PIPESIZE - c /\ n \in Nat
      BY <1>2, <1>5 DEF Room, Sequence
    <3> QED
      BY <1>2, <1>3, <1>5, <3>1, Uint
  <2>2. /\ x.readopen = pipe[1].readopen /\ x.writeopen = pipe[1].writeopen
        /\ x.nwrite = (pipe[1].nwrite + n) % UINT /\ x.nread = pipe[1].nread
    <3>1. pipe[1].nread \in 0 .. UINT - 1
      BY <1>3 DEF PipeType
    <3> QED
      BY <1>2, <1>5, <3>1, Still DEF Moved
  <2>3. Count(1)' = c + n
    <3>1. Count(1)' = Between(x.nread, x.nwrite)
      BY <2>1 DEF Count, Between
    <3>2. pipe[1].nread \in 0 .. UINT - 1 /\ pipe[1].nwrite \in 0 .. UINT - 1
      BY <1>3 DEF PipeType
    <3>3. c + n < UINT
      BY <1>3, <2>1, Uint
    <3>4. Between(pipe[1].nread, (pipe[1].nwrite + n) % UINT) = Between(pipe[1].nread, pipe[1].nwrite) + n
      <4> HIDE DEF n
      <4> QED
        BY <1>3, <2>1, <3>2, <3>3, BetweenMoves
    <3> QED
      BY <1>3, <2>2, <3>1, <3>4
  <2>4. Contents(1)' = Bytes(x, c + n)
    BY <2>1, <2>3 DEF Contents, Bytes
  <2>5. \A k \in 1 .. c : Bytes(x, c + n)[k] = Bytes(pipe[1], c)[k]
    BY <1>2, <1>3, <1>5, <2>1, WrittenBytes
  <2>6. pipe[1].writeopen
    <3>1. proc[p].pipe = 1 /\ proc[p].at = "pipewrite"
      BY <1>2, <1>5
    <3> QED
      BY <1>3, <3>1, WriterOpen
  <2> DEFINE s == Contents(1)  t == Contents(1)'
  <2>7. /\ s = Bytes(pipe[1], c) /\ t = Bytes(x, c + n) /\ c \in Nat /\ c + n \in Nat
        /\ Len(s) = c /\ Len(t) = c + n
    BY <1>3, <2>1, <2>4 DEF Bytes
  <2>8. IsPrefix(s, t)
    <3>1. SubSeq(s, 1, c) = SubSeq(t, 1, c)
      <4>1. \A k \in 1 .. c : s[k] = t[k]
        BY <2>5, <2>7
      <4> HIDE DEF s, t, c
      <4> QED
        BY <2>7, <4>1
    <3> HIDE DEF s, t, c, n
    <3> QED
      BY <2>1, <2>7, <3>1 DEF IsPrefix
  <2>9. CASE n = 0
    <3>1. c + n = c
      BY <1>3, <2>9
    <3>2. s = t
      <4>1. Bytes(x, c) = Bytes(pipe[1], c)
        <5>1. \A k \in 1 .. c : Bytes(x, c)[k] = Bytes(pipe[1], c)[k]
          BY <2>5, <3>1
        <5> HIDE DEF c
        <5> QED
          BY <5>1 DEF Bytes
      <4> QED
        BY <2>7, <3>1, <4>1
    <3> QED
      BY <2>1, <2>2, <3>2 DEF Chan!vars
  <2>10. CASE n # 0
    <3>1. Len(t) \in Len(s) + 1 .. PIPESIZE
      <4> HIDE DEF s, t, c, n
      <4> QED
        BY <2>1, <2>7, <2>10, <1>3, Uint DEF c
    <3>2. Chan!write
      BY <2>1, <2>2, <2>6, <2>8, <3>1 DEF Chan!write, Chan!IsPrefix, IsPrefix
    <3> QED
      BY <3>2
  <2> QED
    BY <2>9, <2>10
<1> QED
  BY <1>4, <1>5

\* piperead reads from the channel, or finds nothing there.
LEMMA piperead_channel ==
  ASSUME IInv, UNCHANGED work, NEW p \in Procs, piperead(p)
  PROVE  Chan!read \/ UNCHANGED Chan!vars
<1>1. Types /\ PlaceInv /\ CountInv
  BY DEF IInv
<1>2. /\ 1 \in Pipes /\ DOMAIN pipe = Pipes /\ PipeType(pipe[1])
      /\ Count(1) \in Nat /\ Count(1) = Between(pipe[1].nread, pipe[1].nwrite)
      /\ Contents(1) = Bytes(pipe[1], Count(1)) /\ Len(Contents(1)) = Count(1)
  BY <1>1, FirstPipe
<1>3. PICK i \in Pipes :
        /\ i = proc[p].pipe /\ proc[p].at = "piperead"
        /\ \/ UNCHANGED pipe
           \/ pipe' = [pipe EXCEPT ![i].lock = p]
           \/ \E j \in Nat : j <= Count(i) /\ pipe' = [pipe EXCEPT ![i].nread = (@ + j) % UINT]
  BY <1>1, piperead_effect
<1>4. DOMAIN pipe[1] = {"used", "nread", "nwrite", "data", "readopen", "writeopen", "lock", "spoiled"}
  BY <1>2, Fields DEF PipeType
<1>5. CASE UNCHANGED pipe
  BY <1>5, SameChannel
<1>6. CASE pipe' = [pipe EXCEPT ![i].lock = p]
  <2>1. \A x \in {"nread", "nwrite", "data", "readopen", "writeopen"} : pipe'[1][x] = pipe[1][x]
    BY <1>2, <1>4, <1>6
  <2> QED
    BY <2>1, SameChannel
<1>7. ASSUME NEW j \in Nat, j <= Count(i), pipe' = [pipe EXCEPT ![i].nread = (@ + j) % UINT]
      PROVE  Chan!read \/ UNCHANGED Chan!vars
  <2>1. CASE i # 1
    <3>1. pipe'[1] = pipe[1]
      BY <1>2, <1>7, <2>1
    <3> QED
      BY <3>1, SameChannel
  <2>2. CASE i = 1
    <3> DEFINE c == Count(1)  x == pipe'[1]
    <3>1. /\ x.nread = (pipe[1].nread + j) % UINT /\ x.nwrite = pipe[1].nwrite
          /\ x.data = pipe[1].data /\ x.readopen = pipe[1].readopen
          /\ x.writeopen = pipe[1].writeopen
      BY <1>2, <1>4, <1>7, <2>2
    <3>2. j \in 0 .. c /\ c <= PIPESIZE /\ c \in Nat
      BY <1>1, <1>2, <1>7, <2>2 DEF CountInv
    <3>3. Count(1)' = c - j
      <4>1. Count(1)' = Between(x.nread, x.nwrite)
        BY DEF Count, Between
      <4>2. pipe[1].nread \in 0 .. UINT - 1 /\ pipe[1].nwrite \in 0 .. UINT - 1
        BY <1>2 DEF PipeType
      <4>3. Between((pipe[1].nread + j) % UINT, pipe[1].nwrite)
              = Between(pipe[1].nread, pipe[1].nwrite) - j
        <5>1. j \in Nat /\ j <= Between(pipe[1].nread, pipe[1].nwrite)
          BY <1>2, <3>2
        <5> QED
          BY <4>2, <5>1, BetweenMoves
      <4> QED
        BY <1>2, <3>1, <4>1, <4>3
    <3>4. Contents(1)' = Bytes(x, c - j)
      BY <3>3 DEF Contents, Bytes
    <3>5. \A k \in 1 .. c - j : Bytes(x, c - j)[k] = Bytes(pipe[1], c)[k + j]
      BY <1>2, <3>1, <3>2, ReadBytes
    <3> DEFINE s == Contents(1)  t == Contents(1)'
    <3>6. t = SubSeq(s, j + 1, Len(s))
      <4>1. /\ s = Bytes(pipe[1], c) /\ t = Bytes(x, c - j) /\ Len(s) = c
        BY <1>2, <3>4
      <4>2. t = [k \in 1 .. c - j |-> t[k]]
        BY <4>1 DEF Bytes
      <4>3. \A k \in 1 .. c - j : t[k] = s[k + j]
        BY <3>5, <4>1
      <4>4. SubSeq(s, j + 1, Len(s)) = [k \in 1 .. 1 + c - (j + 1) |-> s[k + (j + 1) - 1]]
        <5> HIDE DEF s, c
        <5> QED
          BY <3>2, <4>1
      <4>5. 1 + c - (j + 1) = c - j
        BY <3>2
      <4>6. \A k \in 1 .. c - j : k + (j + 1) - 1 = k + j
        BY <3>2
      <4> HIDE DEF s, t, c
      <4> QED
        BY <4>2, <4>3, <4>4, <4>5, <4>6
    <3>7. proc[p].pipe = 1 /\ proc[p].at = "piperead"
      BY <1>3, <2>2
    <3>8. pipe[1].readopen
      BY <1>2, <3>7, ReaderOpen
    <3>9. CASE j = 0
      <4>1. x.nread = pipe[1].nread
        <5>1. pipe[1].nread \in 0 .. UINT - 1
          BY <1>2 DEF PipeType
        <5> QED
          BY <3>1, <3>9, <5>1, Still
      <4>2. \A y \in {"nread", "nwrite", "data", "readopen", "writeopen"} : x[y] = pipe[1][y]
        BY <3>1, <4>1
      <4> QED
        BY <4>2, SameChannel
    <3>10. CASE j # 0
      <4>1. j \in 1 .. Len(s) /\ s # <<>>
        <5>1. Len(s) = c /\ j \in 1 .. c
          BY <1>2, <3>2, <3>10
        <5>2. Len(s) # 0
          BY <3>2, <5>1
        <5> HIDE DEF s, c
        <5> QED
          BY <5>1, <5>2
      <4> QED
        BY <3>1, <3>6, <3>8, <4>1 DEF Chan!read
    <3> QED
      BY <3>9, <3>10
  <2> QED
    BY <2>1, <2>2
<1> QED
  BY <1>3, <1>5, <1>6, <1>7

\* Nobody is left behind in a page whose ends are both closed.
LEMMA FreshPage ==
  Bytes(NoPipe, Between(NoPipe.nread, NoPipe.nwrite)) = <<>>
<1>1. NoPipe.nread = 0 /\ NoPipe.nwrite = 0
  BY DEF NoPipe
<1>2. 0 \in 0 .. UINT - 1
  BY Uint
<1>3. Between(0, 0) = 0
  BY <1>2, BetweenIs
<1> QED
  BY <1>1, <1>3 DEF Bytes

\* pipeclose closes one end of the channel, and with the second the bytes are gone.
LEMMA pipeclose_channel ==
  ASSUME IInv, UNCHANGED work, NEW p \in Procs, pipeclose(p)
  PROVE  Chan!close \/ UNCHANGED Chan!vars
<1>1. Types /\ PlaceInv /\ EndInv
  BY DEF IInv
<1>2. /\ 1 \in Pipes /\ DOMAIN pipe = Pipes /\ PipeType(pipe[1])
      /\ Contents(1) = Bytes(pipe[1], Count(1))
      /\ Count(1) = Between(pipe[1].nread, pipe[1].nwrite)
  BY <1>1, FirstPipe
<1>3. PICK i, w, x :
        /\ i \in Pipes /\ w \in BOOLEAN /\ Has(proc[p].ff, i, w)
        /\ x = [pipe[i] EXCEPT !.writeopen = @ /\ ~ w, !.readopen = @ /\ w]
        /\ pipe' = [pipe EXCEPT ![i] = IF Gone(x) THEN NoPipe ELSE x]
  <2> DEFINE j == proc[p].ff.pipe  v == proc[p].ff.writable
             y == [pipe[j] EXCEPT !.writeopen = @ /\ ~ v, !.readopen = @ /\ v]
  <2>1. /\ j \in Pipes /\ v \in BOOLEAN /\ Has(proc[p].ff, j, v)
        /\ pipe' = [pipe EXCEPT ![j] = IF Gone(y) THEN NoPipe ELSE y]
    BY <1>1, pipeclose_effect DEF Has
  <2>2. y = [pipe[j] EXCEPT !.writeopen = @ /\ ~ v, !.readopen = @ /\ v]
    OBVIOUS
  <2> HIDE DEF y, j, v
  <2> QED
    BY <2>1, <2>2
<1>4. CASE i # 1
  <2>1. pipe'[1] = pipe[1]
    BY <1>2, <1>3, <1>4
  <2> QED
    BY <2>1, SameChannel
<1>5. CASE i = 1
  <2>1. DOMAIN pipe[1] = {"used", "nread", "nwrite", "data", "readopen", "writeopen", "lock", "spoiled"}
        /\ pipe[1].readopen \in BOOLEAN /\ pipe[1].writeopen \in BOOLEAN
    BY <1>2, Fields DEF PipeType
  <2>2. Ends(1, w) # {}
    BY <1>3, <1>5, InEnds
  <2>3. IF w THEN pipe[1].writeopen ELSE pipe[1].readopen
    BY <1>1, <1>2, <1>3, <2>2 DEF EndInv
  <2>4. /\ x.nread = pipe[1].nread /\ x.nwrite = pipe[1].nwrite /\ x.data = pipe[1].data
        /\ x.writeopen = (pipe[1].writeopen /\ ~ w) /\ x.readopen = (pipe[1].readopen /\ w)
    BY <1>3, <1>5, <2>1
  <2>5. pipe'[1] = IF Gone(x) THEN NoPipe ELSE x
    BY <1>2, <1>3, <1>5
  <2>6. CASE Gone(x)
    <3>1. pipe'[1] = NoPipe /\ ~ NoPipe.readopen /\ ~ NoPipe.writeopen
      BY <2>5, <2>6 DEF NoPipe
    <3>2. Contents(1)' = <<>>
      <4>1. Contents(1)' = Bytes(NoPipe, Between(NoPipe.nread, NoPipe.nwrite))
        BY <3>1 DEF Contents, Count, Between, Bytes
      <4> QED
        BY <4>1, FreshPage
    <3>3. /\ ~ (pipe[1].writeopen /\ ~ w) /\ ~ (pipe[1].readopen /\ w)
      BY <2>4, <2>6 DEF Gone
    <3>4. pipe'[1].writeopen = FALSE /\ pipe'[1].readopen = FALSE
      BY <3>1, <2>5 DEF NoPipe
    <3>5. pipe[1].writeopen = w /\ pipe[1].readopen = ~ w
      BY <1>3, <2>1, <2>3, <3>3
    <3> QED
      BY <1>3, <3>2, <3>4, <3>5 DEF Chan!close
  <2>7. CASE ~ Gone(x)
    <3>1. pipe'[1] = x
      BY <2>5, <2>7
    <3>2. Contents(1)' = Contents(1)
      <4>1. Count(1)' = Count(1)
        BY <2>4, <3>1 DEF Count
      <4> QED
        BY <2>4, <3>1, <4>1 DEF Contents
    <3>3. (pipe[1].writeopen /\ ~ w) \/ (pipe[1].readopen /\ w)
      BY <2>4, <2>7 DEF Gone
    <3>4. /\ pipe'[1].writeopen = (pipe[1].writeopen /\ ~ w)
          /\ pipe'[1].readopen = (pipe[1].readopen /\ w)
      BY <2>4, <3>1
    <3> QED
      BY <1>3, <2>1, <2>3, <3>2, <3>3, <3>4 DEF Chan!close
  <2> QED
    BY <2>6, <2>7
<1> QED
  BY <1>4, <1>5

\* A pipe that is made is a channel that was closed at both ends.
LEMMA pipealloc_page_channel ==
  ASSUME IInv, UNCHANGED work, NEW p \in Procs, pipealloc_page(p)
  PROVE  Chan!open \/ UNCHANGED Chan!vars
<1>1. Types /\ PlaceInv /\ EndInv
  BY DEF IInv
<1>2. /\ 1 \in Pipes /\ DOMAIN pipe = Pipes /\ PipeType(pipe[1])
  BY <1>1, FirstPipe
<1> DEFINE new == [NoPipe EXCEPT !.used = TRUE, !.readopen = TRUE, !.writeopen = TRUE]
<1>3. \/ UNCHANGED pipe
      \/ \E i \in Pipes : ~ pipe[i].used /\ pipe' = [pipe EXCEPT ![i] = new]
  BY <1>1, pipealloc_page_effect
<1>4. CASE UNCHANGED pipe
  BY <1>4, SameChannel
<1>5. ASSUME NEW i \in Pipes, ~ pipe[i].used, pipe' = [pipe EXCEPT ![i] = new]
      PROVE  Chan!open \/ UNCHANGED Chan!vars
  <2>1. CASE i # 1
    <3>1. pipe'[1] = pipe[1]
      BY <1>2, <1>5, <2>1
    <3> QED
      BY <3>1, SameChannel
  <2>2. CASE i = 1
    <3>1. pipe'[1] = new
      BY <1>2, <1>5, <2>2
    <3>2. /\ new.nread = NoPipe.nread /\ new.nwrite = NoPipe.nwrite /\ new.data = NoPipe.data
          /\ new.readopen = TRUE /\ new.writeopen = TRUE
      BY Fields
    <3>3. Contents(1)' = <<>>
      <4>1. Contents(1)' = Bytes(NoPipe, Between(NoPipe.nread, NoPipe.nwrite))
        BY <3>1, <3>2 DEF Contents, Count, Between, Bytes
      <4> QED
        BY <4>1, FreshPage
    <3>4. Ends(1, TRUE) = {} /\ Ends(1, FALSE) = {}
      BY <1>1, <1>2, <1>5, <2>2 DEF EndInv
    <3>5. ~ pipe[1].readopen /\ ~ pipe[1].writeopen
      BY <1>1, <1>2, <3>4 DEF EndInv
    <3>6. pipe'[1].readopen = TRUE /\ pipe'[1].writeopen = TRUE
      BY <3>1, <3>2
    <3> QED
      BY <3>3, <3>5, <3>6 DEF Chan!open
  <2> QED
    BY <2>1, <2>2
<1> QED
  BY <1>3, <1>4, <1>5

\* Going to sleep changes the lock of the pipe only.
LEMMA pipe_sleep_channel ==
  ASSUME IInv, UNCHANGED work, NEW p \in Procs, pipe_sleep(p)
  PROVE  UNCHANGED Chan!vars
<1>1. Types /\ PlaceInv
  BY DEF IInv
<1>2. 1 \in Pipes /\ DOMAIN pipe = Pipes /\ PipeType(pipe[1])
  BY <1>1, FirstPipe
<1>3. PICK i \in Pipes : pipe' = [pipe EXCEPT ![i].lock = None]
  BY <1>1, pipe_sleep_effect
<1>4. DOMAIN pipe[1] = {"used", "nread", "nwrite", "data", "readopen", "writeopen", "lock", "spoiled"}
  BY <1>2, Fields DEF PipeType
<1>5. \A x \in {"nread", "nwrite", "data", "readopen", "writeopen"} : pipe'[1][x] = pipe[1][x]
  BY <1>2, <1>3, <1>4
<1> QED
  BY <1>5, SameChannel

\* No other step touches a pipe.
LEMMA OtherSteps ==
  ASSUME NEW p \in Procs, step(p) \/ call(p),
         ~ pipewrite(p), ~ piperead(p), ~ pipe_sleep(p), ~ pipeclose(p), ~ pipealloc_page(p)
  PROVE  UNCHANGED pipe
<1>1. CASE step(p)
  BY <1>1 DEF step, fileclose, iput, sys_open_fd, pipealloc, exit_cwd, exit_zombie, wait
<1>2. CASE call(p)
  BY <1>2 DEF call, argfd_fails, sys_dup, sys_open, sys_close, sys_pipe, sys_read, sys_write,
              file_read, file_write, fork, exit, sys_wait, kill
<1> QED
  BY <1>1, <1>2

\* A step of a process is a step of the channel, or none.
LEMMA ChannelStep ==
  ASSUME IInv, IInv', UNCHANGED work, NEW p \in Procs, step(p) \/ call(p)
  PROVE  Chan!Next \/ UNCHANGED Chan!vars
<1>1. CASE pipewrite(p)
  BY <1>1, pipewrite_channel DEF Chan!Next
<1>2. CASE piperead(p)
  BY <1>2, piperead_channel DEF Chan!Next
<1>3. CASE pipe_sleep(p)
  BY <1>3, pipe_sleep_channel
<1>4. CASE pipeclose(p)
  BY <1>4, pipeclose_channel DEF Chan!Next
<1>5. CASE pipealloc_page(p)
  BY <1>5, pipealloc_page_channel DEF Chan!Next
<1>6. CASE /\ ~ pipewrite(p) /\ ~ piperead(p) /\ ~ pipe_sleep(p) /\ ~ pipeclose(p)
           /\ ~ pipealloc_page(p)
  <2>1. UNCHANGED pipe
    BY <1>6, OtherSteps
  <2> QED
    BY <2>1, SameChannel
<1> QED
  BY <1>1, <1>2, <1>3, <1>4, <1>5, <1>6

\* In the first state the channel is closed at both ends and empty.
LEMMA ChannelInit ==
  ASSUME Init
  PROVE  Chan!Init
<1>1. IInv
  BY InitHolds
<1>2. 1 \in Pipes /\ pipe = [i \in Pipes |-> NoPipe]
  BY <1>1, FirstPipe DEF IInv, Init
<1>3. pipe[1] = NoPipe
  BY <1>2
<1>4. Contents(1) = <<>>
  <2>1. Contents(1) = Bytes(NoPipe, Between(NoPipe.nread, NoPipe.nwrite))
    BY <1>3 DEF Contents, Count, Between, Bytes
  <2> QED
    BY <2>1, FreshPage
<1> QED
  BY <1>3, <1>4 DEF Chan!Init, NoPipe

\* A pipe (the first page stands for all of them) is a bounded queue of bytes with two
\* ends: no byte in it is lost, doubled, overwritten or read out of order, where the
\* counters and the buffer wrap too, for every buffer whose size divides their range.
THEOREM FilesImplementsChannel == Spec => ImplementsChannel
<1>1. Init => Chan!Init
  BY ChannelInit
<1>2. IInv /\ IInv' /\ [Next]_vars => [Chan!Next]_(Chan!vars)
  <2> SUFFICES ASSUME IInv, IInv', [Next]_vars
               PROVE  Chan!Next \/ UNCHANGED Chan!vars
    OBVIOUS
  <2>1. CASE Next
    <3>1. UNCHANGED work /\ \E p \in Procs : step(p) \/ call(p)
      BY <2>1 DEF Next
    <3> QED
      BY <3>1, ChannelStep
  <2>2. CASE UNCHANGED vars
    <3>1. UNCHANGED pipe
      BY <2>2 DEF vars
    <3> QED
      BY <3>1, SameChannel
  <2> QED
    BY <2>1, <2>2
<1> QED
  BY <1>1, <1>2, FilesInvariant, PTL DEF Spec, ImplementsChannel, Chan!Spec
=============================================================================
