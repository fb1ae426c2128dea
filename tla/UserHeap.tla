------------------------------ MODULE UserHeap ------------------------------
(***************************************************************************)
(* malloc and free (umalloc.c): a circular list of free blocks in the order *)
(* of their addresses, as operators on a record.  size has the header of    *)
(* every block, ptr the link of a free one, freep is where the next search  *)
(* begins; got is the memory that sbrk has given (for a property).          *)
(***************************************************************************)
EXTENDS Naturals, Sequences, FiniteSets, SequencesExt

CONSTANT MINUNITS

base == 0

\* Before the first malloc freep is null; the list of base alone is what it makes then.
Empty == [freep |-> base, ptr |-> (base :> base), size |-> (base :> 0), got |-> {}]

\* The n free blocks from b on.
Chain(h, b) ==
  LET c[i \in 1 .. Cardinality(DOMAIN h.ptr)] == IF i = 1 THEN b ELSE h.ptr[c[i - 1]] IN c

\* f with x mapped to y, and f without x.
With(f, x, y) == (x :> y) @@ f
Without(f, x) == [z \in DOMAIN f \ {x} |-> f[z]]

\* Mutant: a block is only put between two others.
Between_strictly(h, p, b) == b > p /\ b < h.ptr[p]

\* Whether b belongs behind p: between it and the next, or at the end of the order.
Between(h, p, b) ==
  \/ b > p /\ b < h.ptr[p]
  \/ p >= h.ptr[p] /\ (b > p \/ b < h.ptr[p])

\* Mutant: blocks that meet stay apart.
Joins_never(h, a, b) == FALSE

\* Block a ends where block b begins.
Joins(h, a, b) == a + h.size[a] = b

\* free of block b: behind the first block from freep where it belongs, joined with its
\* neighbours.
free(h, b) ==
  LET list == Chain(h, h.freep)
      at == SelectInSeq(list, LAMBDA q : Between(h, q, b))
      p == list[IF at = 0 THEN 1 ELSE at]  next == h.ptr[p]
      up == Joins(h, b, next)
      h1 == IF up THEN [h EXCEPT !.size = Without([@ EXCEPT ![b] = @ + h.size[next]], next),
                                 !.ptr = With(Without(@, next), b, h.ptr[next])]
            ELSE [h EXCEPT !.ptr = With(@, b, next)] IN
  [IF Joins(h1, p, b)
   THEN [h1 EXCEPT !.size = Without([@ EXCEPT ![p] = @ + h1.size[b]], b),
                   !.ptr = Without([@ EXCEPT ![p] = h1.ptr[b]], b)]
   ELSE [h1 EXCEPT !.ptr[p] = b] EXCEPT !.freep = p]

\* The units of nbytes, in units, with the header.
Units(n) == n + 1

\* The turns of malloc's loop: the predecessor of the first block with n units, 0 turns
\* if there is none and morecore is asked.
Fits(h, n) == SelectInSeq(Chain(h, h.freep), LAMBDA q : h.size[h.ptr[q]] >= n)

\* malloc takes the block behind the one found, or the tail of it.
Taken(h, n) ==
  LET prev == Chain(h, h.freep)[Fits(h, n)]  p == h.ptr[prev]  left == h.size[p] - n IN
  IF left = 0
  THEN [block |-> p,
        heap |-> [h EXCEPT !.ptr = Without([@ EXCEPT ![prev] = h.ptr[p]], p), !.freep = prev]]
  ELSE [block |-> p + left,
        heap |-> [h EXCEPT !.size = With([@ EXCEPT ![p] = left], p + left, n), !.freep = prev]]

\* What morecore asks sbrk for, and the new block, given to free.
Wanted(n) == IF n < MINUNITS THEN MINUNITS ELSE n
morecore(h, p, nu) ==
  free([h EXCEPT !.size = With(@, p, nu), !.got = @ \cup (p .. p + nu - 1)], p)

\* Blocks are apart and cover what sbrk gave; the free ones are in one list, in order, and
\* no two of them meet.
Whole(h) ==
  LET units(b) == b .. b + h.size[b] - 1
      blocks == DOMAIN h.size \ {base} IN
  /\ UNION {units(b) : b \in blocks} = h.got
  /\ \A a, b \in blocks : a < b => a + h.size[a] <= b
  /\ ToSet(Chain(h, base)) = DOMAIN h.ptr
  /\ \A b \in DOMAIN h.ptr : /\ h.ptr[b] = base \/ b < h.ptr[b]
                             /\ b # base => ~ Joins(h, b, h.ptr[b])
=============================================================================
