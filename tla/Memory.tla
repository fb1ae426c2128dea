------------------------------- MODULE Memory -------------------------------
(***************************************************************************)
(* Memory of processes (proj_filesystem): the page allocator (kalloc.c),    *)
(* page tables and address spaces (vm.c), exec, and what fork, exit, wait,  *)
(* kill, sbrk, the arguments of system calls and faults do with them.       *)
(*                                                                         *)
(* Every kalloc is a step of its own, so that processes that run out of     *)
(* memory do so in the middle of each other's calls; the kfrees of one      *)
(* freevm or deallocuvm are one step.  A page is PGSIZE words, a program a  *)
(* list of instructions.  The heap of malloc is a structure beside them.    *)
(***************************************************************************)
EXTENDS MemoryParameters

Heap == INSTANCE UserHeap

Slots == 1 .. NPROC
initproc == 1

PGROUNDUP(a) == ((a + PGSIZE - 1) \div PGSIZE) * PGSIZE
PDX(a) == a \div (PGSIZE * NPTENTRIES)
PTX(a) == (a \div PGSIZE) % NPTENTRIES

\* What a page may hold: words; a page table; a page directory, its entries for the
\* user first.  A freed page is filled with junk, a new one with zeros.
Filled(w) == [i \in 0 .. PGSIZE - 1 |-> w]
NoPte == [pa |-> 0, u |-> FALSE]
Table(pte) == [i \in 0 .. NPTENTRIES - 1 |-> pte]
Directory == [i \in 0 .. NUPDE + NKPDE - 1 |-> 0]

\* A page table of the kernel's mappings, the same in every directory: not for users.
KernelTable(frames) == Table([pa |-> frames + 1, u |-> FALSE])

\* The locals of a system call under way: the child's slot, the directory and the size it
\* works on, the next address, a page in hand, the next segment.
Locals == [np |-> 0, d |-> 0, old |-> 0, new |-> 0, a |-> 0, mem |-> 0, seg |-> 1]

\* A slot of ptable, with its user code: what is left of it, variables, heap, and the page
\* that exec made inaccessible (not a field of the program: for a property).
Unused == [state |-> "UNUSED", pid |-> 0, parent |-> 0, killed |-> FALSE, kstack |-> 0,
           pgdir |-> 0, sz |-> 0, at |-> "user", loc |-> Locals, prog |-> <<>>,
           regs |-> [r \in {"0", "r", "a", "b", "c", "d"} |-> 0],
           heap |-> Heap!Empty, guard |-> -1]

VARIABLES phys,   \* frame -> its content
          free,   \* kmem.freelist
          proc, nextpid,
          said,   \* bytes in a pipe between a test and its children
          failed, \* what a test demands did not happen
          panic

vars == <<phys, free, proc, nextpid, said, failed, panic>>

Frames == DOMAIN phys

\* The machine after kinit, kvmalloc and userinit: one process with one page.
kpgdir == 1
Start(t) ==
    LET k == NKPDE + 1      \* frames of a directory and its kernel tables
        F == 1 .. t.frames
        dir(d) == [i \in 0 .. NUPDE + NKPDE - 1 |-> IF i < NUPDE THEN 0 ELSE d + 1 + i - NUPDE]
        pgdir == k + 2  pgtab == pgdir + k  page == pgtab + 1 IN
    /\ phys = [f \in F |->
         CASE f = kpgdir -> dir(kpgdir)
           [] f = pgdir -> [dir(pgdir) EXCEPT ![0] = pgtab]
           [] f = pgtab -> [Table(NoPte) EXCEPT ![0] = [pa |-> page, u |-> TRUE]]
           [] f = page -> Filled("initcode")
           [] f = k + 1 \/ f > page -> Filled("junk")
           [] OTHER -> KernelTable(t.frames)]
    /\ free = [i \in 1 .. t.frames - page |-> page + i]
    /\ proc = [p \in Slots |->
         IF p # initproc THEN Unused
         ELSE [Unused EXCEPT !.state = "RUNNABLE", !.pid = 1, !.kstack = k + 1,
                             !.pgdir = pgdir, !.sz = PGSIZE, !.prog = Programs[t.prog]]]
    /\ nextpid = 2 /\ said = 0 /\ failed = FALSE /\ panic = FALSE

Init == \E t \in Tests : Start(t)

----------------------------------------------------------------------------
(* Page tables.                                                            *)

\* The entry for va; one that is not present where there is no page table.
walkpgdir(ph, d, va) == LET t == ph[d][PDX(va)] IN IF t = 0 THEN NoPte ELSE ph[t][PTX(va)]

\* One turn of mappages, with the page table that walkpgdir may have to make.
mappages(ph, fr, d, va, pte) ==
  LET new == ph[d][PDX(va)] = 0
      t == IF new THEN Head(fr) ELSE ph[d][PDX(va)]
      tab == IF new THEN Table(NoPte) ELSE ph[t] IN
  IF new /\ fr = <<>> THEN [ok |-> FALSE, phys |-> ph, free |-> fr, panic |-> FALSE]
  ELSE [ok |-> TRUE, panic |-> tab[PTX(va)].pa # 0,
        phys |-> [ph EXCEPT ![d][PDX(va)] = t, ![t] = [tab EXCEPT ![PTX(va)] = pte]],
        free |-> IF new THEN Tail(fr) ELSE fr]

\* kfree of frames s, in this order.
Junked(ph, s) == [f \in DOMAIN ph |-> IF f \in ToSet(s) THEN Filled("junk") ELSE ph[f]]
Pushed(fr, s) == Reverse(s) \o fr

\* Mutant: rounds the new size down, and frees the page it is in.
Above_down(va, new) == va + PGSIZE > new

\* deallocuvm frees the pages that start at the new size or above it.
Above(va, new) == va >= new

\* The frames of the user pages of d from new up to old.
UserPages(ph, d, old, new) ==
  LET pages == [i \in 1 .. NUPDE * NPTENTRIES |->
                  LET va == (i - 1) * PGSIZE IN
                  IF Above(va, new) /\ va < old THEN walkpgdir(ph, d, va).pa ELSE 0]
  IN SelectSeq(pages, LAMBDA f : f # 0)

Tables(ph, d) == SelectSeq([i \in 1 .. NUPDE + NKPDE |-> ph[d][i - 1]], LAMBDA f : f # 0)
UserTables(ph, d) == {ph[d][i] : i \in 0 .. NUPDE - 1} \ {0}

\* deallocuvm: the memory without those pages.
deallocuvm(ph, d, old, new) ==
  LET gone == ToSet(UserPages(ph, d, old, new))
      cleared == [f \in DOMAIN ph |->
                    IF f \notin UserTables(ph, d) THEN ph[f]
                    ELSE [i \in DOMAIN ph[f] |-> IF ph[f][i].pa \in gone THEN NoPte ELSE ph[f][i]]]
  IN Junked(cleared, UserPages(ph, d, old, new))

\* freevm: pages, page tables, directory.
VmFrames(ph, d) ==
  IF d = 0 THEN <<>> ELSE UserPages(ph, d, KERNBASE, 0) \o Tables(ph, d) \o <<d>>

\* Where user code and copyout find va; below 0 is the kernel's, by the width of an address.
uva2ka(ph, d, va) ==
  IF va \notin 0 .. KERNBASE - 1 THEN 0
  ELSE LET pte == walkpgdir(ph, d, va) IN IF pte.u THEN pte.pa ELSE 0

\* copyout of n words w: a page at a time, up to the first it may not touch.
copyout(ph, d, va, n, w) ==
  LET bad == {a \in va .. va + n - 1 : uva2ka(ph, d, a) = 0}
      end == IF bad = {} THEN va + n ELSE Min(bad) IN
  [ok |-> bad = {},
   phys |-> [f \in DOMAIN ph |->
     LET here == {a % PGSIZE : a \in {b \in va .. end - 1 : uva2ka(ph, d, b) = f}}
     IN IF here = {} THEN ph[f] ELSE [i \in DOMAIN ph[f] |-> IF i \in here THEN w ELSE ph[f][i]]]]

----------------------------------------------------------------------------
(* Instructions and system calls.                                          *)

Op(k) == IF k.prog = <<>> THEN [op |-> "exit", unless |-> "0"] ELSE Head(k.prog)
Eval(k, e) == k.regs[e.plus] - k.regs[e.minus] + e.n

At(p, a) == proc[p].state = "RUNNABLE" /\ proc[p].at = a

\* Process p is about to do this.  An instruction may depend on the fork before it.
Does(p, ops) ==
  /\ At(p, "user") /\ ~ proc[p].killed
  /\ LET k == proc[p]  o == Op(k) IN o.op \in ops /\ (o.unless = "0" \/ k.regs[o.unless] # -1)

Is(p, k) == proc' = [proc EXCEPT ![p] = k]
Ret(k, value) ==
  [k EXCEPT !.at = "user", !.prog = Tail(@), !.loc = Locals,
            !.regs = LET to == Op(k).to IN IF to = "0" THEN @ ELSE [@ EXCEPT ![to] = value]]

skip(p) ==
  /\ At(p, "user") /\ ~ proc[p].killed
  /\ LET k == proc[p]  o == Op(k) IN o.unless # "0" /\ k.regs[o.unless] = -1
  /\ Is(p, [proc[p] EXCEPT !.prog = Tail(@)])
  /\ UNCHANGED <<phys, free, nextpid, said, failed, panic>>

\* A user program touches memory, or a device.  The trap kills it if that is not its own.
access(p) ==
  /\ Does(p, {"load", "store", "io"})
  /\ LET k == proc[p]  o == Op(k)  va == Eval(k, o.e)  i == va % PGSIZE
         f == IF o.op = "io" THEN 0 ELSE uva2ka(phys, k.pgdir, va) IN
     IF f = 0
     THEN Is(p, [k EXCEPT !.killed = TRUE]) /\ UNCHANGED <<phys, failed>>
     ELSE /\ Is(p, Ret(k, 0))
          /\ IF o.op = "store" THEN phys' = [phys EXCEPT ![f][i] = o.v] /\ UNCHANGED failed
             ELSE failed' = (failed \/ phys[f][i] # o.v) /\ UNCHANGED phys
  /\ UNCHANGED <<free, nextpid, said, panic>>

\* A test compares, or has come where it must not.
check(p) ==
  /\ Does(p, {"check", "differ", "oops"})
  /\ LET k == proc[p]  o == Op(k) IN
     /\ failed' = (failed \/ o.op = "oops" \/ o.op # (IF Eval(k, o.e) = 0 THEN "check" ELSE "differ"))
     /\ Is(p, Ret(k, 0))
  /\ UNCHANGED <<phys, free, nextpid, said, panic>>

\* fetchint, argptr (of n words) and fetchstr on an argument: the kernel accepts what is
\* below sz, and reads it there.
Nul(k, va) == LET f == walkpgdir(phys, k.pgdir, va).pa IN f # 0 /\ phys[f][va % PGSIZE] = "0"

fetch(p) ==
  /\ Does(p, {"fetchint", "argptr", "fetchstr"})
  /\ LET k == proc[p]  o == Op(k)  va == Eval(k, o.e)
         inside == va \in 0 .. k.sz - 1
         ends == {a \in va .. k.sz - 1 : Nul(k, a)}
         good == CASE o.op = "fetchint" -> inside
                   [] o.op = "argptr" -> o.n >= 0 /\ inside /\ va + o.n <= k.sz
                   [] o.op = "fetchstr" -> inside /\ ends # {}
         read == CASE ~ inside \/ o.op = "argptr" -> {}
                   [] o.op = "fetchint" -> {va}
                   [] OTHER -> va .. IF ends = {} THEN k.sz - 1 ELSE Min(ends) IN
     /\ panic' = (\E a \in read : walkpgdir(phys, k.pgdir, a).pa = 0)
     /\ Is(p, Ret(k, IF good THEN 0 ELSE -1))
  /\ UNCHANGED <<phys, free, nextpid, said, failed>>

----------------------------------------------------------------------------
(* setupkvm, copyuvm and allocuvm, a kalloc at a time; what a failure gives *)
(* back.                                                                    *)

\* Mutant: the kernel stack of the child that could not be made is kept.
Stack_kept(k) == <<>>

\* The kernel stack fork had for the child.
Stack(k) == IF k.loc.np = 0 THEN <<>> ELSE <<proc[k.loc.np].kstack>>

\* fork or exec of p returns -1: the directory under construction is freed, in memory ph
\* with the free list fr.
Fails(p, ph, fr) ==
  LET k == proc[p]  s == VmFrames(ph, k.loc.d) \o Stack(k) IN
  /\ phys' = Junked(ph, s) /\ free' = Pushed(fr, s)
  /\ proc' = [q \in Slots |->
       CASE q = p -> Ret(k, -1)
         [] q = k.loc.np -> [proc[q] EXCEPT !.state = "UNUSED", !.kstack = 0]
         [] OTHER -> proc[q]]

Goes(p, a, loc) == Is(p, [proc[p] EXCEPT !.at = a, !.loc = loc])

\* kalloc takes the first page, with this content.
Taken(content) == phys' = [phys EXCEPT ![Head(free)] = content] /\ free' = Tail(free)

setupkvm(p) ==
  /\ At(p, "setupkvm")
  /\ IF free = <<>> THEN Fails(p, phys, free)
     ELSE Taken(Directory) /\ Goes(p, "setupkvm_map", [proc[p].loc EXCEPT !.d = Head(free)])
  /\ UNCHANGED <<nextpid, said, failed, panic>>

\* The next kernel table of the directory; after the last, on to what it is for.
setupkvm_map(p) ==
  /\ At(p, "setupkvm_map")
  /\ LET k == proc[p]  d == k.loc.d
         i == Min({j \in NUPDE .. NUPDE + NKPDE - 1 : phys[d][j] = 0}) IN
     IF free = <<>> THEN Fails(p, phys, free)
     ELSE /\ phys' = [phys EXCEPT ![d][i] = Head(free), ![Head(free)] = KernelTable(Cardinality(Frames))]
          /\ free' = Tail(free)
          /\ Goes(p, IF i < NUPDE + NKPDE - 1 THEN "setupkvm_map"
                     ELSE IF k.loc.np # 0 THEN "copyuvm" ELSE "exec_segment", k.loc)
  /\ UNCHANGED <<nextpid, said, failed, panic>>

\* The child is as its parent, at the same place of another program, and may run.
Forked(k, child) ==
  [proc[k.loc.np] EXCEPT !.state = "RUNNABLE", !.pgdir = k.loc.d, !.sz = k.sz, !.parent = child,
     !.prog = Programs[Op(k).child], !.regs = k.regs, !.heap = k.heap, !.guard = k.guard]

\* The next page of the parent; after the last, the end of fork.
copyuvm(p) ==
  /\ At(p, "copyuvm")
  /\ LET k == proc[p]  pte == walkpgdir(phys, k.pgdir, k.loc.a) IN
     IF k.loc.a >= k.sz
     THEN /\ proc' = [proc EXCEPT ![p] = Ret(k, proc[k.loc.np].pid), ![k.loc.np] = Forked(k, p)]
          /\ UNCHANGED <<phys, free, panic>>
     ELSE IF pte.pa = 0 THEN panic' = TRUE /\ UNCHANGED <<phys, free, proc>>
     ELSE IF free = <<>> THEN Fails(p, phys, free) /\ UNCHANGED panic
     ELSE /\ Taken(phys[pte.pa])
          /\ Goes(p, "copyuvm_map", [k.loc EXCEPT !.mem = Head(free)]) /\ UNCHANGED panic
  /\ UNCHANGED <<nextpid, said, failed>>

\* Mutant: the child may touch every page.
Flags_all(pte) == TRUE

Flags(pte) == pte.u

copyuvm_map(p) ==
  /\ At(p, "copyuvm_map")
  /\ LET k == proc[p]  l == k.loc
         u == Flags(walkpgdir(phys, k.pgdir, l.a))
         m == mappages(phys, free, l.d, l.a, [pa |-> l.mem, u |-> u]) IN
     /\ panic' = m.panic
     /\ IF m.ok THEN /\ phys' = m.phys /\ free' = m.free
                     /\ Goes(p, "copyuvm", [l EXCEPT !.mem = 0, !.a = @ + PGSIZE])
        ELSE Fails(p, Junked(phys, <<l.mem>>), Pushed(free, <<l.mem>>))
  /\ UNCHANGED <<nextpid, said, failed>>

\* allocuvm of directory d from old to new, as the next part of a call of p: at a says
\* whether it is sbrk or exec.
Grows(p, d, old, new, a) ==
  Goes(p, a, [proc[p].loc EXCEPT !.d = d, !.old = old, !.new = new, !.a = PGROUNDUP(old)])

Growing == {"sbrk", "exec_load", "exec_stack"}

\* Mutant: what has been allocated stays.
Failed_kept(ph, k) == [phys |-> ph, freed |-> <<>>]

\* What allocuvm does when it fails.
Failed(ph, k) == [phys |-> deallocuvm(ph, k.loc.d, k.loc.new, k.loc.old),
                  freed |-> UserPages(ph, k.loc.d, k.loc.new, k.loc.old)]

\* sbrk keeps its directory, exec gives it up.
AllocFails(p, last) ==
  LET k == proc[p]  f == Failed(phys, k)  ph == Junked(f.phys, last)
      fr == Pushed(free, f.freed \o last) IN
  IF k.at = "sbrk" \/ k.at = "sbrk_map"
  THEN phys' = ph /\ free' = fr /\ Is(p, Ret(k, -1))
  ELSE Fails(p, ph, fr)

\* Mutant: a new page is as it was left.
Zeroed_not(f) == phys[f]

Zeroed(f) == Filled("0")

\* The next page.
allocuvm(p) ==
  /\ proc[p].at \in Growing /\ At(p, proc[p].at) /\ proc[p].loc.a < proc[p].loc.new
  /\ LET k == proc[p] IN
     IF free = <<>> THEN AllocFails(p, <<>>)
     ELSE /\ Taken(Zeroed(Head(free)))
          /\ Goes(p, k.at \o "_map", [k.loc EXCEPT !.mem = Head(free)])
  /\ UNCHANGED <<nextpid, said, failed, panic>>

Mapping(a) == CHOOSE g \in Growing : a = g \o "_map"
allocuvm_map(p) ==
  /\ \E g \in Growing : At(p, g \o "_map")
  /\ LET k == proc[p]  l == k.loc
         m == mappages(phys, free, l.d, l.a, [pa |-> l.mem, u |-> TRUE]) IN
     /\ panic' = m.panic
     /\ IF m.ok THEN /\ phys' = m.phys /\ free' = m.free
                     /\ Goes(p, Mapping(k.at), [l EXCEPT !.mem = 0, !.a = @ + PGSIZE])
        ELSE AllocFails(p, <<l.mem>>)
  /\ UNCHANGED <<nextpid, said, failed>>

\* allocuvm of this call is done.
Grown(p, a) == At(p, a) /\ proc[p].loc.a >= proc[p].loc.new

----------------------------------------------------------------------------
(* sbrk and the heap.                                                      *)

\* The call's amount: an argument, or what morecore wants.
Amount(k) == IF Op(k).op = "malloc" THEN Heap!Wanted(Heap!Units(Op(k).n)) ELSE Eval(k, Op(k).e)

\* malloc finds a block, or asks for more.
malloc(p) ==
  /\ Does(p, {"malloc"})
  /\ LET k == proc[p]  n == Heap!Units(Op(k).n)  t == Heap!Taken(k.heap, n) IN
     /\ Heap!Fits(k.heap, n) # 0
     /\ Is(p, Ret([k EXCEPT !.heap = t.heap], t.block + 1))
  /\ UNCHANGED <<phys, free, nextpid, said, failed, panic>>

free_(p) ==
  /\ Does(p, {"free"})
  /\ LET k == proc[p] IN
     Is(p, Ret([k EXCEPT !.heap = Heap!free(@, Eval(k, Op(k).e) - 1)], 0))
  /\ UNCHANGED <<phys, free, nextpid, said, failed, panic>>

\* growproc with the size n words away: too large, no larger (a difference that would be
\* below 0 is a large size to deallocuvm, which then does nothing), smaller.
growproc(p) ==
  /\ Does(p, {"sbrk", "malloc"})
  /\ LET k == proc[p]  n == Amount(k)  new == k.sz + n IN
     /\ Op(k).op = "malloc" => Heap!Fits(k.heap, Heap!Units(Op(k).n)) = 0
     /\ IF n > 0 /\ new < KERNBASE
        THEN Grows(p, k.pgdir, k.sz, new, "sbrk") /\ UNCHANGED <<phys, free>>
        ELSE IF n > 0 THEN Is(p, Ret(k, -1)) /\ UNCHANGED <<phys, free>>
        ELSE IF n = 0 \/ new < 0 THEN Is(p, Ret(k, k.sz)) /\ UNCHANGED <<phys, free>>
        ELSE /\ phys' = deallocuvm(phys, k.pgdir, k.sz, new)
             /\ free' = Pushed(free, UserPages(phys, k.pgdir, k.sz, new))
             /\ Is(p, IF new = 0 THEN Ret(k, -1) ELSE Ret([k EXCEPT !.sz = new], k.sz))
  /\ UNCHANGED <<nextpid, said, failed, panic>>

\* The end of growproc; malloc looks again, with a larger list.
growproc_size(p) ==
  /\ Grown(p, "sbrk")
  /\ LET k == [proc[p] EXCEPT !.sz = proc[p].loc.new] IN
     Is(p, IF Op(k).op = "malloc"
           THEN [k EXCEPT !.at = "user", !.loc = Locals,
                          !.heap = Heap!morecore(@, proc[p].sz, Amount(k))]
           ELSE Ret(k, proc[p].sz))
  /\ UNCHANGED <<phys, free, nextpid, said, failed, panic>>

----------------------------------------------------------------------------
(* fork and exec.                                                          *)

fork(p) ==
  /\ Does(p, {"fork"})
  /\ LET unused == {q \in Slots : proc[q].state = "UNUSED"}  np == Min(unused) IN
     IF unused = {} THEN Is(p, Ret(proc[p], -1)) /\ UNCHANGED nextpid
     ELSE /\ proc' = [proc EXCEPT ![p].at = "fork", ![p].loc = [Locals EXCEPT !.np = np],
                                  ![np].state = "EMBRYO", ![np].pid = nextpid]
          /\ nextpid' = nextpid + 1
  /\ UNCHANGED <<phys, free, said, failed, panic>>

\* The kernel stack, as it was left.
fork_kstack(p) ==
  /\ At(p, "fork")
  /\ LET k == proc[p]  np == k.loc.np IN
     IF free = <<>>
     THEN /\ proc' = [proc EXCEPT ![p] = Ret(k, -1), ![np].state = "UNUSED"]
          /\ UNCHANGED <<phys, free>>
     ELSE /\ Taken(phys[Head(free)])
          /\ proc' = [proc EXCEPT ![p].at = "setupkvm", ![np].kstack = Head(free)]
  /\ UNCHANGED <<nextpid, said, failed, panic>>

\* The file of the path, its header, and sys_exec's limit on arguments.
exec(p) ==
  /\ Does(p, {"exec"})
  /\ LET k == proc[p]  o == Op(k) IN
     IF o.child \notin DOMAIN Images \/ Len(o.args) >= MAXARG THEN Is(p, Ret(k, -1))
     ELSE IF ~ Images[o.child].elf THEN Is(p, Ret(k, -1))
     ELSE Goes(p, "setupkvm", Locals)
  /\ UNCHANGED <<phys, free, nextpid, said, failed, panic>>

Segments(k) == Images[Op(k).child].segments

\* The next program header, or two pages for the stack behind the last.
exec_segment(p) ==
  /\ At(p, "exec_segment")
  /\ LET k == proc[p]  l == k.loc  top == PGROUNDUP(l.new)
         s == Segments(k)[l.seg]  end == s.vaddr + s.memsz IN
     IF l.seg > Len(Segments(k))
     THEN IF top + 2 * PGSIZE >= KERNBASE THEN Fails(p, phys, free)
          ELSE Grows(p, l.d, top, top + 2 * PGSIZE, "exec_stack") /\ UNCHANGED <<phys, free>>
     ELSE IF s.memsz < s.filesz \/ end >= KERNBASE THEN Fails(p, phys, free)
     ELSE Grows(p, l.d, l.new, Max({l.new, end}), "exec_load") /\ UNCHANGED <<phys, free>>
  /\ UNCHANGED <<nextpid, said, failed, panic>>

\* loaduvm, unless the file is too short.
exec_load(p) ==
  /\ Grown(p, "exec_load")
  /\ LET k == proc[p]  l == k.loc  s == Segments(k)[l.seg] IN
     IF l.new = 0 \/ s.vaddr % PGSIZE # 0 \/ s.short THEN Fails(p, phys, free)
     ELSE /\ phys' = copyout(phys, l.d, s.vaddr, s.filesz, "text").phys
          /\ Goes(p, "exec_segment", [l EXCEPT !.seg = @ + 1]) /\ UNCHANGED free
  /\ UNCHANGED <<nextpid, said, failed, panic>>

\* Mutant: the page below the stack can be written.
clearpteu_not(ph, d, va) == ph

clearpteu(ph, d, va) == [ph EXCEPT ![ph[d][PDX(va)]][PTX(va)].u = FALSE]

\* The arguments, of so many words each, and what main is called with, below the top of
\* the stack.
Push(d, st, n, w) ==
  LET c == copyout(st.phys, d, st.sp - n, n, w) IN
  [ok |-> st.ok /\ c.ok, sp |-> st.sp - n, phys |-> IF st.ok THEN c.phys ELSE st.phys]
Arguments(ph, d, sz, args) ==
  Push(d, FoldLeft(LAMBDA st, n : Push(d, st, n, "arg"), [ok |-> TRUE, sp |-> sz, phys |-> ph], args),
       3 + Len(args) + 1, "argv")

\* The stack is filled; then the old image is given up.
exec_commit(p) ==
  /\ Grown(p, "exec_stack")
  /\ LET k == proc[p]  l == k.loc  guard == l.new - 2 * PGSIZE
         st == Arguments(clearpteu(phys, l.d, guard), l.d, l.new, Op(k).args)
         s == VmFrames(st.phys, k.pgdir) IN
     IF ~ st.ok THEN Fails(p, st.phys, free)
     ELSE /\ phys' = Junked(st.phys, s) /\ free' = Pushed(free, s)
          /\ Is(p, [k EXCEPT !.at = "user", !.loc = Locals, !.pgdir = l.d, !.sz = l.new,
                             !.prog = Programs[Op(k).child], !.regs = Unused.regs,
                             !.heap = Heap!Empty, !.guard = guard])
  /\ UNCHANGED <<nextpid, said, failed, panic>>

----------------------------------------------------------------------------
(* exit, wait, kill, and what tests sleep in.                              *)

Sleeps(q, a) == proc[q].state = "SLEEPING" /\ proc[q].at = a

\* A process ends, also a killed one when it is about to return to user code.
exit(p) ==
  /\ At(p, "user") /\ (proc[p].killed \/ Op(proc[p]).op = "exit")
  /\ LET orphans == {q \in Slots : proc[q].parent = p}
         called == {proc[p].parent}
                   \cup {initproc : q \in {o \in orphans : proc[o].state = "ZOMBIE"}} IN
     IF p = initproc THEN panic' = TRUE /\ UNCHANGED proc
     ELSE /\ proc' = [q \in Slots |->
                IF q = p THEN [proc[p] EXCEPT !.state = "ZOMBIE"]
                ELSE [proc[q] EXCEPT !.parent = IF q \in orphans THEN initproc ELSE @,
                        !.state = IF q \in called /\ Sleeps(q, "wait") THEN "RUNNABLE" ELSE @]]
          /\ UNCHANGED panic
  /\ UNCHANGED <<phys, free, nextpid, said, failed>>

\* A call to wait, or its next turn.
wait(p) ==
  /\ Does(p, {"wait"}) \/ At(p, "wait")
  /\ LET k == proc[p]
         kids == {q \in Slots : proc[q].parent = p}
         dead == {q \in kids : proc[q].state = "ZOMBIE"}  z == Min(dead)
         s == <<proc[z].kstack>> \o VmFrames(phys, proc[z].pgdir) IN
     IF dead # {}
     THEN /\ phys' = Junked(phys, s) /\ free' = Pushed(free, s)
          /\ proc' = [proc EXCEPT ![z] = Unused, ![p] = Ret(k, proc[z].pid)]
     ELSE /\ Is(p, IF kids = {} \/ k.killed THEN Ret(k, -1)
                   ELSE [k EXCEPT !.state = "SLEEPING", !.at = "wait"])
          /\ UNCHANGED <<phys, free>>
  /\ UNCHANGED <<nextpid, said, failed, panic>>

kill(p) ==
  /\ Does(p, {"kill"})
  /\ LET k == proc[p]
         named == {q \in Slots : proc[q].pid = Eval(k, Op(k).e)}  t == Min(named)
         hit(r) == [r EXCEPT !.killed = TRUE, !.state = IF @ = "SLEEPING" THEN "RUNNABLE" ELSE @] IN
     IF named = {} THEN Is(p, Ret(k, -1))
     ELSE IF t = p THEN Is(p, hit(Ret(k, 0)))
     ELSE proc' = [proc EXCEPT ![p] = Ret(k, 0), ![t] = hit(@)]
  /\ UNCHANGED <<phys, free, nextpid, said, failed, panic>>

\* A loop around sleep: until killed.
pause(p) ==
  /\ Does(p, {"pause"}) \/ At(p, "pause")
  /\ Is(p, IF proc[p].killed THEN Ret(proc[p], -1)
           ELSE [proc[p] EXCEPT !.state = "SLEEPING", !.at = "pause"])
  /\ UNCHANGED <<phys, free, nextpid, said, failed, panic>>

\* A byte through a pipe (modelled in Files).
say(p) ==
  /\ Does(p, {"say"}) /\ said' = said + 1 /\ Is(p, Ret(proc[p], 1))
  /\ UNCHANGED <<phys, free, nextpid, failed, panic>>
hear(p) ==
  /\ Does(p, {"hear"}) /\ said > 0 /\ said' = said - 1 /\ Is(p, Ret(proc[p], 1))
  /\ UNCHANGED <<phys, free, nextpid, failed, panic>>

\* init has waited for every test and sleeps.
Over == Sleeps(initproc, "pause") /\ UNCHANGED vars

Next ==
  \/ \E p \in Slots :
       \/ skip(p) \/ access(p) \/ check(p) \/ fetch(p)
       \/ setupkvm(p) \/ setupkvm_map(p) \/ copyuvm(p) \/ copyuvm_map(p)
       \/ allocuvm(p) \/ allocuvm_map(p)
       \/ malloc(p) \/ free_(p) \/ growproc(p) \/ growproc_size(p)
       \/ fork(p) \/ fork_kstack(p)
       \/ exec(p) \/ exec_segment(p) \/ exec_load(p) \/ exec_commit(p)
       \/ exit(p) \/ wait(p) \/ kill(p) \/ pause(p) \/ say(p) \/ hear(p)
  \/ Over

Spec == Init /\ [][Next]_vars

----------------------------------------------------------------------------
(* Properties.                                                             *)

Live(k) == k.state \in {"RUNNABLE", "SLEEPING", "ZOMBIE"}

\* The frames a slot has: its kernel stack, its memory, the directory its call is making
\* and the page the call holds.
Has(k) ==
  LET one(f) == IF f = 0 THEN <<>> ELSE <<f>> IN
  one(k.kstack) \o (IF Live(k) THEN VmFrames(phys, k.pgdir) ELSE <<>>)
  \o (IF k.loc.d = k.pgdir THEN <<>> ELSE VmFrames(phys, k.loc.d)) \o one(k.loc.mem)

\* Every frame is in one place: on the free list, or with the kernel, or with one process
\* as stack, page, page table or directory.  None is lost and none is used twice, whichever
\* call ran out of memory (kalloc, kfree, freevm, the error paths of copyuvm and allocuvm).
FramesOnce ==
  LET all == FoldLeft(LAMBDA s, k : s \o Has(k), free \o VmFrames(phys, kpgdir), proc) IN
  Len(all) = Cardinality(Frames) /\ ToSet(all) = Frames

\* Outside of a call that changes it, an address space is what sz says: the pages below sz
\* are there and the user's, but for the page under the stack, no other address is, and the
\* kernel never finds a page missing or mapped twice (the panics of copyuvm and mappages, the
\* kernel's reads of arguments that it compares only with sz).
SpaceRight ==
  /\ ~ panic
  /\ \A p \in Slots :
       LET k == proc[p] IN
       Live(k) /\ k.at \notin {"sbrk", "sbrk_map"} =>
         \A i \in 0 .. NUPDE * NPTENTRIES - 1 :
           LET va == i * PGSIZE  pte == walkpgdir(phys, k.pgdir, va) IN
           pte = [pa |-> pte.pa, u |-> va < k.sz /\ va # k.guard] /\ (pte.pa # 0) = (va < k.sz)

\* What the tests of usertests.c and forktest.c demand has happened, and malloc's list and
\* blocks are whole in every process (umalloc.c).
TestsHold == ~ failed /\ \A p \in Slots : Live(proc[p]) => Heap!Whole(proc[p].heap)

\* The image of exec as its file and its arguments say: for AddressSpaces.
Image(path, args) ==
  LET top == FoldLeft(LAMBDA sz, s : Max({sz, s.vaddr + s.memsz}), 0, Images[path].segments)
      sz == PGROUNDUP(top) + 2 * PGSIZE
      strings == FoldLeft(LAMBDA n, m : n + m, 0, args)
      text == UNION {s.vaddr .. s.vaddr + s.filesz - 1 : s \in ToSet(Images[path].segments)} IN
  [a \in 0 .. sz - 1 |->
     CASE a >= sz - strings -> "arg"
       [] a < sz - strings /\ a >= sz - strings - 4 - Len(args) -> "argv"
       [] OTHER -> IF a \in text THEN "text" ELSE "0"]

Instructions == UNION {ToSet(Programs[n]) : n \in DOMAIN Programs}
Contents == {i.v : i \in Instructions}
LoadedImages ==
  {Image(i.child, i.args) : i \in {j \in Instructions : j.op = "exec" /\ j.child \in DOMAIN Images}}

\* The words of a process, in whole pages.
Space(k) ==
  IF ~ Live(k) THEN [a \in {} |-> 0]
  ELSE [a \in 0 .. PGROUNDUP(k.sz) - 1 |-> phys[walkpgdir(phys, k.pgdir, a).pa][a % PGSIZE]]

Spaces == INSTANCE AddressSpaces WITH
  Words <- Contents,
  Sizes <- {i * PGSIZE : i \in 0 .. NUPDE * NPTENTRIES},
  Loaded <- {[a \in 0 .. PGSIZE - 1 |-> "initcode"]}
            \cup LoadedImages,
  space <- [p \in Slots |-> Space(proc[p])]

\* Every process has memory of its own, as AddressSpaces says, through every fork, exec, sbrk
\* and exit that is under way at the same time, and through those that fail.
ImplementsSpaces == Spaces!Spec
=============================================================================
