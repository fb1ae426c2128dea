------------------------------ MODULE MemTests ------------------------------
(***************************************************************************)
(* User programs for Memory: initcode and init, the tests of usertests.c    *)
(* and forktest.c that are about memory and processes, with their loops cut *)
(* to a few turns, and programs for what those tests leave out.             *)
(***************************************************************************)
EXTENDS Integers, Sequences, SequencesExt

CONSTANTS PGSIZE, KERNBASE, NPROC, BIG, TextWords

\* An instruction and its parts: an address or a number (two registers and a constant), the
\* register for the result, a word, a size, a program, arguments, and the register that
\* makes it be skipped.
Num(n) == [plus |-> "0", minus |-> "0", n |-> n]
Reg(r, n) == [plus |-> r, minus |-> "0", n |-> n]
Diff(r, s, n) == [plus |-> r, minus |-> s, n |-> n]
Does(op) == [op |-> op, e |-> Num(0), to |-> "0", v |-> "0", n |-> 0, child |-> "", args |-> <<>>,
             unless |-> "0"]

sbrk(e, to) == [Does("sbrk") EXCEPT !.e = e, !.to = to]
store(e, w) == [Does("store") EXCEPT !.e = e, !.v = w]
load(e, w) == [Does("load") EXCEPT !.e = e, !.v = w]
zero(e) == [Does("check") EXCEPT !.e = e]
notzero(e) == [Does("differ") EXCEPT !.e = e]
fork(child, to) == [Does("fork") EXCEPT !.child = child, !.to = to]
wait(to) == [Does("wait") EXCEPT !.to = to]
kill(r) == [Does("kill") EXCEPT !.e = Reg(r, 0)]
exec(path, args) == [Does("exec") EXCEPT !.child = path, !.args = args, !.to = "r"]
malloc(n, to) == [Does("malloc") EXCEPT !.n = n, !.to = to]
free(r) == [Does("free") EXCEPT !.e = Reg(r, 0)]
Unless(r, i) == [i EXCEPT !.unless = r]
Turns(n, body(_)) == FlattenSeq([i \in 1 .. n |-> body(i)])

\* What a test must find when a call has failed: -1.
Failed(r) == zero(Reg(r, 1))
Worked(r) == notzero(Reg(r, 1))

----------------------------------------------------------------------------
initcode(path) == <<exec(path, <<1>>)>>

\* init runs a program and waits for all processes there are.
init(test) == <<fork(test, "a")>> \o Turns(NPROC, LAMBDA i : <<wait("r")>>) \o <<Does("pause")>>
runs(path) == <<exec(path, <<1>>)>>

sbrktest ==
  <<sbrk(Num(0), "d")>>
  \o Turns(PGSIZE + 1,
       LAMBDA i : <<sbrk(Num(1), "b"), zero(Diff("b", "d", 1 - i)), store(Reg("b", 0), "1")>>)
  \o <<fork("sbrk_child", "c"), Worked("c"),
       sbrk(Num(1), "a"), sbrk(Num(1), "a"), zero(Diff("a", "d", 0 - PGSIZE - 2)), wait("r"),
       sbrk(Num(0), "a"), sbrk(Diff("0", "a", BIG), "b"), zero(Diff("b", "a", 0)),
       store(Num(BIG - 1), "99"),
       sbrk(Num(0 - PGSIZE), "c"), Worked("c"), sbrk(Num(0), "a"), zero(Reg("a", PGSIZE - BIG)),
       sbrk(Num(PGSIZE), "c"), zero(Diff("c", "a", 0)), load(Num(BIG - 1), "0"),
       sbrk(Num(0), "a"), sbrk(Diff("d", "a", 0), "c"), zero(Diff("c", "a", 0)),
       fork("peek", "c"), wait("r")>>
sbrk_child == <<sbrk(Num(1), "c"), sbrk(Num(1), "c"), zero(Diff("c", "d", 0 - PGSIZE - 2))>>
peek == <<load(Num(KERNBASE), "0"), Does("oops")>>

\* The rest of sbrktest: two children take what there is.
hogs ==
  <<sbrk(Num(0), "d"),
    fork("hog", "a"), Unless("a", Does("hear")), fork("hog", "b"), Unless("b", Does("hear")),
    sbrk(Num(PGSIZE), "c"),
    Unless("a", kill("a")), Unless("a", wait("r")), Unless("b", kill("b")), Unless("b", wait("r")),
    Worked("c"), sbrk(Num(0), "a"), sbrk(Diff("d", "a", 0), "r")>>
hog == <<sbrk(Num(0), "a"), sbrk(Diff("0", "a", BIG), "r"), Does("say"), Does("pause")>>

validatetest ==
  Turns(4, LAMBDA i :
    <<fork("validateint", "a"), kill("a"), wait("r"),
      [Does("fetchstr") EXCEPT !.e = Num((i - 1) * PGSIZE), !.to = "r"]>>)
validateint == [i \in 1 .. 3 |-> [Does("fetchint") EXCEPT !.e = Num(6 * i)]]

\* Words that are not in the file are zero.
bsstest == <<load(Num(0), "text")>> \o Turns(PGSIZE - TextWords, LAMBDA i : <<load(Num(PGSIZE - i), "0")>>)

\* The arguments do not fit the stack: exec fails and the child goes on.
bigargtest == <<fork("bigargs", "a"), Worked("a"), wait("r"), Does("hear")>>
bigargs(n) == <<exec("echo", [i \in 1 .. n |-> 2]), Does("say")>>

argptest ==
  <<sbrk(Num(0), "a"), [Does("argptr") EXCEPT !.e = Reg("a", -1), !.n = -1, !.to = "b"], Failed("b"),
    [Does("argptr") EXCEPT !.e = Reg("a", -1), !.n = 1, !.to = "b"], zero(Reg("b", 0)),
    [Does("argptr") EXCEPT !.e = Reg("a", -1), !.n = 2, !.to = "b"], Failed("b")>>

exectest == <<exec("echo", <<1>>), Does("oops")>>

uio == <<fork("ports", "a"), wait("r")>>
ports == <<Does("io"), Does("oops")>>

\* malloc until there is no more, free it all, and ask for one large piece.
mem == <<fork("mem_child", "d"), Worked("d"), wait("r")>>
mem_child ==
  <<malloc(9, "a"), store(Reg("a", 0), "1"), Unless("a", malloc(9, "b")), Unless("b", malloc(9, "c")),
    Unless("b", free("b")), free("a"), malloc(19, "a"), Worked("a"), free("a")>>

forktest ==
  <<fork("quits", "a"), fork("quits", "b"), fork("quits", "c"),
    Unless("a", wait("d")), Unless("a", Worked("d")), Unless("b", wait("d")), Unless("b", Worked("d")),
    Unless("c", wait("d")), Unless("c", Worked("d")), wait("d"), Failed("d")>>
exitwait == <<fork("quits", "a"), Unless("a", wait("b")), Unless("a", zero(Diff("a", "b", 0)))>>

\* Not in usertests: blocks freed in another order, files that are no programs, a program of
\* two segments, a child that outlives its parent, half a page given back, and a write to the
\* page under the stack.
heap ==
  <<malloc(1, "a"), malloc(2, "b"), malloc(1, "c"), malloc(1, "d"), free("b"), free("d"), malloc(1, "b"),
    free("a"), free("c"), free("b"), malloc(5, "a"), free("a")>>
badexec(paths) == FlattenSeq([i \in 1 .. Len(paths) |-> <<exec(paths[i], <<1>>), Failed("r")>>])
                  \o <<exec("two", <<>>), Does("oops")>>
shrink == <<sbrk(Num(2), "a"), store(Reg("a", 0), "1"), sbrk(Num(-1), "b"), load(Reg("a", 0), "1"),
            sbrk(Num(PGSIZE), "b"), zero(Diff("b", "a", -1)), load(Reg("a", 0), "1")>>
orphan == <<fork("later", "b"), sbrk(Num(1), "a"), kill("b")>>
later == <<sbrk(Num(1), "a"), Does("pause")>>
forkrace == <<fork("grab", "a"), fork("quits", "b"), wait("r"), wait("r")>>
execrace == <<fork("grab", "a"), exec("echo", <<1>>)>>
under == <<store(Num(2 * PGSIZE), "1"), fork("stack", "a"), sbrk(Num(PGSIZE), "b"), wait("r"),
           load(Num(2 * PGSIZE), "1"), store(Num(2 * PGSIZE - 1), "1"), Does("oops")>>
grab == <<sbrk(Num(1), "a")>>
stack == <<load(Num(2 * PGSIZE), "1"), store(Num(2 * PGSIZE), "99"), store(Num(PGSIZE), "1"), Does("oops")>>
=============================================================================
