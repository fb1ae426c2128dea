------------------------------ MODULE Programs ------------------------------
(***************************************************************************)
(* User programs as the lists of system calls that Files takes: commands   *)
(* that read one descriptor and write another (echo.c, cat.c, wc.c), init.c *)
(* and the tests of usertests.c on pipes and kill.  A descriptor is named   *)
(* by the variable that holds it.  printf writes to the console or to what  *)
(* has taken its place; what it writes at once here is one argument.        *)
(***************************************************************************)
EXTENDS Naturals, Sequences, FiniteSets, SequencesExt, TLC

CONSTANTS BUFSIZE,   \* bytes a command reads at once, at least PIPESIZE in the code
          CHUNK,     \* bytes pipe1 writes at once, more than fit a pipe
          CHUNKS

Call(op) == [op |-> op, fd |-> "in", n |-> 0, data |-> <<>>, path |-> "", create |-> FALSE,
             child |-> <<>>, must |-> FALSE, loop |-> "once"]
Must(call) == [call EXCEPT !.must = TRUE]   \* the program ends if this fails

AnyCall == Call("any")    \* a program of which nothing is known
spin == Call("spin")      \* for(;;) ;
wait == Call("wait")
waits == [wait EXCEPT !.loop = "again"]       \* until there is no child
fork(child) == [Call("fork") EXCEPT !.child = child]
pipe == Call("pipe")                          \* sets p0 and p1
dup(fd) == [Call("dup") EXCEPT !.fd = fd]
close(fd) == [Call("close") EXCEPT !.fd = fd]
kill(n) == [Call("kill") EXCEPT !.n = n]      \* the n-th process it has forked
write(fd, w) == [Call("write") EXCEPT !.fd = fd, !.data = w]
read(fd, n) == [Call("read") EXCEPT !.fd = fd, !.n = n]
reads(fd, n, loop) == [read(fd, n) EXCEPT !.loop = loop]   \* to the end of the file
open(path, create) == [Call("open") EXCEPT !.path = path, !.create = create]

printf(word) == <<write("out", <<word>>)>>

\* What a loop of reads does with what it has read, and what follows the end of the
\* file; the loop of pipe1 asks for twice as much each time.
Between(call, w) ==
  CASE call.loop = "cat" -> <<Must([write("out", w) EXCEPT !.fd = "out"]), call>>
    [] call.loop = "check" -> <<[call EXCEPT !.n = IF 2 * @ > BUFSIZE THEN BUFSIZE ELSE 2 * @]>>
    [] OTHER -> <<call>>
After(call, got) ==
  CASE call.loop = "wc" -> printf(ToString(Len(got)))
    [] call.loop = "check" -> IF got = call.data THEN <<>> ELSE printf("oops")
    [] OTHER -> <<>>

----------------------------------------------------------------------------

echo(args) == FlattenSeq([j \in DOMAIN args |-> printf(args[j])])

\* cat and wc read their files, or the standard input if there are none.
OfEach(args, Body(_)) ==
  IF args = <<>> THEN <<Body("in")>>
  ELSE FlattenSeq([j \in DOMAIN args |->
         <<Must(open(args[j], FALSE)), Body("fd"), close("fd")>>])
cat(args) == OfEach(args, LAMBDA fd : Must(reads(fd, BUFSIZE, "cat")))
wc(args) == OfEach(args, LAMBDA fd : Must(reads(fd, BUFSIZE, "wc")))

\* init: a process for the shell, then every orphan that ends.
init(shell) == <<fork(shell), waits>>

----------------------------------------------------------------------------
(* usertests.c                                                             *)

Bytes(m, n) == [i \in 1 .. n |-> ToString(m + i)]

pipe1 ==
  << Must(pipe),
     Must(fork(<<close("p0")>>
               \o [n \in 1 .. CHUNKS |-> Must(write("p1", Bytes((n - 1) * CHUNK, CHUNK)))])),
     close("p1"),
     [reads("p0", 1, "check") EXCEPT !.data = Bytes(0, CHUNK * CHUNKS)],
     close("p0"), wait >> \o printf("pipe1 ok")

preempt ==
  << fork(<<spin>>), fork(<<spin>>), pipe,
     fork(<<close("p0"), write("p1", <<"x">>), close("p1"), spin>>),
     close("p1"), Must(read("p0", BUFSIZE)), close("p0"),
     kill(1), kill(2), kill(3), wait, wait, wait >> \o printf("preempt ok")
=============================================================================
