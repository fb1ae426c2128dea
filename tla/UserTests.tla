----------------------------- MODULE UserTests -----------------------------
(***************************************************************************)
(* The programs of usertests.c (proj_filesystem) that make, link, look up   *)
(* and remove names or write files, and stressfs.c, test_hugefile.c and     *)
(* init.c, as the lists of system calls that Names takes: a call and what   *)
(* the test demands of it.  Output is left out, and what one write writes   *)
(* is one token; a test goes on after a call that it would end on, because  *)
(* Names reports that.                                                      *)
(***************************************************************************)
EXTENDS Naturals, Sequences, FiniteSets, SequencesExt, TLC

CONSTANTS NPROC,    \* processes there can be
          N,        \* rounds of a loop
          Children  \* processes a test forks

Call(op, path) == [op |-> op, path |-> path, new |-> <<>>, omode |-> {}, fd |-> "fd",
                   data |-> <<>>, n |-> 0, child |-> "", expect |-> "any"]
Ok(call) == [call EXCEPT !.expect = "ok"]
Fails(call) == [call EXCEPT !.expect = "fail"]

mkdir(path) == Call("mkdir", path)
mknod(path) == Call("mknod", path)
chdir(path) == Call("chdir", path)
unlink(path) == Call("unlink", path)
link(old, new) == [Call("link", old) EXCEPT !.new = new]
open(path, omode) == [Call("open", path) EXCEPT !.omode = omode]
read(tokens) == [Call("read", <<>>) EXCEPT !.data = tokens]
readn(n, chars) == [read(chars) EXCEPT !.n = n]   \* read of n bytes of the console
write(token) == [Call("write", <<>>) EXCEPT !.data = token]
fork(child) == [Call("fork", <<>>) EXCEPT !.child = child]
close == Call("close", <<>>)
wait == Call("wait", <<>>)
To(fd, call) == [call EXCEPT !.fd = fd]

RDONLY == {}
CREATE == {"O_CREATE"}
RDWR == {"O_RDWR"}
WRONLY == {"O_WRONLY"}
CREATE_RDWR == CREATE \cup RDWR

Each(n, Body(_)) == FlattenSeq([i \in 1 .. n |-> Body(i)])
Name(c, i) == <<c \o ToString(i)>>

----------------------------------------------------------------------------

iputtest ==
  << Ok(mkdir(<<"iputdir">>)), Ok(chdir(<<"iputdir">>)), Ok(unlink(<<"..", "iputdir">>)),
     Ok(chdir(<<"/">>)) >>

exitiputtest_child ==
  << Ok(mkdir(<<"iputdir">>)), Ok(chdir(<<"iputdir">>)), Ok(unlink(<<"..", "iputdir">>)) >>
exitiputtest == << fork("exitiputtest_child"), wait >>

openiputtest_child == << Fails(open(<<"oidir">>, RDWR)) >>
openiputtest ==
  << Ok(mkdir(<<"oidir">>)), fork("openiputtest_child"), Ok(unlink(<<"oidir">>)), wait >>

opentest == << Ok(open(<<"echo">>, RDONLY)), close, Fails(open(<<"doesnotexist">>, RDONLY)) >>

Written(path, tokens) ==
  << Ok(open(path, CREATE_RDWR)) >> \o [i \in DOMAIN tokens |-> Ok(write(tokens[i]))] \o << close >>
Reread(path, tokens) == << Ok(open(path, RDONLY)), Ok(read(tokens)), close >>
Numbered(n) == [i \in 1 .. n |-> ToString(i)]
Alike(n) == [i \in 1 .. n |-> "data"]

writetest ==
  LET both == Each(N, LAMBDA i : <<"a", "b">>) IN
  Written(<<"small">>, both) \o Reread(<<"small">>, both) \o << Ok(unlink(<<"small">>)) >>

writetest1 ==
  Written(<<"big">>, Numbered(N)) \o Reread(<<"big">>, Numbered(N)) \o << Ok(unlink(<<"big">>)) >>

bigwrite ==
  << unlink(<<"bigwrite">>) >>
  \o Each(N, LAMBDA sz : Written(<<"bigwrite">>, Alike(2)) \o << unlink(<<"bigwrite">>) >>)

bigfile ==
  << unlink(<<"bigfile">>) >> \o Written(<<"bigfile">>, Numbered(N))
  \o Reread(<<"bigfile">>, Numbered(N)) \o << unlink(<<"bigfile">>) >>

hugefiletest ==
  Written(<<"hugefile">>, Alike(N)) \o Reread(<<"hugefile">>, Alike(N))
  \o Each(2, LAMBDA i : << Ok(unlink(<<"hugefile">>)) >> \o Written(<<"hugefile">>, Alike(N)))

\* A chain of processes: each but the last forks the next, and has a file of its own.
stressfs(i) ==
  (IF i < Children THEN << fork("stressfs" \o ToString(i + 1)) >> ELSE <<>>)
  \o Written(Name("stressfs", i), Alike(N)) \o Reread(Name("stressfs", i), Alike(N)) \o << wait >>

\* fork until it fails, then wait for as many, and for one too many.
forktest ==
  Each(NPROC - 1, LAMBDA n : << Ok(fork("nothing")) >>) \o << Fails(fork("nothing")) >>
  \o Each(NPROC - 1, LAMBDA n : << Ok(wait) >>) \o << Fails(wait) >>

exitwait == Each(N, LAMBDA i : << Ok(fork("nothing")), Ok(wait) >>)

createtest ==
  Each(N, LAMBDA i : << open(Name("a", i), CREATE_RDWR), close >>)
  \o Each(N, LAMBDA i : << unlink(Name("a", i)) >>)

dirtest ==
  << Ok(mkdir(<<"dir0">>)), Ok(chdir(<<"dir0">>)), Ok(chdir(<<"..">>)), Ok(unlink(<<"dir0">>)) >>

\* Two processes with one descriptor: the offset is shared.
sharedfd_child == Each(N, LAMBDA i : << Ok(write("c")) >>)
sharedfd ==
  << unlink(<<"sharedfd">>), Ok(open(<<"sharedfd">>, CREATE_RDWR)), fork("sharedfd_child") >>
  \o Each(N, LAMBDA i : << Ok(write("p")) >>)
  \o << wait, close, Ok(open(<<"sharedfd">>, RDONLY)),
        Ok(read(Each(N, LAMBDA i : <<"c", "p">>))), close, unlink(<<"sharedfd">>) >>

fourfiles_child(pi) ==
  << Ok(open(Name("f", pi), CREATE_RDWR)) >> \o Each(N, LAMBDA i : << Ok(write(ToString(pi))) >>)
fourfiles ==
  Each(Children, LAMBDA pi : << unlink(Name("f", pi)), fork("fourfiles_child" \o ToString(pi)) >>)
  \o Each(Children, LAMBDA pi : << wait >>)
  \o Each(2, LAMBDA pi :
       << open(Name("f", pi), RDONLY), Ok(read(Each(N, LAMBDA i : <<ToString(pi)>>))), close,
          unlink(Name("f", pi)) >>)

\* The names of process pi: p1, p2 ... and which of them it has removed at the end; the
\* test counts from 0.
Mine(pi, i) == Name("p" \o ToString(pi), i)
Gone(i) == i > 0 /\ 2 * i < N
createdelete_child(pi) ==
  Each(N, LAMBDA j :
    << Ok(open(Mine(pi, j - 1), CREATE_RDWR)), close >>
    \o IF j > 1 /\ (j - 1) % 2 = 0 THEN << Ok(unlink(Mine(pi, (j - 1) \div 2))) >> ELSE <<>>)
createdelete ==
  Each(Children, LAMBDA pi : << fork("createdelete_child" \o ToString(pi)) >>)
  \o Each(Children, LAMBDA pi : << wait >>)
  \o Each(N, LAMBDA j : Each(Children, LAMBDA pi :
       IF Gone(j - 1) THEN << Fails(open(Mine(pi, j - 1), RDONLY)) >>
       ELSE << Ok(open(Mine(pi, j - 1), RDONLY)), close >>))
  \o Each(N, LAMBDA j : Each(Children, LAMBDA pi : << unlink(Mine(j, j - 1)) >>))

unlinkread ==
  << Ok(open(<<"unlinkread">>, CREATE_RDWR)), write("hello"), close,
     Ok(open(<<"unlinkread">>, RDWR)), Ok(unlink(<<"unlinkread">>)),
     To("fd1", open(<<"unlinkread">>, CREATE_RDWR)), To("fd1", write("yyy")), To("fd1", close),
     Ok(read(<<"hello">>)), Ok(write("hello")), close, unlink(<<"unlinkread">>) >>

linktest ==
  << unlink(<<"lf1">>), unlink(<<"lf2">>),
     Ok(open(<<"lf1">>, CREATE_RDWR)), Ok(write("hello")), close,
     Ok(link(<<"lf1">>, <<"lf2">>)), unlink(<<"lf1">>), Fails(open(<<"lf1">>, RDONLY)),
     Ok(open(<<"lf2">>, RDONLY)), Ok(read(<<"hello">>)), close,
     Fails(link(<<"lf2">>, <<"lf2">>)), unlink(<<"lf2">>),
     Fails(link(<<"lf2">>, <<"lf1">>)), Fails(link(<<".">>, <<"lf1">>)) >>

\* What a turn does is x % 3 for a sequence x of pseudo-random numbers; of parent and of
\* child, the first ones.
parent_turns == <<0, 2, 1, 0, 0, 2>>
child_turns == <<0, 1, 1, 0, 1, 0>>
linkunlink_turns(turns) ==
  FlattenSeq([i \in DOMAIN turns |->
    CASE turns[i] = 0 -> << open(<<"x">>, CREATE_RDWR), close >>
      [] turns[i] = 1 -> << link(<<"cat">>, <<"x">>) >>
      [] turns[i] = 2 -> << unlink(<<"x">>) >>])
linkunlink_child == linkunlink_turns(SubSeq(child_turns, 1, N))
linkunlink ==
  << unlink(<<"x">>), fork("linkunlink_child") >>
  \o linkunlink_turns(SubSeq(parent_turns, 1, N)) \o << wait >>

bigdir ==
  << unlink(<<"bd">>), Ok(open(<<"bd">>, CREATE)), close >>
  \o Each(N, LAMBDA i : << Ok(link(<<"bd">>, Name("x", i))) >>) \o << unlink(<<"bd">>) >>
  \o Each(N, LAMBDA i : << Ok(unlink(Name("x", i))) >>)

\* Parent and child make file C<i>, the i-th of the loop, by open or by link.
C(i) == Name("C", i)
concreate_make(i, child) ==
  IF (~ child /\ i % 3 = 1) \/ (child /\ i % 5 = 1) THEN << link(C(0), C(i)) >>
  ELSE << Ok(open(C(i), CREATE_RDWR)), close >>

\* Then one of them opens it, while the other removes it.
concreate_drop(i, child) ==
  IF (i % 3 = 0 /\ child) \/ (i % 3 = 1 /\ ~ child)
  THEN Each(2, LAMBDA n : << open(C(i), RDONLY), close >>)
  ELSE Each(2, LAMBDA n : << unlink(C(i)) >>)

\* The first turns of both loops; the listing of "." as a lookup of each file.
concreate(made, dropped) ==
  Each(made, LAMBDA j : << unlink(C(j - 1)), fork("concreate_make" \o ToString(j - 1)) >>
                        \o concreate_make(j - 1, FALSE) \o << wait >>)
  \o Each(made, LAMBDA j : << Ok(open(C(j - 1), RDONLY)), close >>)
  \o Each(dropped, LAMBDA j : << fork("concreate_drop" \o ToString(j - 1)) >>
                        \o concreate_drop(j - 1, FALSE) \o << wait >>)

subdir ==
  << unlink(<<"ff">>), Ok(mkdir(<<"dd">>)),
     Ok(open(<<"dd", "ff">>, CREATE_RDWR)), write("ff"), close, Fails(unlink(<<"dd">>)),
     Ok(mkdir(<<"/", "dd", "dd">>)),
     Ok(open(<<"dd", "dd", "ff">>, CREATE_RDWR)), write("FF"), close >>
  \o Reread(<<"dd", "dd", "..", "ff">>, <<"ff">>) \o
  << Ok(link(<<"dd", "dd", "ff">>, <<"dd", "dd", "ffff">>)), Ok(unlink(<<"dd", "dd", "ff">>)),
     Fails(open(<<"dd", "dd", "ff">>, RDONLY)),
     Ok(chdir(<<"dd">>)), Ok(chdir(<<"dd", "..", "..", "dd">>)),
     Ok(chdir(<<"dd", "..", "..", "..", "dd">>)), Ok(chdir(<<".", "..">>)) >>
  \o Reread(<<"dd", "dd", "ffff">>, <<"FF">>) \o
  << Fails(open(<<"dd", "dd", "ff">>, RDONLY)),
     Fails(open(<<"dd", "ff", "ff">>, CREATE_RDWR)), Fails(open(<<"dd", "xx", "ff">>, CREATE_RDWR)),
     Fails(open(<<"dd">>, CREATE)), Fails(open(<<"dd">>, RDWR)), Fails(open(<<"dd">>, WRONLY)),
     Fails(link(<<"dd", "ff", "ff">>, <<"dd", "dd", "xx">>)),
     Fails(link(<<"dd", "xx", "ff">>, <<"dd", "dd", "xx">>)),
     Fails(link(<<"dd", "ff">>, <<"dd", "dd", "ffff">>)),
     Fails(mkdir(<<"dd", "ff", "ff">>)), Fails(mkdir(<<"dd", "xx", "ff">>)),
     Fails(mkdir(<<"dd", "dd", "ffff">>)),
     Fails(unlink(<<"dd", "xx", "ff">>)), Fails(unlink(<<"dd", "ff", "ff">>)),
     Fails(chdir(<<"dd", "ff">>)), Fails(chdir(<<"dd", "xx">>)),
     Ok(unlink(<<"dd", "dd", "ffff">>)), Ok(unlink(<<"dd", "ff">>)),
     Fails(unlink(<<"dd">>)), Ok(unlink(<<"dd", "dd">>)), Ok(unlink(<<"dd">>)) >>

\* A name of 14 characters, and one of 15 that is cut to it.
Fourteen == "12345678901234"
Fifteen == "123456789012345"
fourteen ==
  << Ok(mkdir(<<Fourteen>>)), Ok(mkdir(<<Fourteen, Fifteen>>)),
     Ok(open(<<Fifteen, Fifteen, Fifteen>>, CREATE)), close,
     Ok(open(<<Fourteen, Fourteen, Fourteen>>, RDONLY)), close,
     Fails(mkdir(<<Fourteen, Fourteen>>)), Fails(mkdir(<<Fifteen, Fourteen>>)) >>

rmdot ==
  << Ok(mkdir(<<"dots">>)), Ok(chdir(<<"dots">>)), Fails(unlink(<<".">>)), Fails(unlink(<<"..">>)),
     Ok(chdir(<<"/">>)), Fails(unlink(<<"dots", ".">>)), Fails(unlink(<<"dots", "..">>)),
     Ok(unlink(<<"dots">>)) >>

dirfile ==
  << Ok(open(<<"dirfile">>, CREATE)), close, Fails(chdir(<<"dirfile">>)),
     Fails(open(<<"dirfile", "xx">>, RDONLY)), Fails(open(<<"dirfile", "xx">>, CREATE)),
     Fails(mkdir(<<"dirfile", "xx">>)), Fails(unlink(<<"dirfile", "xx">>)),
     Fails(link(<<"README">>, <<"dirfile", "xx">>)), Ok(unlink(<<"dirfile">>)),
     Fails(open(<<".">>, RDWR)), Ok(open(<<".">>, RDONLY)), Fails(write("x")), close >>

\* More rounds than the inode cache has slots; an empty path is no name.
iref(rounds) ==
  Each(rounds, LAMBDA i :
    << Ok(mkdir(<<"irefd">>)), Ok(chdir(<<"irefd">>)), mkdir(<<>>), link(<<"README">>, <<>>),
       open(<<>>, CREATE), close, open(<<"xx">>, CREATE), close, unlink(<<"xx">>) >>)
  \o << chdir(<<"/">>) >>

\* What sh.c does: three descriptors, and each line read by gets, one character at a time;
\* it changes directory itself and forks for anything else.
Descriptors(path) ==
  Each(2, LAMBDA i : << Ok(open(path, RDWR)), close >>) \o << Ok(open(path, RDWR)) >>
gets(chars) == [j \in DOMAIN chars |-> Ok(readn(1, <<chars[j]>>))]
sh ==
  << Ok(mknod(<<"console">>)) >> \o Descriptors(<<"console">>)
  \o << Ok(write("$")) >> \o gets(<<"b", "\n">>) \o << Ok(fork("cat")), Ok(wait) >>
  \o << Ok(write("$")), Ok(readn(1, <<>>)) >>

\* cat without arguments: reads the rest of the input and writes it.
cat == << Ok(readn(512, <<"a">>)), Ok(write("a")), Ok(readn(512, <<>>)) >>

\* What init.c does before it starts the shell; the child execs it.
init ==
  << Fails(open(<<"console">>, RDWR)), mknod(<<"console">>), Ok(open(<<"console">>, RDWR)),
     fork("nothing"), wait >>
=============================================================================
