------------------------------ MODULE MCNames ------------------------------
(* The tests of UserTests, alone and two at a time.                         *)
EXTENDS Names

CONSTANTS N, Children

T == INSTANCE UserTests
UserPrograms == [
  nothing |-> <<>>, init |-> T!init, sh |-> T!sh, cat |-> T!cat,
  reader |-> << T!mknod(<<"console">>), T!open(<<"console">>, T!RDONLY),
                T!readn(2, <<>>), T!readn(2, <<>>), T!readn(3, <<>>) >>,
  iputtest |-> T!iputtest, dirtest |-> T!dirtest, opentest |-> T!opentest,
  exitiputtest |-> T!exitiputtest, exitiputtest_child |-> T!exitiputtest_child,
  openiputtest |-> T!openiputtest, openiputtest_child |-> T!openiputtest_child,
  writetest |-> T!writetest, writetest1 |-> T!writetest1, bigwrite |-> T!bigwrite,
  bigfile |-> T!bigfile, hugefiletest |-> T!hugefiletest, exitwait |-> T!exitwait,
  forktest |-> T!forktest, stressfs1 |-> T!stressfs(1), stressfs2 |-> T!stressfs(2),
  createtest |-> T!createtest,
  sharedfd |-> T!sharedfd, sharedfd_child |-> T!sharedfd_child,
  fourfiles |-> T!fourfiles, fourfiles_child1 |-> T!fourfiles_child(1),
  fourfiles_child2 |-> T!fourfiles_child(2),
  createdelete |-> T!createdelete, createdelete_child1 |-> T!createdelete_child(1),
  createdelete_child2 |-> T!createdelete_child(2),
  unlinkread |-> T!unlinkread, linktest |-> T!linktest, bigdir |-> T!bigdir,
  linkunlink |-> T!linkunlink, linkunlink_child |-> T!linkunlink_child,
  concreate |-> T!concreate(4, 1),
  concreate_make0 |-> T!concreate_make(0, TRUE), concreate_make1 |-> T!concreate_make(1, TRUE),
  concreate_make2 |-> T!concreate_make(2, TRUE), concreate_make3 |-> T!concreate_make(3, TRUE),
  concreate_drop0 |-> T!concreate_drop(0, TRUE),
  subdir |-> T!subdir, fourteen |-> T!fourteen, rmdot |-> T!rmdot, dirfile |-> T!dirfile,
  iref |-> T!iref(NINODE + 1),
  \* A directory that comes and goes, and a process that looks for it meanwhile.
  maker |-> << T!mkdir(<<"d">>), T!open(<<"d", "f">>, T!CREATE_RDWR), T!close,
               T!unlink(<<"d", "f">>), T!unlink(<<"d">>) >>,
  walker |-> << T!open(<<"d", "f">>, T!RDWR), T!close, T!mkdir(<<"d">>), T!chdir(<<"d">>),
                T!open(<<"..", "README">>, T!RDONLY), T!close, T!chdir(<<"..">>) >>]

\* Evaluated once, and not unfolded wherever Names looks a call up.
MCPrograms == LET table == UserPrograms IN table

MCScripts == {<<x>> : x \in {
    "init", "sh", "reader", "iputtest", "dirtest", "opentest", "exitiputtest", "openiputtest", "writetest",
    "writetest1", "bigwrite", "bigfile", "hugefiletest", "stressfs1", "forktest", "exitwait",
    "createtest", "sharedfd", "fourfiles", "createdelete", "unlinkread", "linktest", "bigdir",
    "concreate", "subdir", "fourteen", "rmdot", "dirfile", "iref"}}
  \cup {<<"subdir", "rmdot">>, <<"linktest", "dirfile">>, <<"iputtest", "unlinkread">>,
        <<"dirtest", "openiputtest">>, <<"maker", "walker">>}

Sequences(n, S) == [1 .. n -> S]

\* What is typed: for readers, anything.
MCTyping == [s \in MCScripts |->
  CASE s = <<"sh">> -> {<<"a", "^H", "b", "\n", "a", "^D", "^D">>}
    [] s = <<"reader">> -> Sequences(4, {"a", "\n", "^D", "^H"}) \cup Sequences(4, {"a", "\n", "^U"})
                           \cup Sequences(6, {"a", "\n"}) \cup Sequences(6, {"a", "^D"})
    [] OTHER -> {<<>>}]
=============================================================================
