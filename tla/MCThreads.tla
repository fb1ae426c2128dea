----------------------------- MODULE MCThreads -----------------------------
(* The tests of ThreadTests, and programs for the calls they do not make.  *)
EXTENDS Threads, ThreadTests

One == INSTANCE ThreadTests WITH NUM_THREAD <- 1

TestPrograms == [
  init |-> << <<"wait", "unchecked">>, <<"sh">> >>, exiter |-> Exit, spinner |-> Spin,
  racingtest |-> racingtest, racingthreadmain |-> racingthreadmain,
  basictest |-> basictest, basicthreadmain |-> basicthreadmain,
  jointest1 |-> jointest1, jointest2 |-> jointest2, jointhreadmain |-> jointhreadmain,
  stresstest |-> stresstest, stressthreadmain |-> stressthreadmain,
  exittest1 |-> exittest1, exittest2 |-> exittest2,
  forktest |-> forktest, forkthreadmain |-> forkthreadmain,
  exectest |-> exectest, execthreadmain |-> execthreadmain,
  sbrktest |-> sbrktest, sbrkthreadmain |-> sbrkthreadmain,
  killtest |-> killtest, killthreadmain |-> killthreadmain,
  pipetest |-> One!pipetest, pipetest_child |-> One!pipetest_child,
  pipethreadmain |-> pipethreadmain,
  sleeptest |-> sleeptest, sleepthreadmain |-> sleepthreadmain,
  stridetest |-> One!stridetest, stridetest_child |-> One!stridetest_child,
  stridethreadmain |-> stridethreadmain,
  grow   |-> << <<"sbrk", "unchecked">>, <<"thread_create", "grower", 1>>, <<"thread_join", 1>>,
              <<"sbrk", "unchecked">> >>,
  grower |-> << <<"sbrk", "unchecked">>, <<"thread_exit">> >>,
  killer |-> << <<"fork", "victim">>, <<"kill", "child">>, <<"wait">> >>,
  victim |-> << <<"sbrk">>, <<"exec", "newborn">> >>,
  newborn |-> << <<"sbrk">>, <<"fork", "exiter">>, <<"sleep">> >>]

\* A definition of its own, so that TLC evaluates the table once.
MCPrograms == TestPrograms

Ample(t) == [test |-> t, mem |-> 12, may |-> {}]
Scarce(t, m) == [test |-> t, mem |-> m, may |-> {"thread_create", "fork", "sbrk", "exec"}]

\* Memory for all, or less than the test needs.
MCLoads ==
  {Ample(t) : t \in {"racingtest", "jointest2", "stresstest", "forktest", "pipetest",
                     "sleeptest", "stridetest", "grow", "killer"}} \cup
  {Scarce("forktest", m) : m \in 0 .. 7} \cup
  {Scarce(t, m) : t \in {"racingtest", "jointest2", "stresstest"}, m \in 0 .. 1} \cup
  {Scarce(t, m) : t \in {"grow", "killer"}, m \in 0 .. 5}

\* The tests in which a thread exits while others are alive.
ExitLoads == {Ample(t) : t \in {"exittest1", "exittest2", "exectest", "sbrktest", "killtest",
                               "sleeptest"}}
=============================================================================
