---------------------------- MODULE ThreadTests ----------------------------
(***************************************************************************)
(* The programs of test_thread.c and test_thread2.c (proj_LWP), as the      *)
(* lists of system calls that matter to Threads: their loops over           *)
(* NUM_THREAD threads, and what they expect of join and wait.  Output,      *)
(* pipes and the counters they share are left out.  A program that returns   *)
(* exits; so does one of whose calls returns -1 (Threads.Fails), whatever    *)
(* threads it has: the test returns -1 to main or calls exit itself.         *)
(***************************************************************************)
EXTENDS Naturals, Sequences

CONSTANTS NUM_THREAD,
          nstress       \* rounds of stresstest

Spin == << <<"spin">> >>
Exit == << <<"exit">> >>
Sleep == << <<"sleep">> >>

\* The two loops of every test; round r joins the threads of that round.
Created(f) == [i \in 1 .. NUM_THREAD |-> <<"thread_create", f, i>>]
Joined(r) == [i \in 1 .. NUM_THREAD |-> <<"thread_join", (r - 1) * NUM_THREAD + i>>]

racingthreadmain == << <<"thread_exit">> >>
racingtest == Created("racingthreadmain") \o Joined(1)

basicthreadmain == << <<"thread_exit">> >>
basictest == Created("basicthreadmain") \o Joined(1)

jointhreadmain == Sleep \o << <<"thread_exit">> >>
jointest1 == Created("jointhreadmain") \o Joined(1)
jointest2 == Created("jointhreadmain") \o Sleep \o Joined(1)

stressthreadmain == << <<"thread_exit">> >>
stresstest ==
  LET rounds[r \in 0 .. nstress] ==
        IF r = 0 THEN <<>> ELSE rounds[r - 1] \o Created("stressthreadmain") \o Joined(r)
  IN rounds[nstress]

exittest1 == Created("spinner") \o Sleep
exittest2 == Created("exiter") \o Spin

forkthreadmain == << <<"fork", "exiter">>, <<"wait">>, <<"thread_exit">> >>
forktest == Created("forkthreadmain") \o Joined(1)

execthreadmain == Sleep \o << <<"exec", "exiter">> >>
exectest == Created("execthreadmain") \o Joined(1)

sbrkthreadmain == << <<"sbrk">>, <<"sleep">>, <<"thread_exit">> >>
sbrktest == Created("sbrkthreadmain") \o Joined(1)

killthreadmain == << <<"kill", "self">> >> \o Spin
killtest == Created("killthreadmain") \o Joined(1) \o Spin

pipethreadmain == << <<"thread_exit">> >>
pipetest_child == Created("pipethreadmain") \o Joined(1) \o Exit
pipetest ==
  << <<"fork", "pipetest_child">> >> \o Created("pipethreadmain") \o Joined(1) \o << <<"wait">> >>

sleepthreadmain == Sleep \o << <<"thread_exit">> >>
sleeptest == Created("sleepthreadmain") \o Sleep

stridethreadmain == << <<"thread_exit">> >>
stridetest_child == Created("stridethreadmain") \o Sleep \o Joined(1) \o Exit
stridetest ==
  << <<"fork", "stridetest_child">> >> \o Created("stridethreadmain") \o Sleep \o Joined(1)
    \o << <<"wait">> >>
=============================================================================
