----------------------------- MODULE MCThreads -----------------------------
(* Model-checking instance of Threads: MAX_THREADS scaled to 3 (main and   *)
(* two created threads) and the test programs of src/Synchronization with  *)
(* NUM_THREADS scaled to 2.                                                *)
EXTENDS Threads, TLC

O(name, a) == [op |-> name, arg |-> a]

(* test_4.c: a mutex-protected increment, a barrier, a second critical      *)
(* section; main creates the threads and joins them.                        *)
Test4 ==
    [main |-> <<O("binit", 2), O("minit", 0), O("create", 0), O("create", 0),
                O("join", 1), O("join", 2), O("bdestroy", 0), O("mdestroy", 0),
                O("return", 0)>>,
     worker |-> <<O("lock", 0), O("unlock", 0), O("wait", 0), O("lock", 0),
                  O("unlock", 0), O("return", 0)>>,
     checked |-> FALSE]

(* test_10.c: cycles of barrier init, create, join, destroy; each thread  *)
(* waits at the barrier and exits.  NUM_CYCLES = 3 and NUM_THREADS = 5 are *)
(* scaled to 2 cycles of 2 threads, against MAX_THREADS = 3 slots.         *)
Test10 ==
    [main |-> <<O("binit", 2), O("create", 0), O("create", 0), O("join", 1),
                O("join", 2), O("bdestroy", 0), O("binit", 2), O("create", 0),
                O("create", 0), O("join", 3), O("join", 4), O("bdestroy", 0),
                O("return", 0)>>,
     worker |-> <<O("wait", 0), O("return", 0)>>,
     checked |-> TRUE]

(* Barrier calls the library refuses: a wait on a barrier never           *)
(* initialised, a count of 0, and the destroy of a barrier not            *)
(* initialised; main makes them before any thread exists.                 *)
Refused ==
    [main |-> <<O("wait", 0), O("binit", 0), O("bdestroy", 0), O("return", 0)>>,
     worker |-> <<O("return", 0)>>,
     checked |-> FALSE]

(* test_7.c (and test_1.c, test_6_7.c of src/ulpt-2004joshua-master,     *)
(* which make the same calls): two threads each run one critical section. *)
Test7 ==
    [main |-> <<O("minit", 0), O("create", 0), O("create", 0), O("join", 1),
                O("join", 2), O("mdestroy", 0), O("return", 0)>>,
     worker |-> <<O("lock", 0), O("unlock", 0), O("return", 0)>>,
     checked |-> FALSE]

(* test_2.c of src/ulpt-2004joshua-master, with two threads and two of    *)
(* the five critical sections each: a thread locks again after unlocking. *)
Test2 ==
    [main |-> <<O("minit", 0), O("create", 0), O("create", 0), O("join", 1),
                O("join", 2), O("mdestroy", 0), O("return", 0)>>,
     worker |-> <<O("lock", 0), O("unlock", 0), O("lock", 0), O("unlock", 0),
                  O("return", 0)>>,
     checked |-> FALSE]

(* test.c of src/ulpt-2004joshua-master: main creates one thread and      *)
(* returns at once, ending the process whether or not the thread ran.     *)
TestExit ==
    [main |-> <<O("create", 0), O("return", 0)>>,
     worker |-> <<O("return", 0)>>,
     checked |-> FALSE]

MCPrograms == {Test4, Test10, Test7, Test2, TestExit, Refused}
====
