----------------------------- MODULE Pthreads -----------------------------
(***************************************************************************)
(* What the POSIX calls made by the test programs of src/Synchronization   *)
(* promise, with no scheduler, no signal mask and no library internals.    *)
(* A thread that exists and has not exited may take its next op at any     *)
(* time, provided the op's promise allows it:                              *)
(*   - pthread_create makes a new thread, which starts its program at op 1 *)
(*     (main records its id), or fails, making none and leaving the id     *)
(*     main records unset;                                                 *)
(*   - pthread_join returns once the target has exited, and at once with   *)
(*     an error when the id names no other thread that exists;             *)
(*   - pthread_mutex_lock returns only to a caller who then holds the      *)
(*     mutex alone, and pthread_mutex_unlock releases it;                  *)
(*   - pthread_barrier_init with a count of 0, and pthread_barrier_wait on *)
(*     a barrier not initialised, fail with EINVAL and change nothing;     *)
(*   - pthread_barrier_wait holds each caller until `count` threads have   *)
(*     called it since the barrier was initialised or last opened, then    *)
(*     lets all of them through at once;                                   *)
(*   - returning from the start routine exits the thread, and returning    *)
(*     from main ends the process.                                         *)
(* Threads refines this module (Threads!ImplementsPthreads).               *)
(***************************************************************************)
EXTENDS Integers, Sequences, FiniteSets

CONSTANTS MaxThreads, Programs, NoOwner, TidGarbage

Slots == 0 .. MaxThreads - 1

VARIABLES
    apc,      \* the op each thread is at (its next op not yet returned)
    created,  \* threads that exist: main and those pthread_create returned
    exited,   \* threads that have returned from their start routine
    tids,     \* main's array of the ids pthread_create returned
    holder,   \* the thread holding the mutex, or NoOwner
    arrived,  \* threads waiting at the barrier in its current round
    limit,    \* the barrier's count (0: no barrier)
    done,     \* main has returned
    prog      \* the program the process runs

avars == <<apc, created, exited, tids, holder, arrived, limit, done, prog>>

Prog(t) == IF t = 0 THEN prog.main ELSE prog.worker

(* Thread t may act, and its next op is o. *)
At(t, o) == t \in created \ exited /\ ~done /\ Prog(t)[apc[t]].op = o
Arg(t) == Prog(t)[apc[t]].arg

Returns(t) == apc' = [apc EXCEPT ![t] = @ + 1]

Init ==
    /\ apc = [i \in Slots |-> 1]
    /\ created = {0}
    /\ exited = {}
    /\ tids = <<>>
    /\ holder = NoOwner
    /\ arrived = {}
    /\ limit = 0
    /\ done = FALSE
    /\ prog \in Programs

Create(t) ==
    /\ At(t, "create")
    /\ \E k \in Slots \ created :
          /\ created' = created \cup {k}
          /\ tids' = IF t = 0 THEN Append(tids, k) ELSE tids
    /\ Returns(t)
    /\ UNCHANGED <<exited, holder, arrived, limit, done, prog>>

CreateFails(t) ==
    /\ At(t, "create")
    /\ \E g \in TidGarbage : tids' = IF t = 0 THEN Append(tids, g) ELSE tids
    /\ Returns(t)
    /\ UNCHANGED <<created, exited, holder, arrived, limit, done, prog>>

Join(t) ==
    /\ At(t, "join")
    /\ tids[Arg(t)] \in exited
    /\ Returns(t)
    /\ UNCHANGED <<created, exited, tids, holder, arrived, limit, done, prog>>

JoinRefused(t) ==
    /\ At(t, "join")
    /\ tids[Arg(t)] \notin created \ {t}
    /\ Returns(t)
    /\ UNCHANGED <<created, exited, tids, holder, arrived, limit, done, prog>>

Exit(t) ==
    /\ At(t, "return")
    /\ IF t = 0 THEN done' = TRUE /\ UNCHANGED exited
                ELSE exited' = exited \cup {t} /\ UNCHANGED done
    /\ UNCHANGED <<apc, created, tids, holder, arrived, limit, prog>>

(* pthread_mutex_init and pthread_mutex_destroy, on an unheld mutex. *)
MutexSetup(t) ==
    /\ At(t, "minit") \/ At(t, "mdestroy")
    /\ Returns(t)
    /\ UNCHANGED <<created, exited, tids, holder, arrived, limit, done, prog>>

Lock(t) ==
    /\ At(t, "lock")
    /\ holder = NoOwner
    /\ holder' = t
    /\ Returns(t)
    /\ UNCHANGED <<created, exited, tids, arrived, limit, done, prog>>

Unlock(t) ==
    /\ At(t, "unlock")
    /\ holder = t
    /\ holder' = NoOwner
    /\ Returns(t)
    /\ UNCHANGED <<created, exited, tids, arrived, limit, done, prog>>

BarrierInit(t) ==
    /\ At(t, "binit") /\ Arg(t) > 0
    /\ arrived' = {}
    /\ limit' = Arg(t)
    /\ Returns(t)
    /\ UNCHANGED <<created, exited, tids, holder, done, prog>>

BarrierDestroy(t) ==
    /\ At(t, "bdestroy")
    /\ arrived' = {}
    /\ limit' = 0
    /\ Returns(t)
    /\ UNCHANGED <<created, exited, tids, holder, done, prog>>

(* A barrier call that is refused with EINVAL (a count of 0, or a wait on *)
(* no barrier) returns and changes nothing.                               *)
BarrierRefused(t) ==
    /\ (At(t, "binit") /\ Arg(t) = 0) \/ (At(t, "wait") /\ limit = 0)
    /\ Returns(t)
    /\ UNCHANGED <<created, exited, tids, holder, arrived, limit, done, prog>>

(* A caller below the count waits; the caller that makes the count opens   *)
(* the barrier for everyone waiting and for itself.                        *)
Wait(t) ==
    /\ At(t, "wait")
    /\ limit > 0 /\ t \notin arrived
    /\ \/ /\ Cardinality(arrived) + 1 < limit
          /\ arrived' = arrived \cup {t}
          /\ UNCHANGED apc
       \/ /\ Cardinality(arrived) + 1 >= limit
          /\ apc' = [i \in Slots |-> IF i \in arrived \cup {t}
                                     THEN apc[i] + 1 ELSE apc[i]]
          /\ arrived' = {}
    /\ UNCHANGED <<created, exited, tids, holder, limit, done, prog>>

Next ==
    \E t \in Slots :
        \/ Create(t) \/ CreateFails(t) \/ Join(t) \/ JoinRefused(t)
        \/ Exit(t) \/ MutexSetup(t)
        \/ Lock(t) \/ Unlock(t)
        \/ BarrierInit(t) \/ BarrierDestroy(t) \/ BarrierRefused(t) \/ Wait(t)

Spec == Init /\ [][Next]_avars
====
