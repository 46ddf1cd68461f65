------------------------------ MODULE Threads ------------------------------
(***************************************************************************)
(* The user-level thread library of src/Synchronization/threads.c: a       *)
(* round-robin scheduler driven by SIGALRM, pthread_create/exit/join, and  *)
(* the mutex and barrier built on lock()/unlock(), which block and         *)
(* unblock SIGALRM.                                                        *)
(*                                                                         *)
(* One kernel thread runs the context of CurrentThread.  Each user thread  *)
(* runs a fixed program (prog.main for slot 0, prog.worker for the threads *)
(* main creates), one library call per op.  A call runs atomically where   *)
(* SIGALRM is blocked or nothing in it matters to another thread, and is   *)
(* split where the timer can cut into it: pthread_create between marking   *)
(* the slot READY and setting its context, the join loop, and              *)
(* pthread_barrier_wait between unlock() and schedule_wrap().              *)
(*                                                                         *)
(* ctx[t] records how the jmp_buf of t was last saved, which decides the   *)
(* signal mask after longjmp into it: "handler" (saved inside the SIGALRM  *)
(* handler: resuming returns from the handler, whose sigreturn unblocks    *)
(* SIGALRM), "call" (saved in schedule_wrap called from library code) and  *)
(* "fresh" (set_reg to start_thunk); setjmp/longjmp do not save or restore *)
(* the mask.  "none" is a jmp_buf never written: jumping there faults.     *)
(*                                                                         *)
(* The thread id of slot i is i (pthread_create stores idx, scheduler_init *)
(* 0), so pthread_self() is CurrentThread.  Stacks and return values are   *)
(* not modelled: only pthread_join frees a stack and nothing reads them.   *)
(* The mutex fields _lock, _init and the queue are never read from *mutex  *)
(* (pthread_mutex_lock tests its own uninitialised local), so only the     *)
(* owner the unlock compares against is kept.                              *)
(***************************************************************************)
EXTENDS Integers, Sequences, FiniteSets, FiniteSetsExt

CONSTANTS
    MaxThreads,    \* MAX_THREADS (scaled)
    Programs,      \* test programs: [main |-> ops of main(),
                   \*   worker |-> ops of the start_routine it creates]
    MutexGarbage,  \* values the uninitialised _mut.vars._lock may hold
    QueueGarbage,  \* sets of slots an owner's unlock may wake from the
                   \* uninitialised _count/thread_queue it copied back
    NoOwner,       \* an _owner that matches no thread
    TidGarbage     \* values an unset pthread_t local of main may hold

Slots == 0 .. MaxThreads - 1
Ops == {"create", "join", "minit", "mdestroy", "lock", "unlock",
        "binit", "bdestroy", "wait", "return"}
Op == [op : Ops, arg : Nat]

ASSUME MaxThreads \in Nat \ {0, 1}
(* checked: main asserts that pthread_create returned 0 (test_10). *)
Program == [main : Seq(Op), worker : Seq(Op), checked : BOOLEAN]
ASSUME Programs \subseteq Program
ASSUME \A p \in Programs, who \in {"main", "worker"} :
           p[who] # <<>> /\ p[who][Len(p[who])].op = "return"
ASSUME MutexGarbage \subseteq Nat /\ QueueGarbage \subseteq SUBSET Slots
ASSUME TidGarbage \subseteq Int
ASSUME \A p \in Programs :
           \A i \in DOMAIN p.main : p.main[i].op = "binit" => p.main[i].arg \in 0 .. 255

States == {"EXITED", "RUNNING", "READY", "UNINIT", "BLOCKED"}

VARIABLES
    status,   \* threads[i].status (zero, TS_EXITED, before scheduler_init)
    current,  \* CurrentThread
    active,   \* ActiveThreads
    started,  \* first_call done: scheduler_init ran and the timer is armed
    masked,   \* SIGALRM is blocked in the process's signal mask
    ctx,      \* how threads[i].context was last saved (see above)
    pc,       \* index of the op a thread is at in its program
    loc,      \* "user", or where inside a library call the thread is
    newSlot,  \* idx of the pthread_create in progress
    tids,     \* main's pthread_t array: ids pthread_create returned
    owner,    \* _owner of the mutex
    bar,      \* the barrier as my_barrier: init, count, limit, the id list
    crash,    \* "none", or why the process died
    done,     \* main returned, and the process exited
    prog      \* the program the process runs

vars == <<status, current, active, started, masked, ctx, pc, loc, newSlot,
          tids, owner, bar, crash, done, prog>>

Prog(t) == IF t = 0 THEN prog.main ELSE prog.worker
OpOf(t) == Prog(t)[pc[t]]

Init ==
    /\ status = [i \in Slots |-> "EXITED"]
    /\ current = 0
    /\ active = 0
    /\ started = FALSE
    /\ masked = FALSE
    /\ ctx = [i \in Slots |-> "none"]
    /\ pc = [i \in Slots |-> 1]
    /\ loc = [i \in Slots |-> "user"]
    /\ newSlot = [i \in Slots |-> 0]
    /\ tids = <<>>
    /\ owner = NoOwner
    /\ bar = [init |-> 0, count |-> 0, limit |-> 0, list |-> <<>>]
    /\ crash = "none"
    /\ done = FALSE
    /\ prog \in Programs

-----------------------------------------------------------------------------
(* The first READY slot from CurrentThread on, wrapping round. *)
FirstReady(s) ==
    (current + Min({i \in 0 .. MaxThreads - 1 : s[(current + i) % MaxThreads] = "READY"}))
        % MaxThreads

(***************************************************************************)
(* schedule(), entered with the statuses s and the mask m.  `kind` says    *)
(* where it was called: "handler" (SIGALRM), "call" (schedule_wrap(0) from *)
(* library code) or "exit" (from pthread_exit, where a return reaches      *)
(* __builtin_unreachable()).  With no READY slot it returns.  Otherwise    *)
(* case 1 marks the previous thread READY and the next RUNNING, case 2     *)
(* (previous BLOCKED) changes no status, and case 3 (previous EXITED)      *)
(* marks the next RUNNING; the code after case 3's longjmp never runs.     *)
(* The previous context is saved by setjmp except in case 3.               *)
(***************************************************************************)
Schedule(s, m, kind) ==
    LET prev == current
        next == FirstReady(s)
        s2 == CASE s[prev] \notin {"EXITED", "BLOCKED"} ->
                       [s EXCEPT ![prev] = "READY", ![next] = "RUNNING"]
                [] s[prev] = "BLOCKED" -> s
                [] OTHER -> [s EXCEPT ![next] = "RUNNING"]
        c2 == IF s[prev] = "EXITED" THEN ctx ELSE [ctx EXCEPT ![prev] = kind]
    IN  IF \A i \in Slots : s[i] # "READY"
        THEN /\ status' = s
             /\ UNCHANGED <<current, ctx>>
             /\ masked' = (m /\ kind # "handler")
             /\ crash' = IF kind = "exit" THEN "unreachable" ELSE crash
        ELSE /\ status' = s2
             /\ current' = next
             /\ ctx' = c2
             /\ masked' = (m /\ c2[next] # "handler")
             /\ crash' = IF c2[next] = "none" THEN "wild_jump" ELSE crash

(* The thread whose context the CPU runs, while the process lives. *)
Runs(t) == t = current /\ crash = "none" /\ ~done

Advance(t) == pc' = [pc EXCEPT ![t] = @ + 1]

(* lock() and unlock(): sigprocmask(SIG_BLOCK / SIG_UNBLOCK) of SIGALRM.   *)
lock == masked' = TRUE
unlock == masked' = FALSE

(* scheduler_init installs schedule_wrap for SIGALRM and arms the interval *)
(* timer; from the first pthread_create on, ticks can arrive.              *)
ArmTimer == started' = TRUE

(***************************************************************************)
(* SIGALRM, when the timer is armed and the signal unblocked: the handler  *)
(* schedule_wrap runs with SIGALRM blocked (sa_flags = 0).                 *)
(***************************************************************************)
Tick ==
    /\ started /\ ~masked /\ crash = "none" /\ ~done
    /\ Schedule(status, TRUE, "handler")
    /\ UNCHANGED <<active, started, pc, loc, newSlot, tids, owner, bar, done, prog>>

(* The statuses and ActiveThreads after the first call's scheduler_init. *)
StatusAtCreate ==
    IF started THEN status
    ELSE [i \in Slots |-> IF i = 0 THEN "RUNNING" ELSE "UNINIT"]
(* Mutant: ActiveThreads counted on entry to pthread_create as well. *)
ActiveAtCreateEarly == IF started THEN active + 1 ELSE active + 2
ActiveAtCreate == IF started THEN active ELSE active + 1
FreeSlots == {i \in 1 .. MaxThreads - 1 : StatusAtCreate[i] = "UNINIT"}

(***************************************************************************)
(* pthread_create up to `new_thread->status = TS_READY`: scheduler_init on *)
(* the first call (which arms the timer), the ActiveThreads check and the  *)
(* lowest UNINITIALIZED slot.  The context is not set yet.                 *)
(***************************************************************************)
CreateBegin(t) ==
    /\ Runs(t) /\ loc[t] = "user" /\ OpOf(t).op = "create"
    /\ ActiveAtCreate <= MaxThreads /\ FreeSlots # {}
    /\ status' = [StatusAtCreate EXCEPT ![Min(FreeSlots)] = "READY"]
    /\ active' = ActiveAtCreate
    /\ ArmTimer
    /\ current' = IF started THEN current ELSE 0
    /\ newSlot' = [newSlot EXCEPT ![t] = Min(FreeSlots)]
    /\ loc' = [loc EXCEPT ![t] = "create"]
    /\ UNCHANGED <<masked, ctx, pc, tids, owner, bar, crash, done, prog>>

(* What the caller does with pthread_create's -1: test_10 fails its        *)
(* assert(rc == 0); the other programs ignore it, and the pthread_t it    *)
(* was to fill keeps whatever the stack held.                             *)
CreateReturnsError(t) ==
    IF prog.checked
    THEN crash' = "assert" /\ UNCHANGED <<pc, tids>>
    ELSE /\ \E g \in TidGarbage : tids' = IF t = 0 THEN Append(tids, g) ELSE tids
         /\ Advance(t)
         /\ UNCHANGED crash

(* pthread_create returns -1 (too many threads, or no UNINITIALIZED slot). *)
CreateFails(t) ==
    /\ Runs(t) /\ loc[t] = "user" /\ OpOf(t).op = "create"
    /\ ActiveAtCreate > MaxThreads \/ FreeSlots = {}
    /\ status' = StatusAtCreate
    /\ active' = ActiveAtCreate
    /\ ArmTimer
    /\ current' = IF started THEN current ELSE 0
    /\ CreateReturnsError(t)
    /\ UNCHANGED <<masked, ctx, loc, newSlot, owner, bar, done, prog>>

(* The stack's malloc fails: pthread_create returns -1 with the slot left  *)
(* READY, its id and context never set.                                    *)
CreateNoStack(t) ==
    /\ Runs(t) /\ loc[t] = "create"
    /\ loc' = [loc EXCEPT ![t] = "user"]
    /\ CreateReturnsError(t)
    /\ UNCHANGED <<status, current, active, started, masked, ctx, newSlot, owner,
                   bar, done, prog>>

(* The rest of pthread_create: stack, id, context for start_thunk. *)
CreateEnd(t) ==
    /\ Runs(t) /\ loc[t] = "create"
    /\ ctx' = [ctx EXCEPT ![newSlot[t]] = "fresh"]
    /\ active' = active + 1
    /\ tids' = IF t = 0 THEN Append(tids, newSlot[t]) ELSE tids
    /\ loc' = [loc EXCEPT ![t] = "user"]
    /\ Advance(t)
    /\ UNCHANGED <<status, current, started, masked, newSlot, owner, bar, crash, done, prog>>

JoinTarget(t) == tids[OpOf(t).arg]

(* pthread_join's checks and search find a slot: the id is not the        *)
(* caller's, lies in 0 .. MAX_THREADS - 1, and is the id of a slot that is *)
(* not UNINITIALIZED (slot 0, or one pthread_create gave its id and        *)
(* context; a slot whose stack malloc failed keeps id 0).                  *)
JoinFound(t) ==
    LET g == JoinTarget(t)
    IN  g \in Slots \ {t} /\ (g = 0 \/ ctx[g] # "none")

(* pthread_join refuses: EDEADLK on its own id, EINVAL out of range, -1    *)
(* when no slot has the id.                                                *)
JoinRefused(t) ==
    /\ Runs(t) /\ loc[t] = "user" /\ OpOf(t).op = "join"
    /\ ~JoinFound(t)
    /\ Advance(t)
    /\ UNCHANGED <<status, current, active, started, masked, ctx, loc, newSlot,
                   tids, owner, bar, crash, done, prog>>

(* One turn of pthread_join's `while (status != TS_EXITED) schedule_wrap(0)`. *)
JoinWait(t) ==
    /\ Runs(t) /\ loc[t] = "user" /\ OpOf(t).op = "join" /\ JoinFound(t)
    /\ status[JoinTarget(t)] # "EXITED"
    /\ Schedule(status, masked, "call")
    /\ UNCHANGED <<active, started, pc, loc, newSlot, tids, owner, bar, done, prog>>

(* The target has exited: pthread_join marks it EXITED, frees its stack   *)
(* and returns 0.                                                          *)
JoinDone(t) ==
    /\ Runs(t) /\ loc[t] = "user" /\ OpOf(t).op = "join" /\ JoinFound(t)
    /\ status[JoinTarget(t)] = "EXITED"
    /\ Advance(t)
    /\ UNCHANGED <<status, current, active, started, masked, ctx, loc, newSlot,
                   tids, owner, bar, crash, done, prog>>

(* The start routine returns into pthread_exit (the return address         *)
(* pthread_create planted), or main returns and the process exits.         *)
Return(t) ==
    /\ Runs(t) /\ loc[t] = "user" /\ OpOf(t).op = "return"
    /\ \/ /\ t = 0
          /\ done' = TRUE
          /\ UNCHANGED <<status, current, ctx, masked, crash, loc>>
       \/ /\ t # 0
          /\ loc' = [loc EXCEPT ![t] = "exited"]
          /\ Schedule([status EXCEPT ![t] = "EXITED"], masked, "exit")
          /\ UNCHANGED done
    /\ UNCHANGED <<active, started, pc, newSlot, tids, owner, bar, prog>>

-----------------------------------------------------------------------------
(* pthread_mutex_init: lock(); owner = pthread_self(); unlock(). *)
MutexInit(t) ==
    /\ Runs(t) /\ loc[t] = "user" /\ OpOf(t).op = "minit"
    /\ owner' = t
    /\ unlock
    /\ Advance(t)
    /\ UNCHANGED <<status, current, active, started, ctx, loc, newSlot, tids,
                   bar, crash, done, prog>>

(* pthread_mutex_destroy: lock(); clears _init and the queue; unlock(). *)
MutexDestroy(t) ==
    /\ Runs(t) /\ loc[t] = "user" /\ OpOf(t).op = "mdestroy"
    /\ unlock
    /\ Advance(t)
    /\ UNCHANGED <<status, current, active, started, ctx, loc, newSlot, tids,
                   owner, bar, crash, done, prog>>

(* Mutant: pthread_mutex_lock ending with unlock(), as lock()'s pairing    *)
(* with unlock() elsewhere suggests.                                       *)
MutexLockUnmasks(t) ==
    /\ Runs(t) /\ loc[t] \in {"user", "mlock"} /\ OpOf(t).op = "lock"
    /\ \E g \in IF loc[t] = "mlock" THEN {1} ELSE MutexGarbage :
        \/ /\ g = 1
           /\ loc' = [loc EXCEPT ![t] = "mlock"]
           /\ Schedule([status EXCEPT ![t] = "BLOCKED"], TRUE, "call")
           /\ UNCHANGED <<pc, owner>>
        \/ /\ g # 1
           /\ owner' = IF g = 0 THEN t ELSE NoOwner
           /\ unlock
           /\ loc' = [loc EXCEPT ![t] = "user"]
           /\ Advance(t)
           /\ UNCHANGED <<status, current, ctx, crash>>
    /\ UNCHANGED <<active, started, newSlot, tids, bar, done,
                   prog>>

(***************************************************************************)
(* pthread_mutex_lock: lock() blocks SIGALRM and is never undone.  The     *)
(* loop tests the uninitialised local _mut, whose _lock holds some g.      *)
(* With g = 1 the thread queues itself in that local (never written back), *)
(* marks itself BLOCKED and calls schedule_wrap; if it is ever resumed the *)
(* unchanged local sends it round the loop again.  Otherwise, with g = 0   *)
(* it takes the lock, and with any other value it does not, and *mutex is  *)
(* overwritten with the local (its _owner then garbage).                   *)
(***************************************************************************)
MutexLock(t) ==
    /\ Runs(t) /\ loc[t] \in {"user", "mlock"} /\ OpOf(t).op = "lock"
    /\ \E g \in IF loc[t] = "mlock" THEN {1} ELSE MutexGarbage :
        \/ /\ g = 1
           /\ loc' = [loc EXCEPT ![t] = "mlock"]
           /\ Schedule([status EXCEPT ![t] = "BLOCKED"], TRUE, "call")
           /\ UNCHANGED <<pc, owner>>
        \/ /\ g # 1
           /\ owner' = IF g = 0 THEN t ELSE NoOwner
           /\ lock
           /\ loc' = [loc EXCEPT ![t] = "user"]
           /\ Advance(t)
           /\ UNCHANGED <<status, current, ctx, crash>>
    /\ UNCHANGED <<active, started, newSlot, tids, bar, done,
                   prog>>

(***************************************************************************)
(* pthread_mutex_unlock: lock(); if *mutex's _owner is the caller, mark    *)
(* READY every slot whose id is among the first _count queue entries, both *)
(* as the locker's garbage left them (a set from QueueGarbage); unlock().  *)
(***************************************************************************)
MutexUnlock(t) ==
    /\ Runs(t) /\ loc[t] = "user" /\ OpOf(t).op = "unlock"
    /\ \E w \in QueueGarbage :
          status' = IF owner = t
                    THEN [j \in Slots |-> IF j \in w THEN "READY" ELSE status[j]]
                    ELSE status
    /\ unlock
    /\ Advance(t)
    /\ UNCHANGED <<current, active, started, ctx, loc, newSlot, tids, owner,
                   bar, crash, done, prog>>

-----------------------------------------------------------------------------
NoBarrier == [init |-> 0, count |-> 0, limit |-> 0, list |-> <<>>]

(* Mutant: the barrier's count starting at 1. *)
BarrierInitCountOne(t) ==
    /\ Runs(t) /\ loc[t] = "user" /\ OpOf(t).op = "binit"
    /\ bar' = IF OpOf(t).arg = 0 THEN bar
              ELSE [init |-> 1, count |-> 1, limit |-> OpOf(t).arg, list |-> <<>>]
    /\ unlock
    /\ Advance(t)
    /\ UNCHANGED <<status, current, active, started, ctx, loc, newSlot, tids,
                   owner, crash, done, prog>>

(* pthread_barrier_init with count = arg: a fresh barrier under lock(), or *)
(* for a count of 0, EINVAL after an unlock() that no lock() preceded.    *)
BarrierInit(t) ==
    /\ Runs(t) /\ loc[t] = "user" /\ OpOf(t).op = "binit"
    /\ bar' = IF OpOf(t).arg = 0 THEN bar
              ELSE [init |-> 1, count |-> 0, limit |-> OpOf(t).arg, list |-> <<>>]
    /\ unlock
    /\ Advance(t)
    /\ UNCHANGED <<status, current, active, started, ctx, loc, newSlot, tids,
                   owner, crash, done, prog>>

(* pthread_barrier_destroy: frees the list and zeroes an initialised barrier. *)
BarrierDestroy(t) ==
    /\ Runs(t) /\ loc[t] = "user" /\ OpOf(t).op = "bdestroy"
    /\ bar' = IF bar.init = 1 THEN NoBarrier ELSE bar
    /\ unlock
    /\ Advance(t)
    /\ UNCHANGED <<status, current, active, started, ctx, loc, newSlot, tids,
                   owner, crash, done, prog>>

(***************************************************************************)
(* pthread_barrier_wait up to its branch, on an initialised barrier: the   *)
(* caller's id is appended to the list and the uint8_t count incremented.  *)
(* Below the limit the caller is BLOCKED, the barrier written back and     *)
(* SIGALRM unblocked; the schedule_wrap(0) that follows is BarrierSched.   *)
(* At the limit every listed thread, the caller included, is made READY,   *)
(* the list and count are reset, and the caller returns                    *)
(* PTHREAD_BARRIER_SERIAL_THREAD.                                          *)
(***************************************************************************)
(* pthread_barrier_wait on a barrier whose init is not 1: EINVAL. *)
BarrierWaitInvalid(t) ==
    /\ Runs(t) /\ loc[t] = "user" /\ OpOf(t).op = "wait" /\ bar.init # 1
    /\ unlock
    /\ Advance(t)
    /\ UNCHANGED <<status, current, active, started, ctx, loc, newSlot, tids,
                   owner, bar, crash, done, prog>>

(* Slot j's id is in the barrier's list. *)
Listed(j) == \E k \in DOMAIN bar.list : bar.list[k] = j

(* Mutant: the releasing arrival tested with > instead of >=. *)
BarrierArriveLate(t) ==
    /\ Runs(t) /\ loc[t] = "user" /\ OpOf(t).op = "wait" /\ bar.init = 1
    /\ LET c == (bar.count + 1) % 256 IN
       \/ /\ c < bar.limit
          /\ status' = [status EXCEPT ![t] = "BLOCKED"]
          /\ bar' = [bar EXCEPT !.count = c, !.list = Append(@, t)]
          /\ loc' = [loc EXCEPT ![t] = "bwait"]
          /\ UNCHANGED pc
       \/ /\ c > bar.limit
          /\ status' = [j \in Slots |->
                          IF j = t \/ Listed(j) THEN "READY" ELSE status[j]]
          /\ bar' = [bar EXCEPT !.count = 0, !.list = <<>>]
          /\ Advance(t)
          /\ UNCHANGED loc
    /\ unlock
    /\ UNCHANGED <<current, active, started, ctx, newSlot, tids, owner, crash, done, prog>>

BarrierArrive(t) ==
    /\ Runs(t) /\ loc[t] = "user" /\ OpOf(t).op = "wait" /\ bar.init = 1
    /\ LET c == (bar.count + 1) % 256 IN
       \/ /\ c < bar.limit
          /\ status' = [status EXCEPT ![t] = "BLOCKED"]
          /\ bar' = [bar EXCEPT !.count = c, !.list = Append(@, t)]
          /\ loc' = [loc EXCEPT ![t] = "bwait"]
          /\ UNCHANGED pc
       \/ /\ c >= bar.limit
          /\ status' = [j \in Slots |->
                          IF j = t \/ Listed(j) THEN "READY" ELSE status[j]]
          /\ bar' = [bar EXCEPT !.count = 0, !.list = <<>>]
          /\ Advance(t)
          /\ UNCHANGED loc
    /\ unlock
    /\ UNCHANGED <<current, active, started, ctx, newSlot, tids, owner, crash, done, prog>>

(* The schedule_wrap(0) a blocked barrier waiter calls after unlock(); it  *)
(* returns 0 whenever it comes back.                                       *)
BarrierSched(t) ==
    /\ Runs(t) /\ loc[t] = "bwait"
    /\ loc' = [loc EXCEPT ![t] = "user"]
    /\ Advance(t)
    /\ Schedule(status, masked, "call")
    /\ UNCHANGED <<active, started, newSlot, tids, owner, bar, done, prog>>

-----------------------------------------------------------------------------
Step(t) ==
    \/ CreateBegin(t) \/ CreateFails(t) \/ CreateNoStack(t) \/ CreateEnd(t)
    \/ JoinWait(t) \/ JoinDone(t) \/ JoinRefused(t) \/ Return(t)
    \/ MutexInit(t) \/ MutexDestroy(t) \/ MutexLock(t) \/ MutexUnlock(t)
    \/ BarrierInit(t) \/ BarrierDestroy(t) \/ BarrierWaitInvalid(t)
    \/ BarrierArrive(t) \/ BarrierSched(t)

Next == Tick \/ \E t \in Slots : Step(t)

Spec == Init /\ [][Next]_vars

(***************************************************************************)
(* The interval timer fires every quantum (50 ms) for as long as the       *)
(* process runs, so a tick that stays possible is eventually delivered.    *)
(* A quantum is far longer than one library step, and a thread that yields *)
(* in a loop (pthread_join) hands the rest of its quantum on, so a thread  *)
(* that gets the CPU again and again eventually takes its next step: a    *)
(* tick cannot pre-empt it every single time.                              *)
(***************************************************************************)
Fairness == WF_vars(Tick) /\ \A t \in Slots : SF_vars(Step(t))

FairSpec == Spec /\ Fairness

-----------------------------------------------------------------------------
(***************************************************************************)
(* The refinement mapping to Pthreads, from the program counters and the   *)
(* library's own state alone.  A thread holds the mutex when the last      *)
(* lock or unlock op it has returned from is a lock.  A thread whose id is *)
(* in the barrier's list is still waiting (its abstract op is the wait,    *)
(* even once BarrierSched has moved pc past it); one at "bwait" whose id   *)
(* the releasing arrival has cleared from the list has passed it.          *)
(***************************************************************************)
Holding(t) ==
    LET ks == {k \in 1 .. pc[t] - 1 : Prog(t)[k].op \in {"lock", "unlock"}}
    IN  ks # {} /\ Prog(t)[Max(ks)].op = "lock"

AbsPc(t) ==
    pc[t] + (IF loc[t] = "bwait" THEN 1 ELSE 0) - (IF Listed(t) THEN 1 ELSE 0)

Abstract == INSTANCE Pthreads WITH
    apc     <- [t \in Slots |-> AbsPc(t)],
    created <- {0} \cup {t \in Slots : ctx[t] # "none"},
    exited  <- {t \in Slots : loc[t] = "exited"},
    holder  <- IF \E t \in Slots : Holding(t)
               THEN CHOOSE t \in Slots : Holding(t) ELSE NoOwner,
    arrived <- {t \in Slots : Listed(t)},
    limit   <- bar.limit

-----------------------------------------------------------------------------
Locs == {"user", "create", "mlock", "bwait", "exited"}

TypeOK ==
    /\ status \in [Slots -> States]
    /\ current \in Slots
    /\ active \in 0 .. MaxThreads
    /\ started \in BOOLEAN /\ masked \in BOOLEAN /\ done \in BOOLEAN
    /\ ctx \in [Slots -> {"none", "fresh", "handler", "call"}]
    /\ loc \in [Slots -> Locs]
    /\ newSlot \in [Slots -> Slots]
    /\ tids \in Seq(Slots \cup TidGarbage)
    /\ owner \in Slots \cup {NoOwner}
    /\ bar.count \in 0 .. 255 /\ bar.list \in Seq(Slots)
    /\ crash \in {"none", "wild_jump", "unreachable", "assert"}

(***************************************************************************)
(* Mutual exclusion, what test_4 and test_7 rely on for `value++` and      *)
(* `critical_data++`: at most one thread is between the return of          *)
(* pthread_mutex_lock and its pthread_mutex_unlock.  The mutex's own       *)
(* state is garbage, so this can only hold through lock() leaving SIGALRM  *)
(* blocked across the critical section.                                    *)
(***************************************************************************)
MutualExclusion == Cardinality({t \in Slots : Holding(t)}) <= 1

(***************************************************************************)
(* The scheduler only longjmps into a context that has been set: never     *)
(* into the zeroed jmp_buf of a slot pthread_create has marked READY but   *)
(* not yet set up.                                                         *)
(***************************************************************************)
ResumesSetContext == crash # "wild_jump"

(***************************************************************************)
(* Preemption stays on: once the timer is armed, a thread running its own  *)
(* code outside a mutex critical section does so with SIGALRM unblocked,   *)
(* as lock()/unlock() are meant only for the library's internal critical   *)
(* sections (threads.c:331-338).                                           *)
(***************************************************************************)
UserCodePreemptible ==
    (Runs(current) /\ started /\ loc[current] = "user" /\ ~Holding(current))
        => ~masked

(***************************************************************************)
(* Every test program runs to its end: unless some thread is left hanging *)
(* in pthread_mutex_lock by a garbage _lock of 1 (threads.c:408), main      *)
(* eventually returns or the process dies.  It needs the barrier to       *)
(* release every waiter at its count, pthread_join's loop to yield until  *)
(* its target exits, and schedule() to reach every READY thread.          *)
(***************************************************************************)
ProcessEnds ==
    (\A t \in Slots : [](loc[t] # "mlock")) => <>(done \/ crash # "none")

(***************************************************************************)
(* The library implements the calls' promises (Pthreads) for the modelled  *)
(* programs: every step either changes nothing a caller can see or is a    *)
(* step the promises allow.  A barrier waiter resumed by a schedule() that *)
(* found it READY too early, or a count that starts wrong, lets a thread   *)
(* past pthread_barrier_wait before `count` threads have arrived; a        *)
(* pthread_join that returned before its target exited, or a lock that let *)
(* a second thread in, is a step Pthreads forbids.                         *)
(***************************************************************************)
ImplementsPthreads == Abstract!Spec
====
