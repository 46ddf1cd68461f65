# TLA+ models of EC440: copy-on-write TLS, the file system and the thread library

This directory holds TLA+ models of three parts of the repository and the
TLC configurations that check them:

* `src/COW/tls.c` is copy-on-write thread-local storage. It is shared by
  preemptively scheduled threads and guarded by one mutex plus a SIGSEGV
  handler.
* `src/file-systems-2004joshua-main/fs.c` is a single-threaded file system
  on a virtual disk. It has direct, single-indirect and double-indirect
  block addressing, and mount/unmount persistence.
* `src/Synchronization/threads.c` is a user-level thread library: a
  round-robin scheduler driven by SIGALRM, `pthread_create`/`exit`/`join`,
  and a mutex and a barrier.

`PROJECT.json` lists the components, runs, mutants, the map from each
definition to the source lines it models, the findings and the hazards. The
sections below describe the same material for a reader.

## The system

| Part | Source | Module(s) | Status |
|---|---|---|---|
| CoW TLS: registry, records, page slots, fault handler, API | `src/COW/tls.c` | `TLS`, `MCTLS` | modelled |
| File system: superblock, bitmap, inode table, root directory, descriptors, I/O engine | `src/file-systems-2004joshua-main/fs.c` | `FS`, `MCFS`, abstract `FileStore` | modelled |
| Virtual disk (`disk.c`, not in the repository's sources) | spec §6 | the variable `disk` of `FS` | from the spec |
| User-level threads: scheduler, signal mask, create/exit/join, mutex, barrier | `src/Synchronization/threads.c` | `Threads`, `MCThreads`, abstract `Pthreads` | partly (malloc failure of a barrier node is left out) |
| Test drivers | `src/*/test*.c` | `MCThreads` (the thread tests as programs) | partly (the file-system tests are generalised by the input sets) |

The three parts are independent in this repository: each is built with its
own tests, and they share no state, so no module composes them. TLS is concurrent: several threads call the API, each call is a
critical section under `list_mutex`, and a fault handler can cut into any
call. The file system runs one call at a time. Its hard parts are the
multi-level block addressing, the bitmap and its counter, and the write-back
at `umount_fs`.

## Module `TLS` (tls.c)

**State**
* `list`: the registry, a function from each thread to its record or NULL.
  A record is `[size, slots]`, and the slots are `p_arr`, each
  `[addr, overlap]`.
* `mapped`, `prot`, `mem`: the page frames mmap hands out (a finite pool
  `Frames`), their protection, and their bytes.
* `lock`: the owner of `list_mutex`.
* Per-thread `pc`, `arg` and `ctls`: where the thread is inside a call, the
  call's arguments, and the record `tls_read`/`tls_write` looked up.
* `crashed`: the process was killed, either by `exit(1)` in `protect()` or
  by a SIGSEGV re-raised with the default action.
* `lastFault`: the handler's last diagnostic.
* `live`: a ghost set of threads whose create or clone succeeded and which
  have not destroyed their record since.

**Actions**
* `CreateBegin` is the unlocked `if (list == NULL)` test (84-88), and
  `Initialize` is `initialize()`.
* `CreateLocked` is the rest of `tls_create` (90-137). That covers the
  duplicate check, `count = (size + page_size - 1) / page_size`, and mmap of
  fresh zero pages with rollback when mmap runs out.
* `Destroy` (139-184) munmaps the slots with overlap 1.
* `Clone` (286-345) increments the parent's counts and gives the clone
  overlap 1.
* `ReadBegin` and `WriteBegin` (via `OpBegin`): lock, look up, bounds
  check, unprotect every page.
* `ReadEnd`: copy the bytes, protect every page, unlock.
* `WritePage`: one page of the write loop, with the copy-on-write branch.
  The decrement, then mmap of a fresh read/write page, memcpy, and
  repointing the slot. An unchecked mmap failure crashes the process.
* `WriteEnd`: protect every page and unlock.
* `unprotect(f)` and `ProtectFails(r)` are the helpers. `unprotect`'s
  mprotect fails on a page no longer mapped, and the failure is only
  printed. `protect` calls `exit(1)` on such a page, so `ReadEnd` and
  `WriteEnd` crash the process when `ProtectFails` holds.
* `Access` is a thread touching a TLS page directly.
* `SigHandler` (35-55) is the fault path. It runs `pthread_exit` for the
  faulting thread (leaving the mutex held) when the address lies in some
  record's page. Otherwise it kills the process.
* Touching an unmapped frame inside `tls_read`/`tls_write` runs the same
  handler.

**Fairness.** `Fairness` is weak fairness on the steps of a thread inside
`tls_read`/`tls_write`. The holder of the mutex is a running thread that the
preemptive scheduler keeps scheduling. No fairness is assumed for the
callers, which may never call again.

## Module `FS` (fs.c)

**Scaling.** A block holds `P` cells, and a cell is one `uint16_t` word. A
block read as an indirect block is therefore `P` block numbers, as in the
code (`MAX_BLOCK_SIZE / sizeof(uint16_t)`). File offsets and sizes count
cells. Three fields keep their wrap-around, at a scaled width:
* `FD.offset` (`uint16_t`): `OffsetBits`
* `inode.size` (`uint32_t`): `SizeBits`
* `fs.ub_bitmap_count` (`uint16_t`): `CountBits`

The layout is the one `make_fs` computes for the real constants: block 0 is
the superblock, block 1 the bitmap, block 2 the inode table, and data starts
at block 3.

**State**
* `mounted`
* `sb`: the superblock's count and offset.
* `bitmap`: a set of blocks.
* `bmDirty`
* `inodes`: records of size, direct pointers, single and double pointers,
  and dirty.
* `root`
* `fds`
* `disk`: block to cells. Block 0 holds the superblock's fields and block 1
  holds the bitmap encoded as 16-bit words.
* `dinodes`: the inode table image in block 2, kept as records and not
  encoded into cells.
* `lastRead`: the cells the last `fs_read` copied into the caller's buffer,
  the call's output. There is no ghost copy of the files: what a file holds
  is read from the disk through its block map (`FileCells`).

**Actions.** There is one action per public call, each taken whole. Their
guards are the early returns of the code; a failed call changes nothing and
so is no step.
* `Init` is the state right after `make_fs`, in the same process.
* `fs_create` allocates the inode before it looks for a root entry.
* `fs_delete` frees the whole chain through `clear_bit`. Each call clears a
  bit *and* decrements the counter.
* `fs_truncate` is faithful to the code's gaps: a negative length, the
  double-indirect block left allocated, only the caller's offset clamped,
  and no dirty flag.
* `fs_write` is a `RECURSIVE` loop over records holding everything one
  iteration changes. It keeps these details from the code:
  * the `fpos` computation;
  * allocation by `get_free_block`;
  * `break` versus `return` on a full disk;
  * failed block reads;
  * the unassigned `block` when the second-level block already exists, a
    nondeterministic value from `Garbage`;
  * the size update only when the loop did not return early.
* `fs_read` is a second loop, with the end-of-file clamp of lines 719-721.
* `fs_lseek`, `fs_open` and `fs_close` change only the descriptor table.
* `fs_mount` reads the superblock and the first bitmap block, and loads the
  inode table.
* `fs_umount` writes `ub_bitmap_count` "bitmap" blocks of 4096 bytes each,
  all taken from the 1024-byte bitmap array and the memory after it. The
  model writes the first as the bitmap and the rest as junk. It leaves the
  inode block's placeholder cells alone, because the inode loop that follows
  rewrites that block when an inode is dirty, and `dinodes` holds its
  content. Each dirty inode is then copied to the start of a zeroed buffer
  written to the inode block.

**Queries.** `fs_get_filesize` and `fs_listfiles` change nothing, so they
are operators, not actions. Callers take the offsets and lengths they pass to
`fs_lseek` and `fs_truncate` from `fs_get_filesize(d)`. The refinement
mapping takes FileStore's files from `fs_listfiles`.

**Outside the model.** File names are model values, so the name-length
check is not modelled.

**Failed reads.** A failed `block_read` (a block number past the disk) is
read as zeros. In `fs_read` the code then returns whatever `data` held.
Pointers past the disk arise only from stale indirect contents. The runs
that check read results (`fs_nofree`) cannot reach one, because every value
written there is a valid block number.

**Fairness.** There is none. The file system is single-threaded and every
property checked on it is a safety property.

## Module `Threads` (threads.c)

One kernel thread runs the context of `CurrentThread`. Each user thread
runs a fixed program. `prog.main` is `main()` and `prog.worker` is the start
routine every created thread runs. Both are sequences of library calls,
taken from the tests in `src/Synchronization` and `src/ulpt-2004joshua-master`.

**State**
* `status`, `current`, `active`: the TCB statuses, `CurrentThread` and
  `ActiveThreads`. Statuses start at `TS_EXITED`, the zero of the global
  array, until `scheduler_init` runs.
* `started`: the first `pthread_create` ran `scheduler_init`, which arms the
  timer.
* `masked`: SIGALRM is blocked. The operators `lock` and `unlock` are the
  library's `lock()`/`unlock()` (sigprocmask), and `ArmTimer` is
  `scheduler_init`'s sigaction and setitimer.
* `ctx[t]`: how thread t's `jmp_buf` was last saved. This decides the mask
  after a `longjmp` into it:
  * `"handler"`: saved inside the SIGALRM handler. Resuming returns through
    the handler, and sigreturn unblocks the signal.
  * `"call"`: saved in `schedule_wrap(0)` called from library code.
  * `"fresh"`: the context `pthread_create` set for `start_thunk`.
  * `"none"`: never written.

  `setjmp`/`longjmp` neither save nor restore the mask.
* `pc`, `loc`: where each thread is in its program and inside a call.
* `tids`: main's array of returned ids.
* `owner`: the mutex's `_owner`.
* `bar`: the `my_barrier` fields, with the id list as a sequence.
* `crash` (why the process died) and `done` (main returned).

Whether a thread holds the mutex is not a variable: `Holding(t)` reads it
off the program counter (the last lock or unlock op it returned from is a
lock).

**Actions**
* `Tick` is SIGALRM, delivered while unblocked. Its handler runs `schedule`
  with the signal blocked.
* `Schedule` is `schedule()` whole: the round-robin scan and its three
  cases. Case 2 leaves the next thread `READY`. Case 3's cleanup after
  `longjmp` never runs.
* `pthread_create` is two steps. `CreateBegin` runs up to
  `status = TS_READY`, and `CreateEnd` covers the stack and context.
  `CreateFails` is its `-1` return when no slot is free. `CreateNoStack`
  is a failed stack malloc: `-1` with the slot left READY and no context.
  `CreateReturnsError` is what the program does with the `-1`. `test_10`
  (`checked`) fails its `assert(rc == 0)`. The others go on with their
  `pthread_t` unset, holding a value from `TidGarbage`.
* `JoinWait` and `JoinDone` are the join loop and its exit, once
  `JoinFound` holds: the id is not the caller's, is in range, and is the id
  of a slot that is not UNINITIALIZED. `JoinRefused` is the other case:
  EDEADLK, EINVAL or -1, returned at once.
* `Return` is a start routine returning into `pthread_exit`, or `main`
  returning.
* `MutexLock` tests the uninitialised local `_mut`, whose `_lock` is a value
  from `MutexGarbage`:
  * 1 blocks the caller for good, because its queue entry never reaches
    `*mutex`;
  * 0 takes the lock;
  * anything else passes without it.

  In every case `lock()` is never undone, so SIGALRM stays blocked until
  the matching unlock.
* `MutexUnlock` wakes the slots in a set from `QueueGarbage`: the garbage
  queue the lock call copied back.
* `BarrierArrive` is the barrier up to its branch. `BarrierSched` is the
  `schedule_wrap(0)` after `unlock()`, where a tick can cut in.
* The barrier's refusals: `BarrierWaitInvalid` is a wait on a barrier whose
  `init` is not 1 (EINVAL). `BarrierInit` with a count of 0 returns EINVAL
  after an `unlock()` with no `lock()`. `BarrierDestroy` of an uninitialised
  barrier returns -1.

**Outside the model**
* Stacks and return values: only `pthread_join` frees a stack, and nothing
  reads either.
* The mutex's `_lock`, `_init` and queue: they are never read back.
* `pthread_self()` is `CurrentThread`, because slot i has id i.
* Malloc failure of a barrier node. Its ENOMEM return looks like a
  release to the refinement mapping, which has no return codes.

**Fairness.** `Fairness` is weak fairness on `Tick` and strong fairness on
each thread's steps.
* The interval timer fires every quantum (50 ms) while the process runs, so
  a tick that stays deliverable is eventually delivered.
* A quantum is far longer than one library step. A thread that yields in a
  loop (`pthread_join`) hands the rest of its quantum to the next thread. So
  a thread that gets the CPU again and again eventually takes its next step.
  Weak fairness on "some thread steps" would allow a behaviour in which main's
  join loop and the timer alternate for ever while the thread they wait for
  never runs a single step. The code's timing rules that out.

No fairness is assumed on the values the garbage takes.

## Abstract specifications and refinement

Two modules state what a component promises its caller, with none of its
machinery. The detailed module is shown to implement each one: it
`INSTANCE`s the abstract module `WITH` a refinement mapping, and a passing
run checks the abstract `Spec` as a `PROPERTY`. Every step of the
implementation must then be a step of the abstract module or leave its
variables unchanged.

**`FileStore`** holds the mounted flag, the set of file names, each file's
cells, the descriptor table (name and offset) and the last read's output.
Its actions are `Create`, `Delete`, `Open`, `Close`, `Seek`, `Write` (which
may write fewer cells than asked), `Read`, `Truncate`, `Mount` and
`Umount`. `FS!Abstract` maps it from the concrete state:
* a name's file is `FileCells` of its inode: the cells `CellAt` finds
  through the block map, up to the inode's size;
* a descriptor's name is the name of the root entry holding its inode;
* the read output is `lastRead`.

**`Pthreads`** gives each thread an abstract op index `apc` over its
program, the set of created and exited threads, main's `tids`, the mutex
holder, and the barrier's waiting set and count. A thread takes its next op
whenever that op's promise allows it. `pthread_create` may fail, leaving
main's id unset (`TidGarbage`). `pthread_join` of an id that names no other
existing thread returns at once. `Threads!Abstract` maps it from the
concrete state:
* `apc` is `pc`, corrected for a barrier waiter (`AbsPc`). A thread whose
  id is still in the barrier's list is at the wait, even after
  `BarrierSched` advanced `pc`. A thread at `"bwait"` whose id the
  releasing arrival cleared is past it. This is how the barrier example of
  the TLA+ examples refines its abstract barrier, by translating the
  program counter;
* created threads are main and those whose context was set;
* exited threads are those at `"exited"`;
* the holder is the thread for which `Holding` is true;
* the waiting set is the ids in the barrier's list.

Both mappings read only implementation state. No ghost variable feeds
them.

## Runs

All runs check deadlock unless noted. A run's properties are exactly the
invariants and properties of its cfg.

### Passing runs

Each property was confirmed to be broken by a mutant of the code it is
about; the mutants are listed in PROJECT.json.

**tls_noclone** (`MCTLS_noclone.cfg`): 2 threads, 3 frames, 2-byte pages,
sizes 1 and 3, about 27 K states. Without `tls_clone`, it checks:
* every mapped page of every record is `PROT_NONE` whenever nobody holds
  the mutex (`ProtectedWhenUnlocked`);
* the mutex is always released, unless the process ends first
  (`LockEventuallyReleased`). A process killed by `protect()`'s `exit(1)`,
  or one whose threads have all exited, leaves nobody waiting.

Every write stores 0, because neither property reads bytes. There is no
symmetry because of the liveness property. Mmap exhaustion is reachable
with 3 frames.

**tls_full** (`MCTLS_full.cfg`): the whole library, with 2 threads, one-page
records, byte values {0, 1} and up to 3 clones' worth of overlap, about
975 K states. It checks `FramesReleasable`: whenever nobody holds the mutex,
every mapped page some record points at has a slot with overlap 1 pointing
at it, so some `tls_destroy` will munmap it. Clones raise the parent's
counts, copy-on-write moves slots to new frames, and destroy unmaps by
count. A clone that took the parent's raised count, a tempting fix for
tls.c:337, leaves no releaser right after the clone. Pages no record points at any more
are the `tls_init_race` finding. Deadlock is not
checked, because a thread that dies in the handler holding the mutex blocks
the others for good (see `tls_lock_leak`).

**fs_nofree** (`MCFS_nofree.cfg`): create, open, close, seek, read and
write on one mount, with 2 files, 2 descriptors, 8 blocks and 3 direct
pointers, so the single-indirect range is reached. It checks:
* `ImplementsFileStore`: `FS` refines `FileStore` (see below). Every
  write stores its cells where the block map later finds them. Every read
  returns the file's cells from the offset and stops at the end. Offsets
  move as the API promises;
* `BlocksOwned`: every reachable block is a data block, allocated, and
  reached once.

Writes are one cell and reads two cells, so reads cross block ends and the
end of the file. `OffsetBits` = 4 keeps files below the offset wrap.

**fs_session** (`MCFS_session.cfg`): the whole API on one mount. It checks:
* the directory and the inode table agree (`DirEntriesLive`);
* open descriptors refer to used inodes (`OpenFilesLive`);
* `fs_delete` and `fs_truncate` give back every block they unlink
  (`NoLeakedBlocks`): the bitmap holds only metadata and blocks a used
  inode reaches. The mutant that frees the direct entries from one past
  the first to go leaks a block in 22 states.

The offsets (`OffsetBits` = 2) reach the single-indirect range but not the
double-indirect one. In that range truncate leaks the double-indirect block
itself (see "Other violations").

In the session run, one descriptor and one written value (7, not
a block number) keep the state space within minutes. `VIEW` drops
`lastRead`, which no action reads.

**thr_tests** (`MCThreads_tests.cfg`): `test_4`, `test_10` and `test_7`
with `NUM_THREADS` = 2 and `MAX_THREADS` = 3. `test_1` and `test_6_7` of
`src/ulpt-2004joshua-master` make the same calls as `test_7`. `Test2` is
ulpt's `test_2` with two workers of two critical sections each, so a
thread locks again after unlocking. `TestExit` is
ulpt's `test.c`, whose main returns while its thread may not have run.
`Refused` is a main that makes the barrier calls the library refuses. It runs under every placement of timer
ticks, every value (0, 1, other) of the mutex's uninitialised lock word,
and every failure of a stack malloc, with the unset `pthread_t` holding 0
(main's own id), 2 (a slot's) or 3 (out of range). About 4.3 K states.
It checks:
* `MutualExclusion`: at most one thread is inside a mutex critical section.
  This holds only because `pthread_mutex_lock` leaves SIGALRM blocked. The
  mutant that unblocks it breaks the property.
* `ImplementsPthreads`: `Threads` refines `Pthreads` (see below). No
  thread runs past `pthread_barrier_wait` before the barrier's count have
  arrived, `pthread_join` returns only after its target exited, and
  `pthread_mutex_lock` returns only to a sole holder.
* `ProcessEnds`: under `Fairness`, every program runs to its end (main
  returns or the process dies), unless some thread is left in
  `pthread_mutex_lock`'s loop by a garbage lock word of 1. This needs:
  * the barrier to release every waiter at its count (the mutant that
    releases only above the count leaves both workers blocked and main
    joining for ever);
  * the join loop to yield until its target exits;
  * `schedule` to reach every READY thread.

  The code cannot promise more: without the condition, TLC finds two
  workers hung on the lock word and main spinning in `pthread_join`.

A failed stack malloc leaves a READY slot with no context. The next
`schedule` that reaches it longjmps into a zeroed `jmp_buf`, the
`ResumesSetContext` failure that thr_create_race shows. In the model,
`test_10`'s second cycle runs out of slots, because slots are never
reused, and ends in its failed `assert(rc == 0)`. This comes from the
scaling: 4 creations against 2 free slots. The real test makes 15
creations against 127 free slots and does not reach the bound. The model
shows what any program with more than `MAX_THREADS - 1` creations meets. Deadlock is not checked, because
every process ends (main returns, an assert fails, or the process faults).

### Violation runs

TLC finds each of these in seconds.

| run | property | what the trace shows |
|---|---|---|
| tls_clone_isolation | `IsolatedViews` | a clone's write changes the parent's bytes: `tls_clone` gives the clone overlap 1 (tls.c:337) |
| tls_init_race | `RecordsNotLost` | `initialize()` runs outside the mutex and wipes a record another thread just created (tls.c:86) |
| tls_lock_leak | `LockEventuallyReleased` | a thread faults inside `tls_read` on a page another thread's `tls_destroy` unmapped, and `pthread_exit` in the handler keeps the mutex (tls.c:45); the other thread waits in `tls_create` for good |
| fs_write_skips | `ImplementsFileStore` | a write of more than one block-piece misplaces later pieces: `fpos` counts `bytes_written` twice (fs.c:774) |
| fs_remount_loses_inodes | `DirEntriesLive` | umount writes each dirty inode to slot 0 of the inode block, so a remount loses files (fs.c:376) |
| thr_create_race | `ResumesSetContext` | a tick between `pthread_create` marking the slot READY and setting its context makes `schedule` longjmp into a zeroed `jmp_buf` (threads.c:225); a failed stack malloc leaves the same READY slot behind (threads.c:228) |
| fs_umount_clobbers | `UmountWritesOnlyMetadata` | `get_free_block` increments `ub_bitmap_count` on every allocation (fs.c:185). After two allocations umount writes 3 "bitmap" blocks, and the third, memory past the bitmap array, lands on data block 3 (fs.c:360) |

### Other violations TLC finds but no run keeps

TLC also finds these properties violated. The properties stay defined in the
modules, and the hazards in PROJECT.json describe them.

* `NoDanglingSlot`: destroying a clone unmaps the parent's page.
* `ProtectedWhenUnlocked` with clones: the page a copy-on-write left behind
  stays writable.
* `FaultNamesFaulter`: the diagnostic names the page owner.
* `NoLeakedBlocks` once writes reach the double-indirect range: a truncate
  to the direct range leaks the double-indirect block (fs.c:1095).
* `ImplementsFileStore` with `truncate(-1)`: the size becomes
  2^SizeBits - 1.
* `OffsetWithinSize` with two descriptors.
* `ImplementsFileStore` after a truncate through another descriptor (8
  states, with two descriptors and truncate allowed). One descriptor writes
  a cell, and the other truncates the file to 0. The first descriptor's
  offset stays at 1, and a zero-byte write there sets the size to 1 without
  allocating a block (fs.c:906). `fs_read` takes the hole's zero pointer as
  block 0 (fs.c:715) and returns a superblock byte where FileStore has a 0.
* `ImplementsFileStore` at the `uint16_t` offset wrap (fs_nofree with
  `OffsetBits` = 2).
* `BlocksOwned` once frees are allowed: a fresh single-indirect block is not
  zeroed, and its stale pointers alias another file's blocks (fs.c:805).
* `ImplementsFileStore` under `fs_session`'s bounds, for the same reason:
  a reused block read as the double-indirect array sends a write into the
  file's own direct block.
* `UserCodePreemptible`: a tick that starts a fresh thread leaves SIGALRM
  blocked while that thread runs its own code. The handler never returns
  through sigreturn for it.
* `ImplementsPthreads` when an unlock's garbage queue may wake a barrier
  waiter (`QueueGarbage = {{}, {2}}`).

## Bounds and why they suffice

* **Page and block sizes.** Two-byte pages and two-cell blocks keep every
  branch of the code reachable. A record spans one or two pages, and every
  indirect block holds two pointers, so the direct, single-indirect and
  double-indirect paths are all reached with 5-11 blocks.
* **Mmap and disk exhaustion.** Frames (3) and blocks are few, so that mmap
  failure and a full disk occur.
* **Counter widths.** They are scaled, so that the wrap of each counter is
  reachable where a run is about it.
* **Threads.** Three slots (main and two threads) are enough for every case
  of `schedule`: a thread can be preempted, blocked or exited with another
  READY. Two threads also meet at the barrier and contend for the mutex.
* **File names.** Two file names, with symmetry over names (sound: no guard
  or property tells names apart).

## Not modelled

* **Malloc failure of a barrier node** (threads.c:523). `pthread_barrier_wait`
  returns ENOMEM without waiting, and `test_4` ignores it. The refinement
  maps program counters and library state only, so a refused wait would
  look like a release; return codes would have to become state.
* **Library calls inside a mutex critical section.** Every call ends in
  `unlock()`, which unblocks SIGALRM. A holder that calls one inside its
  critical section re-enables preemption: with a worker that runs lock,
  `pthread_barrier_init`, unlock, TLC breaks `MutualExclusion` in 11
  states. The repository's tests make no such call, so `thr_tests` keeps
  to them.
* **Progress of a mutex locker**: a mutex lock that reads 1 hangs its
  caller for good, and the code cannot promise otherwise. `ProcessEnds`
  therefore assumes that no thread stays in the lock loop.
* **The disk library.** Its open/close failures are not modelled.
* **The handler's unlocked walk of the list** against a concurrent unlink:
  the model runs the lookup atomically.
* **`mount_fs`'s copies of 4096-byte blocks into the 1 KiB bitmap array.**
  Even the first copy, at `ub_bitmap_count` = 1, overruns the array into
  the globals after it. This is undefined behaviour whose outcome depends on
  the data layout. The model loads only the bitmap's own bytes from the
  first block.
* **File data bytes.** They are cell values from a small set.
