-------------------------------- MODULE TLS --------------------------------
(***************************************************************************)
(* Copy-on-write thread-local storage of src/COW/tls.c.                    *)
(*                                                                         *)
(* The registry `list` (a linked list keyed by pthread id in the code) is  *)
(* a function from threads to their record.  A record holds its size and   *)
(* the flexible array p_arr of page slots <<address, overlap>>; `overlap`  *)
(* is the code's per-slot reference count.  Page frames are drawn by mmap  *)
(* from the pool Frames, so an address freed by munmap can be handed out   *)
(* again.  Every frame has a protection and PageSize bytes of content.     *)
(*                                                                         *)
(* tls_create, tls_destroy and tls_clone run atomically under list_mutex.  *)
(* tls_create first tests `list == NULL` and may call initialize() before  *)
(* it takes the mutex, so that window is a step of its own.  tls_read and  *)
(* tls_write hold the mutex across several steps (unprotect, one step per  *)
(* touched page, protect) so that a fault inside them, which runs          *)
(* sig_handler_fault and pthread_exit, is visible with the mutex held.     *)
(* Access(t, f) is a thread touching a TLS frame directly, the event the   *)
(* fault handler exists for.                                               *)
(***************************************************************************)
EXTENDS Integers, FiniteSets, Sequences, Functions

CONSTANTS
    Threads,    \* pthread ids of the threads that use the library
    Frames,     \* the page frames mmap can return
    PageSize,   \* getpagesize(), in bytes (scaled down)
    Sizes,      \* sizes passed to tls_create
    Bytes,      \* byte values; 0 is what anonymous mmap fills with
    MaxOverlap, \* bound on a slot's overlap count (tls_clone is not taken past it)
    NULL

ASSUME PageSize \in Nat \ {0}
ASSUME Sizes \subseteq Nat \ {0}
ASSUME 0 \in Bytes
ASSUME MaxOverlap \in Nat \ {0, 1}
ASSUME NULL \notin Threads

VARIABLES
    list,       \* thread -> its struct tls, or NULL
    mapped,     \* frames currently mmapped
    prot,       \* frame -> "none" | "rw"   (PROT_NONE / PROT_READ|PROT_WRITE)
    mem,        \* frame -> byte offset -> byte
    lock,       \* owner of list_mutex, or NULL
    pc,         \* thread -> where it is in the library
    arg,        \* thread -> arguments of its current call
    ctls,       \* thread -> the record its tls_read/tls_write looked up (ctls)
    crashed,    \* the process was killed (exit(1) or a re-raised SIGSEGV)
    lastFault,  \* the diagnostic of the latest handled fault
    live        \* ghost: threads whose create/clone returned 0, not destroyed since

vars == <<list, mapped, prot, mem, lock, pc, arg, ctls, crashed, lastFault, live>>

Page == [0 .. PageSize - 1 -> Bytes]
Slot == [addr : Frames, overlap : 1 .. MaxOverlap]

(* Mutant: the page count rounded down instead of up. *)
PageCountTruncated(size) == size \div PageSize

(* count = (size + page_size - 1) / page_size *)
PageCount(size) == (size + PageSize - 1) \div PageSize

MaxPages == PageCount(CHOOSE m \in Sizes : \A s \in Sizes : s <= m)
Rec == [size : Sizes, slots : UNION {[1 .. n -> Slot] : n \in 1 .. MaxPages}]
Offsets == 0 .. MaxPages * PageSize
Args == [size : Sizes \cup {0}, off : Offsets, len : Offsets,
         v : Bytes, page : 0 .. MaxPages]
NoArg == [size |-> 0, off |-> 0, len |-> 0, v |-> 0, page |-> 0]
ZeroPage == [i \in 0 .. PageSize - 1 |-> 0]

FramesOf(r) == Range([i \in DOMAIN r.slots |-> r.slots[i].addr])

(* The records whose p_arr contains frame f, as sig_handler_fault finds them. *)
Owners(f) == {u \in Threads : list[u] # NULL /\ f \in FramesOf(list[u])}

FreeFrames == Frames \ mapped

(* 0-based indices of the pages that bytes [off, off+len) fall in. *)
Touched(off, len) == {idx \div PageSize : idx \in off .. off + len - 1}

Running(t) == ~crashed /\ pc[t] = "idle"

Goto(t, where) == pc' = [pc EXCEPT ![t] = where]

(***************************************************************************)
(* sig_handler_fault, run by thread t on a fault at frame f: if f lies in  *)
(* a page of some record, print that record's tid and pthread_exit the     *)
(* faulting thread (list_mutex stays with whoever holds it); otherwise     *)
(* restore SIG_DFL and re-raise, which kills the process.                  *)
(***************************************************************************)
SigHandler(t, f) ==
    \/ /\ Owners(f) # {}
       /\ \E u \in Owners(f) : lastFault' = [faulter |-> t, named |-> u]
       /\ Goto(t, "dead")
       /\ UNCHANGED crashed
    \/ /\ Owners(f) = {}
       /\ crashed' = TRUE
       /\ UNCHANGED <<pc, lastFault>>

Init ==
    /\ list = [t \in Threads |-> NULL]
    /\ mapped = {}
    /\ prot = [f \in Frames |-> "none"]
    /\ mem = [f \in Frames |-> ZeroPage]
    /\ lock = NULL
    /\ pc = [t \in Threads |-> "idle"]
    /\ arg = [t \in Threads |-> NoArg]
    /\ ctls = [t \in Threads |-> NULL]
    /\ crashed = FALSE
    /\ lastFault = NULL
    /\ live = {}

(* tls_create, before the mutex: `if (list == NULL) initialize();` *)
CreateBegin(t, size) ==
    /\ Running(t)
    /\ arg' = [arg EXCEPT ![t] = [NoArg EXCEPT !.size = size]]
    /\ Goto(t, IF \A u \in Threads : list[u] = NULL THEN "init" ELSE "create")
    /\ UNCHANGED <<list, mapped, prot, mem, lock, ctls, crashed, lastFault, live>>

(* initialize(): list = NULL; the handler is (re)installed. *)
Initialize(t) ==
    /\ ~crashed /\ pc[t] = "init"
    /\ list' = [u \in Threads |-> NULL]
    /\ Goto(t, "create")
    /\ UNCHANGED <<mapped, prot, mem, lock, arg, ctls, crashed, lastFault, live>>

(***************************************************************************)
(* tls_create under list_mutex.  An existing record fails the call.  When  *)
(* mmap runs out of frames the pages mapped so far are unmapped again and  *)
(* the call fails, leaving the state as it was.  Otherwise `count` fresh   *)
(* zero-filled PROT_NONE frames with overlap 1 become the new record.      *)
(***************************************************************************)
CreateLocked(t) ==
    LET count == PageCount(arg[t].size) IN
    /\ ~crashed /\ pc[t] = "create" /\ lock = NULL
    /\ Goto(t, "idle")
    /\ arg' = [arg EXCEPT ![t] = NoArg]
    /\ IF list[t] = NULL /\ Cardinality(FreeFrames) >= count
       THEN \E a \in Injection(1 .. count, FreeFrames) :
              /\ list' = [list EXCEPT ![t] =
                            [size  |-> arg[t].size,
                             slots |-> [i \in 1 .. count |->
                                          [addr |-> a[i], overlap |-> 1]]]]
              /\ mapped' = mapped \cup Range(a)
              /\ prot' = [f \in Frames |-> IF f \in Range(a) THEN "none" ELSE prot[f]]
              /\ mem' = [f \in Frames |-> IF f \in Range(a) THEN ZeroPage ELSE mem[f]]
              /\ live' = live \cup {t}
       ELSE UNCHANGED <<list, mapped, prot, mem, live>>
    /\ UNCHANGED <<lock, ctls, crashed, lastFault>>

(***************************************************************************)
(* tls_destroy: munmap every page whose slot has overlap == 1 (munmap of   *)
(* an already unmapped range succeeds), unlink and free the record.  With  *)
(* no record the call fails without changing anything.                     *)
(***************************************************************************)
Destroy(t) ==
    LET r == list[t] IN
    /\ Running(t) /\ lock = NULL /\ r # NULL
    /\ mapped' = mapped \ {r.slots[i].addr : i \in {j \in DOMAIN r.slots : r.slots[j].overlap = 1}}
    /\ list' = [list EXCEPT ![t] = NULL]
    /\ live' = live \ {t}
    /\ UNCHANGED <<prot, mem, lock, pc, arg, ctls, crashed, lastFault>>

(* Mutant: the clone's slots take the parent's raised count as well. *)
CloneSharedCount(t, u) ==
    LET p == list[u] IN
    /\ Running(t) /\ lock = NULL
    /\ t # u /\ list[t] = NULL /\ p # NULL
    /\ \A i \in DOMAIN p.slots : p.slots[i].overlap < MaxOverlap
    /\ list' = [list EXCEPT
                  ![u].slots = [i \in DOMAIN p.slots |->
                                  [p.slots[i] EXCEPT !.overlap = @ + 1]],
                  ![t] = [size  |-> p.size,
                          slots |-> [i \in DOMAIN p.slots |->
                                       [addr |-> p.slots[i].addr, overlap |-> p.slots[i].overlap + 1]]]]
    /\ live' = live \cup {t}
    /\ UNCHANGED <<mapped, prot, mem, lock, pc, arg, ctls, crashed, lastFault>>

(***************************************************************************)
(* tls_clone(u) by t: fails if t = u, t has a record or u has none.        *)
(* Otherwise each slot of u's record gets overlap + 1 and t's new record   *)
(* points at the same frames, each of its own slots with overlap 1.        *)
(***************************************************************************)
Clone(t, u) ==
    LET p == list[u] IN
    /\ Running(t) /\ lock = NULL
    /\ t # u /\ list[t] = NULL /\ p # NULL
    /\ \A i \in DOMAIN p.slots : p.slots[i].overlap < MaxOverlap
    /\ list' = [list EXCEPT
                  ![u].slots = [i \in DOMAIN p.slots |->
                                  [p.slots[i] EXCEPT !.overlap = @ + 1]],
                  ![t] = [size  |-> p.size,
                          slots |-> [i \in DOMAIN p.slots |->
                                       [addr |-> p.slots[i].addr, overlap |-> 1]]]]
    /\ live' = live \cup {t}
    /\ UNCHANGED <<mapped, prot, mem, lock, pc, arg, ctls, crashed, lastFault>>

(* Mutant: the protect() loop left out. *)
ProtectSkipped(r) == prot

(* protect() of every page of r: mprotect(PROT_NONE). *)
ProtectAll(r) == [f \in Frames |-> IF f \in FramesOf(r) THEN "none" ELSE prot[f]]

Unlock == lock' = NULL

(* tls_write copies a page first when its slot's overlap is above 1. *)
Shared(slot) == slot.overlap > 1

(* Mutant: the loop index not advanced. *)
NextPageStuck(i) == i

(* The byte loop `++idx` carries tls_write on to the next page. *)
NextPage(i) == i + 1

(* The bounds check shared by tls_read and tls_write. *)
InBounds(r, off, len) == off + len <= Len(r.slots) * PageSize

(* unprotect(): mprotect(PROT_READ | PROT_WRITE); on a page no longer    *)
(* mapped it fails, and the failure is only printed.                      *)
unprotect(f) == IF f \in mapped THEN "rw" ELSE prot[f]

(* protect(): mprotect(PROT_NONE), and exit(1) when it fails, as it does  *)
(* for a page no longer mapped; this is whether it fails for a record.    *)
ProtectFails(r) == ~(FramesOf(r) \subseteq mapped)

(* unprotect() of every slot. *)
Unprotected(r) ==
    [f \in Frames |-> IF f \in FramesOf(r) THEN unprotect(f) ELSE prot[f]]

(* Lock, find the record, check bounds, unprotect all its pages. *)
OpBegin(t, kind, off, len, v) ==
    LET r == list[t] IN
    /\ Running(t) /\ lock = NULL /\ r # NULL
    /\ InBounds(r, off, len)
    /\ lock' = t
    /\ prot' = Unprotected(r)
    /\ arg' = [arg EXCEPT ![t] = [NoArg EXCEPT !.off = off, !.len = len,
                                               !.v = v, !.page = off \div PageSize]]
    /\ ctls' = [ctls EXCEPT ![t] = r]
    /\ Goto(t, kind)
    /\ UNCHANGED <<list, mapped, mem, crashed, lastFault, live>>

ReadBegin(t, off, len) == OpBegin(t, "read", off, len, 0)

WriteBegin(t, off, len, v) == OpBegin(t, "write", off, len, v)

(***************************************************************************)
(* tls_read after unprotecting: copy the bytes, page by page in ascending  *)
(* order; touching a page whose frame is no longer mapped faults inside    *)
(* the call (with list_mutex held).  Then protect() every page, which      *)
(* calls exit(1) when mprotect fails on an unmapped page.                  *)
(***************************************************************************)
ReadEnd(t) ==
    LET r   == ctls[t]
        bad == {i \in Touched(arg[t].off, arg[t].len) : r.slots[i + 1].addr \notin mapped}
        first == CHOOSE i \in bad : \A j \in bad : i <= j
    IN
    /\ ~crashed /\ pc[t] = "read"
    /\ \/ /\ bad # {}
          /\ SigHandler(t, r.slots[first + 1].addr)
          /\ UNCHANGED <<prot, lock, arg, ctls>>
       \/ /\ bad = {} /\ ProtectFails(r)
          /\ crashed' = TRUE
          /\ UNCHANGED <<prot, lock, pc, arg, ctls, lastFault>>
       \/ /\ bad = {} /\ ~ProtectFails(r)
          /\ prot' = ProtectAll(r)
          /\ Unlock
          /\ arg' = [arg EXCEPT ![t] = NoArg]
          /\ ctls' = [ctls EXCEPT ![t] = NULL]
          /\ Goto(t, "idle")
          /\ UNCHANGED <<crashed, lastFault>>
    /\ UNCHANGED <<list, mapped, mem, live>>

(* The last page index tls_write touches, and whether it is past it. *)
WriteDone(t) ==
    \/ arg[t].len = 0
    \/ arg[t].page > (arg[t].off + arg[t].len - 1) \div PageSize

(* The bytes of page i that the write [off, off+len) stores v into. *)
Store(page, i, a) ==
    [j \in 0 .. PageSize - 1 |->
        IF i * PageSize + j \in a.off .. a.off + a.len - 1 THEN a.v ELSE page[j]]

(***************************************************************************)
(* One page of the tls_write loop.  A slot with overlap > 1 is first       *)
(* decremented, then a fresh PROT_READ|PROT_WRITE page is mmapped, the old *)
(* page copied into it and the slot pointed at it with overlap 1.  mmap    *)
(* failure is not checked: the memcpy into MAP_FAILED faults outside every *)
(* record and kills the process.  Copying from, or storing into, a frame   *)
(* that is no longer mapped faults inside the call.                        *)
(***************************************************************************)
(* Assignments through ctls reach the list too unless it was unlinked. *)
SetCtls(t, rec) ==
    /\ ctls' = [ctls EXCEPT ![t] = rec]
    /\ list' = IF list[t] # NULL THEN [list EXCEPT ![t] = rec] ELSE list

WritePage(t) ==
    LET a    == arg[t]
        i    == a.page
        r    == ctls[t]
        slot == r.slots[i + 1]
    IN
    /\ ~crashed /\ pc[t] = "write" /\ ~WriteDone(t)
    /\ \/ /\ Shared(slot) /\ FreeFrames = {}
          /\ crashed' = TRUE
          /\ UNCHANGED <<list, ctls, mapped, prot, mem, pc, arg, lastFault>>
       \/ /\ Shared(slot)
          /\ \E nf \in FreeFrames :
               /\ mapped' = mapped \cup {nf}
               /\ prot' = [prot EXCEPT ![nf] = "rw"]
               /\ \/ /\ slot.addr \notin mapped
                     /\ SetCtls(t, [r EXCEPT !.slots[i + 1].overlap = @ - 1])
                     /\ mem' = [mem EXCEPT ![nf] = ZeroPage]
                     /\ SigHandler(t, slot.addr)
                     /\ UNCHANGED arg
                  \/ /\ slot.addr \in mapped
                     /\ SetCtls(t, [r EXCEPT !.slots[i + 1] = [addr |-> nf, overlap |-> 1]])
                     /\ mem' = [mem EXCEPT ![nf] = Store(mem[slot.addr], i, a)]
                     /\ arg' = [arg EXCEPT ![t].page = NextPage(i)]
                     /\ UNCHANGED <<pc, crashed, lastFault>>
       \/ /\ ~Shared(slot) /\ slot.addr \notin mapped
          /\ SigHandler(t, slot.addr)
          /\ UNCHANGED <<list, ctls, mapped, prot, mem, arg>>
       \/ /\ ~Shared(slot) /\ slot.addr \in mapped
          /\ mem' = [mem EXCEPT ![slot.addr] = Store(@, i, a)]
          /\ arg' = [arg EXCEPT ![t].page = NextPage(i)]
          /\ UNCHANGED <<list, ctls, mapped, prot, pc, crashed, lastFault>>
    /\ UNCHANGED <<lock, live>>

(* After the loop tls_write protect()s every page its slots now point at. *)
WriteEnd(t) ==
    LET r == ctls[t] IN
    /\ ~crashed /\ pc[t] = "write" /\ WriteDone(t)
    /\ \/ /\ ProtectFails(r)
          /\ crashed' = TRUE
          /\ UNCHANGED <<prot, lock, pc, arg, ctls>>
       \/ /\ ~ProtectFails(r)
          /\ prot' = ProtectAll(r)
          /\ Unlock
          /\ arg' = [arg EXCEPT ![t] = NoArg]
          /\ ctls' = [ctls EXCEPT ![t] = NULL]
          /\ Goto(t, "idle")
          /\ UNCHANGED crashed
    /\ UNCHANGED <<list, mapped, mem, lastFault, live>>

(* A thread touches a frame of some record directly and it faults. *)
Access(t, f) ==
    /\ Running(t)
    /\ \E u \in Threads : list[u] # NULL /\ f \in FramesOf(list[u])
    /\ f \notin mapped \/ prot[f] = "none"
    /\ SigHandler(t, f)
    /\ UNCHANGED <<list, mapped, prot, mem, lock, arg, ctls, live>>

(* The process has ended: killed, or every thread has exited. *)
Terminated ==
    /\ crashed \/ \A t \in Threads : pc[t] = "dead"
    /\ UNCHANGED vars

NextNoClone ==
    \/ \E t \in Threads :
         \/ \E s \in Sizes : CreateBegin(t, s)
         \/ Initialize(t)
         \/ CreateLocked(t)
         \/ Destroy(t)
         \/ \E off, len \in Offsets : ReadBegin(t, off, len)
         \/ ReadEnd(t)
         \/ \E off, len \in Offsets, v \in Bytes : WriteBegin(t, off, len, v)
         \/ WritePage(t)
         \/ WriteEnd(t)
         \/ \E f \in Frames : Access(t, f)
    \/ Terminated

Next == NextNoClone \/ \E t, u \in Threads : Clone(t, u)

(* The holder of list_mutex is a running thread in the middle of its own   *)
(* tls_read or tls_write; the preemptive scheduler keeps running it.       *)
Fairness ==
    \A t \in Threads : WF_vars(ReadEnd(t) \/ WritePage(t) \/ WriteEnd(t))

Spec == Init /\ [][Next]_vars

FairSpec == Spec /\ Fairness

SpecNoClone == Init /\ [][NextNoClone]_vars /\ Fairness

(***************************************************************************)
(* Properties.                                                             *)
(***************************************************************************)

(* The bytes thread u sees through its record: page i of p_arr, byte j.    *)
ViewOf(r, m) ==
    IF r = NULL THEN NULL
    ELSE [b \in 0 .. Len(r.slots) * PageSize - 1 |->
            m[r.slots[b \div PageSize + 1].addr][b % PageSize]]

TypeOK ==
    /\ list \in [Threads -> {NULL} \cup Rec]
    /\ mapped \subseteq Frames
    /\ prot \in [Frames -> {"none", "rw"}]
    /\ mem \in [Frames -> Page]
    /\ lock \in Threads \cup {NULL}
    /\ pc \in [Threads -> {"idle", "init", "create", "read", "write", "dead"}]
    /\ arg \in [Threads -> Args]
    /\ ctls \in [Threads -> {NULL} \cup Rec]
    /\ crashed \in BOOLEAN
    /\ lastFault \in {NULL} \cup [faulter : Threads, named : Threads]
    /\ live \subseteq Threads

(* I1: whenever no tls_read/tls_write holds list_mutex, every mapped page  *)
(* of every record is PROT_NONE, so a direct access by any thread faults.  *)
(* tls_read/tls_write unprotect all pages on entry and must protect them   *)
(* all again on exit, including after a copy-on-write replaced a slot.     *)
ProtectedWhenUnlocked ==
    (lock = NULL /\ ~crashed) =>
        \A u \in Threads : list[u] # NULL =>
            \A f \in FramesOf(list[u]) \cap mapped : prot[f] = "none"

(* Every page a record points at is still mapped: tls_destroy of one       *)
(* record must never munmap a page another record shares.                  *)
NoDanglingSlot ==
    \A u \in Threads : list[u] # NULL => FramesOf(list[u]) \subseteq mapped

(* A thread whose tls_create or tls_clone returned 0, and which has not    *)
(* destroyed it since, still has its record in the list.                   *)
RecordsNotLost ==
    \A t \in live : list[t] # NULL

(* The fault handler's diagnostic names the thread it terminates, i.e. the *)
(* thread that made the illegal access.                                    *)
FaultNamesFaulter ==
    lastFault # NULL => lastFault.named = lastFault.faulter

(* CoW independence: the bytes a thread sees through its TLS change only   *)
(* by its own tls_write (while both before and after it has a record).     *)
IsolatedViews ==
    [][\A u \in Threads :
         (list[u] # NULL /\ list'[u] # NULL /\ ViewOf(list[u], mem) # ViewOf(list'[u], mem'))
            => pc[u] = "write"]_vars

(* No page is stranded by the overlap counts: whenever no call holds      *)
(* list_mutex, every mapped frame a record in the list points at has a    *)
(* slot with overlap 1 pointing at it, whose tls_destroy munmaps it.      *)
(* tls_clone raises the parent's counts, copy-on-write moves a slot to a  *)
(* new frame and tls_destroy unmaps by count: together they must leave a  *)
(* releaser.  (Frames no record points at any more, after initialize()   *)
(* wipes the list, are the finding of run tls_init_race.)                 *)
FramesReleasable ==
    (lock = NULL /\ ~crashed) => \A u \in Threads : list[u] # NULL =>
           \A f \in FramesOf(list[u]) \cap mapped :
               \E v \in Threads : list[v] # NULL /\
                   \E i \in DOMAIN list[v].slots : list[v].slots[i] = [addr |-> f, overlap |-> 1]

(* list_mutex is always released again, unless the process ends first    *)
(* (protect()'s exit(1), a re-raised SIGSEGV, or every thread gone): no    *)
(* thread is left waiting for the mutex forever.                          *)
LockEventuallyReleased ==
    lock # NULL ~> (lock = NULL \/ crashed \/ \A t \in Threads : pc[t] = "dead")

=============================================================================
