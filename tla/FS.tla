--------------------------------- MODULE FS ---------------------------------
(***************************************************************************)
(* The single-level file system of fs.c: superblock, block bitmap, inode   *)
(* table, flat root directory, descriptor table and the block-addressing   *)
(* I/O engine over a virtual disk.  The engine is single threaded: every   *)
(* action is one whole call of the public API.                             *)
(*                                                                         *)
(* Scaling.  A disk block holds P cells; a cell is one uint16_t word, so   *)
(* a block read as an indirect block is exactly P block numbers, as in     *)
(* the code (MAX_BLOCK_SIZE / sizeof(uint16_t)).  File offsets and sizes   *)
(* count cells.  FD.offset and inode.size keep their unsigned wrap-around  *)
(* at OffsetBits and SizeBits bits (uint16_t and uint32_t in the code),   *)
(* and fs.ub_bitmap_count (uint16_t) at CountBits bits.                   *)
(***************************************************************************)
EXTENDS Integers, FiniteSets, Sequences, FiniteSetsExt

CONSTANTS
    NBlocks,     \* DISK_BLOCKS
    P,           \* cells (block pointers) per block
    NDirect,     \* number of direct pointers of an inode (10)
    MaxFiles,    \* MAX_FILES: inode table and root directory size
    MaxFildes,   \* MAX_FILDES
    Names,       \* file names a caller passes (all shorter than 16 chars)
    Vals,        \* the cell values a caller writes
    MaxWrite,    \* largest nbyte passed to fs_write
    MaxRead,     \* largest nbyte passed to fs_read
    BadLengths,  \* negative lengths a caller passes to fs_truncate
    OffsetBits,  \* width of FD.offset
    SizeBits,    \* width of inode.size
    CountBits,   \* width of fs.ub_bitmap_count
    Junk,        \* cell value of memory read past the end of ubm.ub_bitmap
    Garbage      \* values an uninitialised uint16_t local can hold

Blocks == 0 .. NBlocks - 1
Cells == 0 .. P - 1
OffMod == 2 ^ OffsetBits
SizeMod == 2 ^ SizeBits
CountMod == 2 ^ CountBits
Addressable == (NDirect + P + P * P) * P

ASSUME /\ P >= 2 /\ NDirect >= 1 /\ NBlocks <= 16 * P
       /\ BadLengths \subseteq {-1}
       /\ Vals \subseteq Nat /\ Junk \in Nat /\ Garbage \subseteq Nat /\ Garbage # {}
       /\ SizeBits > OffsetBits /\ CountBits >= 1
       \* every reachable file position stays addressable, as it does for
       \* 4096-byte blocks: sizes reach SizeMod - 1 only through truncate(-1)
       /\ OffMod + MaxWrite <= Addressable
       /\ BadLengths # {} => SizeMod <= Addressable

(* Layout computed by make_fs: one bitmap block (DISK_BLOCKS/8 bytes fit   *)
(* one block) at block 1, one inode block (64 * 36 bytes) at block 2.      *)
BmCount0 == 1
BmOffset0 == 1
ImOffset == BmCount0 + BmOffset0
ImBlocks == 1
DataStart == ImOffset + ImBlocks
MetaBlocks == 0 .. DataStart - 1

ZeroCells == [c \in Cells |-> 0]
(* The inode table as read back from a block overwritten with anything    *)
(* other than an inode image: one outcome, every inode unused.            *)
JunkCells == [c \in Cells |-> Junk]

Inode == [used: BOOLEAN, size: Nat, direct: [0 .. NDirect - 1 -> Nat],
          single: Nat, double: Nat, dirty: BOOLEAN]
ZeroInode == [used |-> FALSE, size |-> 0, direct |-> [k \in 0 .. NDirect - 1 |-> 0],
              single |-> 0, double |-> 0, dirty |-> FALSE]
JunkTable == [i \in 0 .. MaxFiles - 1 |-> ZeroInode]
NoName == "none"
FreeEntry == [used |-> FALSE, name |-> NoName, inode |-> 0]
FreeFd == [used |-> FALSE, inode |-> 0, offset |-> 0]

(* The bitmap block: bit b of byte b \div 8, so bit b % 16 of word b \div 16 *)
BitmapCells(S) ==
    [c \in Cells |-> MapThenSumSet(LAMBDA b : 2 ^ (b % 16), {b \in S : b \div 16 = c})]
BitmapOf(cells) == {b \in Blocks : (cells[b \div 16] \div 2 ^ (b % 16)) % 2 = 1}

(* Block 0 as written by make_fs: the superblock's uint16_t fields.        *)
SuperCells ==
    [c \in Cells |-> CASE c = 0 -> BmCount0 [] c = 1 -> BmOffset0
                       [] c = 2 -> ImBlocks [] c = 3 -> ImOffset [] OTHER -> 0]

VARIABLES
    mounted,    \* mounted
    sb,         \* in-memory superblock fields fs.ub_bitmap_count, ub_bitmap_offset
    bitmap,     \* ubm.ub_bitmap as the set of blocks whose bit is set
    bmDirty,    \* ubm.dirty
    inodes,     \* inodes[MAX_FILES]
    root,       \* root[MAX_FILES]
    fds,        \* fds[MAX_FILDES]
    disk,       \* the virtual disk, block -> cells
    dinodes,    \* the inode table image held by block ImOffset
    lastRead    \* the cells the last fs_read copied into the caller's buffer

vars == <<mounted, sb, bitmap, bmDirty, inodes, root, fds, disk, dinodes,
          lastRead>>

Inodes == 0 .. MaxFiles - 1
Fildes == 0 .. MaxFildes - 1
Lowest(S) == Min(S)

(* get_free_block scans from block 0 for the first clear bit.              *)
FreeBlocksPastEnd(bm) == (0 .. NBlocks) \ bm
FreeBlocks(bm) == Blocks \ bm
FirstFree(bm) == IF FreeBlocks(bm) = {} THEN -1 ELSE Lowest(FreeBlocks(bm))

(* Reading a block as cells; block_read of a number past the disk fails   *)
(* and leaves the buffer as it was, which the read path memsets to 0.      *)
Blk(b) == IF b \in Blocks THEN disk[b] ELSE ZeroCells

(* State after make_fs in the same process: the globals as make_fs left   *)
(* them (bitmap dirty from set_bit) and the disk it wrote; not mounted.   *)
Init ==
    /\ mounted = FALSE
    /\ sb = [count |-> BmCount0, offset |-> BmOffset0]
    /\ bitmap = MetaBlocks
    /\ bmDirty = TRUE
    /\ inodes = [i \in Inodes |-> ZeroInode]
    /\ root = [e \in Inodes |-> [FreeEntry EXCEPT !.inode = e]]
    /\ fds = [d \in Fildes |-> FreeFd]
    /\ disk = [b \in Blocks |-> CASE b = 0 -> SuperCells
                                  [] b = BmOffset0 -> BitmapCells(MetaBlocks)
                                  [] OTHER -> ZeroCells]
    /\ dinodes = [i \in Inodes |-> ZeroInode]
    /\ lastRead = <<>>

-----------------------------------------------------------------------------
(* Directory and descriptor operations.                                    *)

Entry(name) == {e \in Inodes : root[e].used /\ root[e].name = name}
NameTaken(name) == Entry(name) # {}
NewEntryNoInode(name, i, e) == [used |-> TRUE, name |-> name, inode |-> root[e].inode]
NewEntry(name, i, e) == [used |-> TRUE, name |-> name, inode |-> i]
OpenOnNone(i) == {}
OpenOn(i) == {d \in Fildes : fds[d].used /\ fds[d].inode = i}

(* fs_create: duplicate check, then the first free inode is taken and     *)
(* marked dirty, then the first free root entry; a full root returns -1   *)
(* with the inode still allocated.                                         *)
fs_create(name) ==
    /\ mounted
    /\ ~NameTaken(name)
    /\ \E i \in Inodes : ~inodes[i].used
    /\ LET i == Lowest({j \in Inodes : ~inodes[j].used})
           free == {e \in Inodes : ~root[e].used}
       IN /\ inodes' = [inodes EXCEPT ![i] = [ZeroInode EXCEPT !.used = TRUE, !.dirty = TRUE]]
          /\ root' = IF free = {} THEN root
                     ELSE [root EXCEPT ![Lowest(free)] = NewEntry(name, i, Lowest(free))]
    /\ UNCHANGED <<mounted, sb, bitmap, bmDirty, fds, disk, dinodes, lastRead>>

(* fs_open: the first used entry with the name, then the first free fd.   *)
fs_open(name) ==
    /\ mounted
    /\ Entry(name) # {}
    /\ \E d \in Fildes : ~fds[d].used
    /\ LET d == Lowest({x \in Fildes : ~fds[x].used})
       IN fds' = [fds EXCEPT ![d] = [used |-> TRUE, inode |-> root[Lowest(Entry(name))].inode,
                                      offset |-> 0]]
    /\ UNCHANGED <<mounted, sb, bitmap, bmDirty, inodes, root, disk, dinodes, lastRead>>

fs_close(d) ==
    /\ mounted
    /\ fds[d].used
    /\ fds' = [fds EXCEPT ![d] = FreeFd]
    /\ UNCHANGED <<mounted, sb, bitmap, bmDirty, inodes, root, disk, dinodes, lastRead>>

fs_lseek(d, off) ==
    /\ mounted
    /\ fds[d].used
    /\ off <= inodes[fds[d].inode].size
    /\ fds' = [fds EXCEPT ![d].offset = off % OffMod]
    /\ UNCHANGED <<mounted, sb, bitmap, bmDirty, inodes, root, disk, dinodes, lastRead>>

-----------------------------------------------------------------------------
(* Freeing block chains.  Each clear_bit call clears one bit and          *)
(* decrements fs.ub_bitmap_count, so a chain is the set of blocks it      *)
(* clears and the number of clear_bit calls it makes.                      *)

NonZero(cells) == {c \in Cells : cells[c] # 0}
NoChain == [blocks |-> {}, calls |-> 0]
Join(a, b) == [blocks |-> a.blocks \cup b.blocks, calls |-> a.calls + b.calls]

(* Mutant: the direct entries freed from the one after `from`. *)
DirectChainPastFrom(ino, from) ==
    LET ks == {k \in from + 1 .. NDirect - 1 : ino.direct[k] # 0}
    IN [blocks |-> {ino.direct[k] : k \in ks}, calls |-> Cardinality(ks)]

DirectChain(ino, from) ==
    LET ks == {k \in from .. NDirect - 1 : ino.direct[k] # 0}
    IN [blocks |-> {ino.direct[k] : k \in ks}, calls |-> Cardinality(ks)]

(* the single-indirect block and every non-zero entry it holds            *)
SingleChain(ino) ==
    IF ino.single = 0 THEN NoChain
    ELSE LET ib == Blk(ino.single)
         IN [blocks |-> {ib[c] : c \in NonZero(ib)} \cup {ino.single},
             calls |-> Cardinality(NonZero(ib)) + 1]

(* every second-level block, its entries, and the double-indirect block   *)
(* itself when withSelf                                                    *)
DoubleChain(ino, withSelf) ==
    IF ino.double = 0 THEN NoChain
    ELSE LET dib == Blk(ino.double)
             outer == NonZero(dib)
             inner(c) == NonZero(Blk(dib[c]))
         IN [blocks |-> UNION {{Blk(dib[c])[x] : x \in inner(c)} \cup {dib[c]} : c \in outer}
                        \cup (IF withSelf THEN {ino.double} ELSE {}),
             calls |-> MapThenSumSet(LAMBDA c : Cardinality(inner(c)) + 1, outer)
                       + (IF withSelf THEN 1 ELSE 0)]

(* clear_bit on each block; a block number past the bitmap clears no bit  *)
(* of it.                                                                 *)
clear_bit(chain) ==
    /\ bitmap' = bitmap \ chain.blocks
    /\ sb' = [sb EXCEPT !.count = (@ - chain.calls) % CountMod]

(* fs_delete: refused while a descriptor is open on the inode; frees the  *)
(* whole chain, marks the bitmap dirty, and memsets the inode (clearing   *)
(* its dirty flag) and the root entry.                                     *)
fs_delete(name) ==
    /\ mounted
    /\ Entry(name) # {}
    /\ LET e == Lowest(Entry(name))
           i == root[e].inode
           ino == inodes[i]
       IN /\ OpenOn(i) = {}
          /\ clear_bit(Join(DirectChain(ino, 0), Join(SingleChain(ino), DoubleChain(ino, TRUE))))
          /\ bmDirty' = TRUE
          /\ inodes' = [inodes EXCEPT ![i] = ZeroInode]
          /\ root' = [root EXCEPT ![e] = FreeEntry]
    /\ UNCHANGED <<mounted, fds, disk, dinodes, lastRead>>

(* fs_truncate: length > size is refused; a negative length passes that   *)
(* check (off_t against uint32_t) and is stored into the uint32_t size.   *)
(* Direct blocks at or past the new block count are freed; when that      *)
(* count is within the direct range both indirect chains are freed and    *)
(* the zeroed double-indirect array is written back, but the double-      *)
(* indirect block itself is never cleared.  The offset of this descriptor *)
(* only is clamped; the inode is not marked dirty.                        *)
fs_truncate(d, len) ==
    /\ mounted
    /\ fds[d].used
    /\ LET i == fds[d].inode
           ino == inodes[i]
           nbc == (len + P - 1) \div P
           inChain == nbc <= NDirect
           chain == Join(DirectChain(ino, nbc),
                         IF inChain THEN Join(SingleChain(ino), DoubleChain(ino, FALSE)) ELSE NoChain)
       IN /\ len <= ino.size
          /\ clear_bit(chain)
          /\ bmDirty' = (bmDirty \/ chain.calls > 0)
          /\ inodes' = [inodes EXCEPT ![i].size = len % SizeMod,
                           ![i].direct = [k \in DOMAIN @ |-> IF k >= nbc THEN 0 ELSE @[k]],
                           ![i].single = IF inChain THEN 0 ELSE @,
                           ![i].double = IF inChain THEN 0 ELSE @]
          /\ disk' = IF inChain /\ ino.double # 0 /\ ino.double \in Blocks
                     THEN [disk EXCEPT ![ino.double] = ZeroCells] ELSE disk
          /\ fds' = IF fds[d].offset > len THEN [fds EXCEPT ![d].offset = len % OffMod] ELSE fds
    /\ UNCHANGED <<mounted, root, dinodes, lastRead>>

-----------------------------------------------------------------------------
(* fs_write.  One iteration of the loop is a record s of everything the   *)
(* iteration can change: the inode, the disk, the bitmap and its counter, *)
(* the descriptor offset, bytes_written, the block chosen, and how the    *)
(* loop stopped ("no", "break", "return" or "error").                     *)

(* get_free_block: set the first clear bit, count it, mark dirty          *)
AllocNoSet(s) == [s EXCEPT !.count = (@ + 1) % CountMod, !.bmDirty = TRUE]
Alloc(s) == [s EXCEPT !.bitmap = @ \cup {FirstFree(s.bitmap)},
                      !.count = (@ + 1) % CountMod, !.bmDirty = TRUE]
Stop(s, how) == [s EXCEPT !.stop = how]

(* direct slot: allocate when zero; a full disk breaks out of the loop    *)
LocateDirectNoStore(s, k) ==
    IF s.ino.direct[k] # 0 THEN [s EXCEPT !.blk = s.ino.direct[k]]
    ELSE IF FirstFree(s.bitmap) = -1 THEN Stop(s, "break")
    ELSE [Alloc(s) EXCEPT !.blk = FirstFree(s.bitmap)]
LocateDirect(s, k) ==
    IF s.ino.direct[k] # 0 THEN [s EXCEPT !.blk = s.ino.direct[k]]
    ELSE IF FirstFree(s.bitmap) = -1 THEN Stop(s, "break")
    ELSE LET b == FirstFree(s.bitmap)
         IN [Alloc(s) EXCEPT !.ino.direct[k] = b, !.blk = b]

(* an indirect container is allocated when zero but never zeroed: it is   *)
(* read back with whatever the block held before                          *)
EnsureSingle(s) ==
    IF s.ino.single # 0 THEN s
    ELSE IF FirstFree(s.bitmap) = -1 THEN Stop(s, "return")
    ELSE [Alloc(s) EXCEPT !.ino.single = FirstFree(s.bitmap)]

LocateSingle(s, j) ==
    LET s1 == EnsureSingle(s)
        ib == s1.disk[s1.ino.single]
        b == FirstFree(s1.bitmap)
    IN CASE s1.stop # "no" -> s1
         [] s1.ino.single \notin Blocks -> Stop(s1, "error")    \* block_read fails
         [] ib[j] # 0 -> [s1 EXCEPT !.blk = ib[j]]
         [] b = -1 -> Stop(s1, "return")
         [] OTHER -> [Alloc(s1) EXCEPT !.disk[s1.ino.single] = [ib EXCEPT ![j] = b], !.blk = b]

EnsureDouble(s) ==
    IF s.ino.double # 0 THEN s
    ELSE IF FirstFree(s.bitmap) = -1 THEN Stop(s, "return")
    ELSE [Alloc(s) EXCEPT !.ino.double = FirstFree(s.bitmap)]

(* double_ib[outer] # 0 leaves `block` unassigned: the store goes to g,   *)
(* whatever the uninitialised variable holds.  A failed block_read or     *)
(* block_write of an indirect block breaks out of the loop.                *)
LocateDouble(s, j, g) ==
    LET s1 == EnsureDouble(s)
        outer == j \div P
        inner == j % P
        dib == s1.disk[s1.ino.double]
        b == FirstFree(s1.bitmap)
        s2 == [Alloc(s1) EXCEPT !.disk[s1.ino.double] = [dib EXCEPT ![outer] = b]]
        sib == s2.disk[b]
        c == FirstFree(s2.bitmap)
    IN CASE s1.stop # "no" -> s1
         [] s1.ino.double \notin Blocks -> Stop(s1, "break")
         [] dib[outer] # 0 -> [s1 EXCEPT !.blk = g]
         [] b = -1 -> Stop(s1, "return")
         [] b \notin Blocks -> Stop(s2, "break")
         [] sib[inner] # 0 -> [s2 EXCEPT !.blk = sib[inner]]
         [] c = -1 -> Stop(s2, "return")
         [] OTHER -> [Alloc(s2) EXCEPT !.disk[b] = [sib EXCEPT ![inner] = c], !.blk = c]

(* fpos adds bytes_written to fd->offset, which the loop also advances    *)
WritePos(s) == s.off + s.bw

WriteStep(s, n, v, g) ==
    LET fpos == WritePos(s)
        idx == fpos \div P
        boff == fpos % P
        k == Min({P - boff, n - s.bw})
        l == CASE idx < NDirect -> LocateDirect(s, idx)
               [] idx < NDirect + P -> LocateSingle(s, idx - NDirect)
               [] OTHER -> LocateDouble(s, idx - NDirect - P, g)
    IN CASE l.stop # "no" -> l
         [] l.blk \notin Blocks -> Stop(l, "error")     \* block_read fails
         [] OTHER -> [l EXCEPT !.disk[l.blk] = [c \in Cells |-> IF boff <= c /\ c < boff + k
                                                                THEN v ELSE @[c]],
                               !.bw = @ + k, !.off = (@ + k) % OffMod]

RECURSIVE WriteLoop(_, _, _, _)
WriteLoop(s, n, v, g) ==
    IF s.stop # "no" \/ s.bw >= n THEN s ELSE WriteLoop(WriteStep(s, n, v, g), n, v, g)

(* After the loop (or a break) the size grows when original_offset +      *)
(* bytes_written reaches it; an early return skips that update; an error  *)
(* returns -1, reporting nothing written.                                 *)
fs_write(d, n, v, g) ==
    /\ mounted
    /\ fds[d].used
    /\ inodes[fds[d].inode].used
    /\ LET i == fds[d].inode
           o == fds[d].offset
           s == WriteLoop([ino |-> inodes[i], disk |-> disk, bitmap |-> bitmap, count |-> sb.count,
                           bmDirty |-> bmDirty, off |-> o, bw |-> 0, blk |-> 0, stop |-> "no"],
                          n, v, g)
           grows == s.stop \in {"no", "break"} /\ o + s.bw >= s.ino.size
       IN /\ inodes' = [inodes EXCEPT ![i] = IF grows THEN [s.ino EXCEPT !.size = (o + s.bw) % SizeMod,
                                                                          !.dirty = TRUE]
                                             ELSE s.ino]
          /\ disk' = s.disk
          /\ bitmap' = s.bitmap
          /\ sb' = [sb EXCEPT !.count = s.count]
          /\ bmDirty' = s.bmDirty
          /\ fds' = [fds EXCEPT ![d].offset = s.off]
          /\ dinodes' = IF s.disk[ImOffset] # disk[ImOffset] THEN JunkTable ELSE dinodes
    /\ UNCHANGED <<mounted, root, lastRead>>

-----------------------------------------------------------------------------
(* fs_read.  The block of file block idx, as the read path finds it: a    *)
(* zero pointer is read as block 0.                                        *)
ReadBlock(ino, idx) ==
    CASE idx < NDirect -> ino.direct[idx]
      [] idx < NDirect + P -> Blk(ino.single)[idx - NDirect]
      [] OTHER -> LET j == idx - NDirect - P
                  IN Blk(Blk(ino.double)[j \div P])[j % P]

CellAt(ino, pos) == Blk(ReadBlock(ino, pos \div P))[pos % P]

(* read_size is cut at the end of the file                               *)
ReadSizeUnclamped(off, want, size) == want
ReadSize(off, want, size) == IF off + want > size THEN size - off ELSE want

RECURSIVE ReadLoop(_, _)
ReadLoop(r, ino) ==
    IF r.left = 0 \/ r.off >= ino.size THEN r
    ELSE LET boff == r.off % P
             want == Min({P - boff, r.left})
             rs == ReadSize(r.off, want, ino.size)
         IN ReadLoop([off |-> (r.off + rs) % OffMod,
                      got |-> r.got \o [x \in 1 .. rs |-> CellAt(ino, r.off + x - 1)],
                      left |-> r.left - rs], ino)

fs_read(d, n) ==
    /\ mounted
    /\ fds[d].used
    /\ inodes[fds[d].inode].used
    /\ LET i == fds[d].inode
           r == ReadLoop([off |-> fds[d].offset, got |-> <<>>, left |-> n], inodes[i])
       IN /\ fds' = [fds EXCEPT ![d].offset = r.off]
          /\ lastRead' = r.got
    /\ UNCHANGED <<mounted, sb, bitmap, bmDirty, inodes, root, disk, dinodes>>

-----------------------------------------------------------------------------
(* mount_fs: the superblock is read from block 0, then ub_bitmap_count    *)
(* bitmap blocks from ub_bitmap_offset (only the first lands inside the   *)
(* bitmap array), then the inode table.  A failed block_read closes the   *)
(* disk and returns -1 with what was loaded so far.  Mounting an open     *)
(* disk fails in open_disk.                                                *)
fs_mount ==
    /\ ~mounted
    /\ LET cnt == disk[0][0]
           off == disk[0][1]
           ok == off + cnt <= NBlocks
       IN /\ sb' = [count |-> cnt, offset |-> off]
          /\ bitmap' = IF cnt >= 1 /\ off \in Blocks THEN BitmapOf(disk[off]) ELSE bitmap
          /\ inodes' = IF ok THEN dinodes ELSE inodes
          /\ mounted' = ok
    /\ UNCHANGED <<bmDirty, root, fds, disk, dinodes, lastRead>>

(* umount_fs: fs.dirty is never set, so block 0 is never rewritten.  A    *)
(* dirty bitmap is written as ub_bitmap_count blocks from                 *)
(* ub_bitmap_offset, block i taken from ubm.ub_bitmap + i * 4096: only    *)
(* the first holds the bitmap, the rest is memory past it.  A block past  *)
(* the disk fails the call.  Then every dirty inode in turn is copied to  *)
(* the start of a zeroed buffer and written to block im_offset, so the   *)
(* image keeps the last one, in slot 0.  Then the disk is closed.         *)
fs_umount ==
    /\ mounted
    /\ LET written == {b \in Blocks : sb.offset <= b /\ b < sb.offset + sb.count}
           ok == ~bmDirty \/ sb.offset + sb.count <= NBlocks
           dirtyI == {i \in Inodes : inodes[i].dirty}
       IN /\ disk' = IF bmDirty
                     THEN [b \in Blocks |-> CASE b = sb.offset /\ b \in written -> BitmapCells(bitmap)
                                              [] b \in written \ {ImOffset} -> JunkCells
                                              [] OTHER -> disk[b]]
                     ELSE disk
          /\ dinodes' = CASE ok /\ dirtyI # {} ->
                                 [j \in Inodes |-> IF j = 0 THEN inodes[Max(dirtyI)] ELSE ZeroInode]
                          [] bmDirty /\ ImOffset \in written /\ ImOffset # sb.offset -> JunkTable
                          [] OTHER -> dinodes
          /\ bmDirty' = (bmDirty /\ ~ok)
          /\ inodes' = IF ok THEN [i \in Inodes |-> [inodes[i] EXCEPT !.dirty = FALSE]] ELSE inodes
          /\ mounted' = ~ok
    /\ UNCHANGED <<sb, bitmap, root, fds, lastRead>>

-----------------------------------------------------------------------------
(* fs_get_filesize and fs_listfiles only read state: the size of a        *)
(* descriptor's file, from which callers take the offsets and lengths they *)
(* pass, and the names of the used root entries.                           *)
fs_get_filesize(d) == inodes[fds[d].inode].size
fs_listfiles == {root[e].name : e \in {x \in Inodes : root[x].used}}

(* Each action is one public call with arguments from the small input     *)
(* sets.  g is the value an uninitialised `block` holds in fs_write.      *)
FileOps(nm) == fs_create(nm) \/ fs_open(nm) \/ fs_delete(nm)

FdOps(d) ==
    \/ fs_close(d)
    \/ \E off \in 0 .. fs_get_filesize(d) : fs_lseek(d, off)
    \/ \E len \in BadLengths \cup 0 .. fs_get_filesize(d) : fs_truncate(d, len)
    \/ \E n \in 0 .. MaxWrite, v \in Vals, g \in Garbage : fs_write(d, n, v, g)
    \/ \E n \in 1 .. MaxRead : fs_read(d, n)

Next ==
    \/ fs_mount
    \/ fs_umount
    \/ \E nm \in Names : FileOps(nm)
    \/ \E d \in Fildes : FdOps(d)

(* One mount, never unmounted: the file system as one process uses it.    *)
NextNoRemount ==
    \/ fs_mount
    \/ \E nm \in Names : FileOps(nm)
    \/ \E d \in Fildes : FdOps(d)

(* One mount, and no call that frees blocks: create, open, close, seek,   *)
(* read and write only.                                                    *)
NextNoFree ==
    \/ fs_mount
    \/ \E nm \in Names : fs_create(nm) \/ fs_open(nm)
    \/ \E d \in Fildes :
          \/ fs_close(d)
          \/ \E off \in 0 .. fs_get_filesize(d) : fs_lseek(d, off)
          \/ \E n \in 0 .. MaxWrite, v \in Vals, g \in Garbage : fs_write(d, n, v, g)
          \/ \E n \in 1 .. MaxRead : fs_read(d, n)

Spec == Init /\ [][Next]_vars
SpecNoRemount == Init /\ [][NextNoRemount]_vars
SpecNoFree == Init /\ [][NextNoFree]_vars

-----------------------------------------------------------------------------
(* Properties.                                                             *)

TypeOK ==
    /\ mounted \in BOOLEAN
    /\ sb \in [count: 0 .. CountMod - 1, offset: Nat]
    /\ bitmap \subseteq Blocks
    /\ bmDirty \in BOOLEAN
    /\ inodes \in [Inodes -> Inode]
    /\ \A i \in Inodes : inodes[i].size < SizeMod
    /\ root \in [Inodes -> [used: BOOLEAN, name: Names \cup {NoName}, inode: Inodes]]
    /\ fds \in [Fildes -> [used: BOOLEAN, inode: Inodes, offset: 0 .. OffMod - 1]]
    /\ disk \in [Blocks -> [Cells -> Nat]]
    /\ dinodes \in [Inodes -> Inode]

(* F3/F4: every used root entry names a used inode, and every used inode  *)
(* is named by exactly one used entry (fs_create, fs_delete).             *)
DirEntriesLive ==
    /\ \A e \in Inodes : root[e].used => inodes[root[e].inode].used
    /\ \A i \in Inodes : inodes[i].used =>
           Cardinality({e \in Inodes : root[e].used /\ root[e].inode = i}) = 1

(* F5: an open descriptor always refers to a used inode: fs_delete        *)
(* refuses while a descriptor is open on the file.                        *)
OpenFilesLive ==
    \A d \in Fildes : fds[d].used => inodes[fds[d].inode].used

(* Every pointer reachable from a used inode, with where it is held.      *)
Refs ==
    UNION {
      LET ino == inodes[i]
          ib == Blk(ino.single)
          dib == Blk(ino.double)
      IN {[at |-> <<i, "d", k>>, blk |-> ino.direct[k]] : k \in {k \in 0 .. NDirect - 1 : ino.direct[k] # 0}}
         \cup (IF ino.single = 0 THEN {}
               ELSE {[at |-> <<i, "s">>, blk |-> ino.single]}
                    \cup {[at |-> <<i, "s", c>>, blk |-> ib[c]] : c \in NonZero(ib)})
         \cup (IF ino.double = 0 THEN {}
               ELSE {[at |-> <<i, "D">>, blk |-> ino.double]}
                    \cup {[at |-> <<i, "D", c>>, blk |-> dib[c]] : c \in NonZero(dib)}
                    \cup UNION {{[at |-> <<i, "D", c, x>>, blk |-> Blk(dib[c])[x]] : x \in NonZero(Blk(dib[c]))}
                                : c \in NonZero(dib)})
      : i \in {j \in Inodes : inodes[j].used} }

(* F1 and block exclusivity: every block a used inode reaches, directly   *)
(* or through an indirect block, is a data block, is marked in the       *)
(* bitmap, and is reached from nowhere else (fs_write's allocation,       *)
(* fs_delete and fs_truncate's freeing).                                  *)
BlocksOwned ==
    /\ \A r \in Refs : r.blk \in bitmap /\ r.blk \notin MetaBlocks
    /\ \A r1, r2 \in Refs : r1.blk = r2.blk => r1 = r2

(* No leak: every block marked in the bitmap is metadata or reached from  *)
(* a used inode (fs_truncate and fs_delete free what they unlink).        *)
NoLeakedBlocks ==
    bitmap \subseteq MetaBlocks \cup {r.blk : r \in Refs}

(* A descriptor's offset never lies past the end of its file (fs_lseek    *)
(* refuses it; fs_truncate clamps it).                                    *)
OffsetWithinSize ==
    \A d \in Fildes : fds[d].used => fds[d].offset <= inodes[fds[d].inode].size

(* umount_fs writes back metadata only: its bitmap loop (one block per    *)
(* ub_bitmap_count) and inode loop leave every data block as it was.       *)
UmountWritesOnlyMetadata ==
    [][fs_umount => \A b \in Blocks \ MetaBlocks : disk'[b] = disk[b]]_vars


-----------------------------------------------------------------------------
(* The refinement mapping to FileStore: the files are the names          *)
(* fs_listfiles returns; a name's file is the cells its inode's block map  *)
(* reaches, up to the inode's size; a descriptor is open on the name whose *)
(* entry holds its inode.                                                  *)
FileCells(ino) == [x \in 1 .. ino.size |-> CellAt(ino, x - 1)]

NameOf(i) ==
    IF \E e \in Inodes : root[e].used /\ root[e].inode = i
    THEN root[CHOOSE e \in Inodes : root[e].used /\ root[e].inode = i].name
    ELSE NoName

Abstract == INSTANCE FileStore WITH
    exists <- fs_listfiles,
    data   <- [nm \in Names |-> IF NameTaken(nm)
                               THEN FileCells(inodes[root[Lowest(Entry(nm))].inode])
                               ELSE <<>>],
    open   <- [d \in Fildes |-> IF fds[d].used
                               THEN [used |-> TRUE, name |-> NameOf(fds[d].inode),
                                     offset |-> fds[d].offset]
                               ELSE [used |-> FALSE, name |-> NoName, offset |-> 0]],
    out    <- lastRead

(* fs.c implements the API's promises (FileStore): every call either       *)
(* changes nothing a caller sees or does what FileStore allows.  A write   *)
(* that stores a cell where the block map does not lead, a read that runs  *)
(* past the end or returns other cells than the file's, or an offset that  *)
(* wraps, is a step FileStore forbids.                                      *)
ImplementsFileStore == Abstract!Spec
====
