\* umount_fs writes every dirty inode to slot 0 of the inode block, so
\* a remount loses all but one (violation expected).
CONSTANTS
    n1 = n1
    n2 = n2
    Names <- MCNames
    NBlocks = 5
    P = 2
    NDirect = 1
    MaxFiles = 2
    MaxFildes = 1
    Vals = {1}
    MaxWrite = 1
    MaxRead = 1
    BadLengths = {}
    OffsetBits = 2
    SizeBits = 3
    CountBits = 3
    Junk = 99
    Garbage = {3}
SPECIFICATION Spec
SYMMETRY NameSymm
INVARIANT DirEntriesLive
CHECK_DEADLOCK FALSE
