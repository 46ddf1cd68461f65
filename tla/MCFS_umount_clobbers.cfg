\* umount_fs writes ub_bitmap_count bitmap blocks, a count that every
\* allocation increments (violation expected).
CONSTANTS
    n1 = n1
    n2 = n2
    Names <- MCNames
    NBlocks = 5
    P = 2
    NDirect = 1
    MaxFiles = 1
    MaxFildes = 1
    Vals = {1}
    MaxWrite = 1
    MaxRead = 1
    BadLengths = {}
    OffsetBits = 2
    SizeBits = 3
    CountBits = 3
    Junk = 99
    Garbage = {3}
SPECIFICATION Spec
SYMMETRY NameSymm
PROPERTY UmountWritesOnlyMetadata
CHECK_DEADLOCK FALSE
