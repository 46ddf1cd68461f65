\* fs_write advances fd->offset and also adds bytes_written: a write
\* spanning two blocks skips cells (violation expected).
CONSTANTS
    n1 = n1
    n2 = n2
    Names <- MCNames
    NBlocks = 8
    P = 2
    NDirect = 2
    MaxFiles = 2
    MaxFildes = 1
    Vals = {1}
    MaxWrite = 2
    MaxRead = 1
    BadLengths = {}
    OffsetBits = 3
    SizeBits = 4
    CountBits = 3
    Junk = 99
    Garbage = {3}
SPECIFICATION SpecNoFree
SYMMETRY NameSymm
PROPERTY ImplementsFileStore
CHECK_DEADLOCK FALSE
