\* Create, open, close, seek, read and write on one mount, one-cell writes, two-cell reads.
CONSTANTS
    n1 = n1
    n2 = n2
    Names <- MCNames
    NBlocks = 8
    P = 2
    NDirect = 3
    MaxFiles = 2
    MaxFildes = 2
    Vals = {2}
    MaxWrite = 1
    MaxRead = 2
    BadLengths = {}
    OffsetBits = 4
    SizeBits = 5
    CountBits = 3
    Junk = 99
    Garbage = {3}
SPECIFICATION SpecNoFree
SYMMETRY NameSymm
INVARIANT TypeOK
PROPERTY ImplementsFileStore
INVARIANT BlocksOwned
