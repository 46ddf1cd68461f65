\* The whole API on one mount, short of the double-indirect range.
CONSTANTS
    n1 = n1
    n2 = n2
    Names <- MCNames
    NBlocks = 7
    P = 2
    NDirect = 1
    MaxFiles = 2
    MaxFildes = 1
    Vals = {7}
    MaxWrite = 1
    MaxRead = 1
    BadLengths = {}
    OffsetBits = 2
    SizeBits = 3
    CountBits = 3
    Junk = 99
    Garbage = {3}
SPECIFICATION SpecNoRemount
SYMMETRY NameSymm
VIEW ImplView
INVARIANT DirEntriesLive
INVARIANT OpenFilesLive
INVARIANT NoLeakedBlocks
