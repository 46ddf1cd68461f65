\* Programs that never call tls_clone: two threads, pages of two bytes,
\* records of one or two pages, three frames (so mmap can run out).
\* Neither property depends on byte values, so every write stores 0;
\* no symmetry, since LockEventuallyReleased is a liveness property.
CONSTANTS
    t1 = t1  t2 = t2  t3 = t3  f1 = f1  f2 = f2  f3 = f3
    NULL = NULL
    Threads <- MCThreads2
    Frames <- MCFrames
    PageSize = 2
    Sizes = {1, 3}
    Bytes = {0}
    MaxOverlap = 3
SPECIFICATION SpecNoClone
INVARIANT TypeOK
INVARIANT ProtectedWhenUnlocked
PROPERTY LockEventuallyReleased
