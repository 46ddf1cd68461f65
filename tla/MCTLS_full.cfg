\* The whole library, tls_clone included.  Deadlock is not checked: a
\* thread that dies in the fault handler while holding list_mutex blocks
\* every other thread for good (see run tls_lock_leak).
CONSTANTS
    t1 = t1  t2 = t2  t3 = t3  f1 = f1  f2 = f2  f3 = f3
    NULL = NULL
    Threads <- MCThreads2
    Frames <- MCFrames
    PageSize = 2
    Sizes = {1}
    Bytes = {0, 1}
    MaxOverlap = 3
SPECIFICATION Spec
SYMMETRY Symm
CHECK_DEADLOCK FALSE
INVARIANT FramesReleasable
