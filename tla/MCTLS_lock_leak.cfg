\* Expected violation: a fault inside tls_read/tls_write exits the thread with list_mutex held.
CONSTANTS
    t1 = t1  t2 = t2  t3 = t3  f1 = f1  f2 = f2  f3 = f3
    NULL = NULL
    Threads <- MCThreads2
    Frames <- MCFrames
    PageSize = 2
    Sizes = {1}
    Bytes = {0, 1}
    MaxOverlap = 3
SPECIFICATION FairSpec

CHECK_DEADLOCK FALSE
PROPERTY LockEventuallyReleased
