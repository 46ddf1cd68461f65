\* test_4, test_10, test_7 (with ulpt's test_1 and test_6_7), ulpt's test.c
\* and the refused barrier calls, with MAX_THREADS = 3.  The mutex's uninitialised _lock
\* may read 0, 1 or any other value; its unlock wakes nobody from the garbage
\* queue.  Processes end (main returns, or a failed assert or a fault kills
\* them), so deadlock is not checked.
CONSTANTS
    MaxThreads = 3
    Programs <- MCPrograms
    MutexGarbage = {0, 1, 2}
    QueueGarbage = {{}}
    NoOwner = NoOwner
    TidGarbage = {0, 2, 3}
SPECIFICATION FairSpec
CHECK_DEADLOCK FALSE
INVARIANT TypeOK
INVARIANT MutualExclusion
PROPERTY ImplementsPthreads
PROPERTY ProcessEnds
