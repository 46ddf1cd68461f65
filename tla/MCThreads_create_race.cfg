\* test_4 and test_10 as in MCThreads_tests.cfg: can the scheduler ever
\* longjmp into a jmp_buf pthread_create has not set yet?
CONSTANTS
    MaxThreads = 3
    Programs <- MCPrograms
    MutexGarbage = {0, 1, 2}
    QueueGarbage = {{}}
    NoOwner = NoOwner
    TidGarbage = {0, 2, 3}
SPECIFICATION Spec
CHECK_DEADLOCK FALSE
INVARIANT ResumesSetContext
