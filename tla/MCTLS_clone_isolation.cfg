\* Expected violation: a write by a clone changes its parent's bytes.
CONSTANTS
    t1 = t1  t2 = t2  t3 = t3  f1 = f1  f2 = f2  f3 = f3
    NULL = NULL
    Threads <- MCThreads2
    Frames <- MCFrames
    PageSize = 2
    Sizes = {1}
    Bytes = {0, 1}
    MaxOverlap = 3
SPECIFICATION Spec
SYMMETRY Symm
CHECK_DEADLOCK FALSE
PROPERTY IsolatedViews
