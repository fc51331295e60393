CONSTANTS
    t1 = t1
    t2 = t2
    t3 = t3
    t4 = t4
    NULL = NULL
    Threads <- MCThreads
    Priority <- MCPriority
    NR_PRIORITIES = 4

SPECIFICATION Spec

INVARIANT TypeOK
INVARIANT BitmapConsistent
INVARIANT ListsWellFormed

PROPERTY AbsSpec
