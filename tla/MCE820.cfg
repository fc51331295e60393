CONSTANTS
    MAXW = 8
    LEN = 11
    CHK_MOD = 16
    WORD = 32
    PAGE_SIZE = 4
    KMEM_END = 8
    Ranges <- MCRanges
    MAX_ENTRIES = 2
SPECIFICATION Spec
CHECK_DEADLOCK FALSE
INVARIANTS
    TypeOK
    ValidationExact
    SanitizeExact
    AllocatorFits
