CONSTANTS
    E = 4
    LP = 2
    KTEXT_PAGE_OFFSET = 112
    KTEXT_AREA_SIZE = 4
    KTEXT_PHYS_OFFSET = 0
    KERN_PAGE_OFFSET = 64
    KERN_PHYS_END_MAX = 32
    PhysEnds = {5, 11, 20}
    KmapReqs <- MCKmapReqs
SPECIFICATION Spec
CHECK_DEADLOCK FALSE
INVARIANTS
    TypeOK
    KernMapIdentity
    RangesMapped
    NoRemapPanic
