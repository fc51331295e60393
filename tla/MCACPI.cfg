CONSTANTS
    E = 2
    PAGE_SIZE = 4
    HDR = 2
    MADT_HDR = 3
    XPTR = 2
    RPTR = 1
    RSTEP = 2
    POOL = 5
    EBDA <- MCEBDA
    ROM <- MCROM
    HPET0_START = 62
    HPET_SIZE = 1
    Boot <- MCBoot
    Firmwares <- MCFirmwares
SPECIFICATION Spec
CHECK_DEADLOCK FALSE
INVARIANTS
    TypeOK
    ReadsMapped
    OutcomeExact
    ReservedExact
