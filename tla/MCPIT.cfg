CONSTANTS
    Us = {0, 2, 5, 60000}
    BIOS_COUNT = 3
    MAXCALLS = 2
    CAP = 6
SPECIFICATION Spec
INVARIANTS
    TypeOK
    DelayFull
PROPERTIES
    CallsReturn
