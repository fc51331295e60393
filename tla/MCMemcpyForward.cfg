CONSTANTS
    AREA = 20
    MAXLEN = 19
SPECIFICATION Spec
CHECK_DEADLOCK FALSE
INVARIANTS
    TypeOK
    CopyExact
