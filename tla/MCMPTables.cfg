CONSTANTS
    CPUS_MAX = 3
    IOAPICS_MAX = 1
    MAX_IRQS = 1
    CHK = 16
    Memories <- MCMemories
    Tables <- MCTables
SPECIFICATION Spec
CHECK_DEADLOCK FALSE
INVARIANTS
    TypeOK
    InitOutcome
    ParsedTablesExact
