CONSTANTS
    NR_IOAPICS = 2
    MAX_IRQ = 1
    DescId <- MCDescId
    OtherId = 7
    MPIrqs <- MCMPIrqs
    ISA_BUSID = 0
    Setups <- MCSetups
    Vectors = {33}
SPECIFICATION Spec
\* Boot ends once the I/O APICs are set up and the keyboard is routed.
CHECK_DEADLOCK FALSE
INVARIANT TypeOK
INVARIANT I8259PinFromHardware
 
