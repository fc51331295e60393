\* Two APs started one after the other, the code's three SIPI attempts and
\* a wait loop of two polls (1000 in the code; any positive bound lets an
\* AP be faster or slower than the timeout).
CONSTANTS
    NAPs = 2
    MAX_SIPI_RETRY = 3
    WAIT_TIMEOUT = 2
SPECIFICATION Spec
\* Boot ends: with the BSP panicked, or with every AP running its tests.
CHECK_DEADLOCK FALSE
INVARIANT TypeOK
INVARIANT BootCompleteAllAlive
INVARIANT ParamsOwn
