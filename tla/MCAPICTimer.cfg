\* A 700 Hz bus (3.5 clocks per 5000 us window, so the 200 Hz resolution
\* rounds), a 1 kHz TSC, SMIs of one clock, and the arguments apic_udelay
\* gets from kbd_flush_buffer (50), a calibration-sized delay, a whole
\* second, and the two that fail apic_set_counter_us's assertions.
CONSTANTS
    BUS_HZ = 700
    TSC_HZ = 1000
    SMI_MAX = 1
    Us = {0, 50, 5000, 1000000, 1000001}
    MAXCALLS = 3
    MAX_FIRES = 2
SPECIFICATION Spec
\* The caller stops after MAXCALLS calls, and the clock once the timer has
\* run out or expired MAX_FIRES times.
CHECK_DEADLOCK FALSE
INVARIANTS
    TypeOK
    UdelayAtLeast
PROPERTIES
    UdelayReturns
