------------------------------- MODULE APICTimer -------------------------------
(***************************************************************************)
(* The local APIC timer of src/arch/x86/apic.c: apic_init's calibrations  *)
(* (pit_calibrate_cpu through set_cpu_clock, then pit_calibrate_apic_timer)*)
(* and apic_local_regs_init's LVT timer entry, then a caller's calls of    *)
(* apic_udelay, apic_monotonic, init_apic_timer, start_apic_timer and      *)
(* stop_apic_timer, each with apic_set_counter_us, and the tick handler    *)
(* __apic_timer_handler.                                                   *)
(*                                                                         *)
(* The timer (the environment) follows Intel's description: with divide-  *)
(* by-one the current count drops by one per bus clock; a write of the    *)
(* initial count restarts it there (0 stops it); on reaching zero it      *)
(* raises the LVT's vector unless the entry is masked, and in periodic    *)
(* mode reloads the initial count, while one-shot mode stays at zero.     *)
(* One Tick step is one bus clock, so BUS_HZ is scaled down; a raised     *)
(* vector waits in the IRR, where a second one merges with it.             *)
(*                                                                         *)
(* Each calibration round is one step: the counter written, pit_udelay     *)
(* (pit_mdelay, whose full wait the PIT run checks) for 5000 us stretched  *)
(* by an SMI of up to SMI_MAX clocks, and the counter read back.           *)
(***************************************************************************)
EXTENDS Integers, FiniteSets

CONSTANTS
    BUS_HZ,     \* the bus clock, the APIC timer's time base (scaled down)
    TSC_HZ,     \* the time-stamp counter's rate (scaled down)
    SMI_MAX,    \* the clocks an SMI may add to one calibration window
    Us,         \* the microsecond arguments callers pass
    MAXCALLS,   \* calls the caller makes
    MAX_FIRES   \* periodic expiries before the model stops the clock

USEC == 1000 * 1000
US_DELAY == 5 * 1000           \* us_delay of both calibrations
CAL_RES == USEC \div US_DELAY  \* (1000 * 1000) / us_delay

ASSUME APICTimerAssumption ==
    /\ BUS_HZ \in Nat \ {0} /\ TSC_HZ \in Nat \ {0} /\ SMI_MAX \in Nat
    /\ Us \subseteq Nat /\ MAXCALLS \in Nat /\ MAX_FIRES \in Nat

(* The clocks of a counter at rate hz that elapse in one calibration      *)
(* window: at least the 5000 us, at most SMI_MAX more.                     *)
Window(hz) == (hz * US_DELAY) \div USEC .. (hz * US_DELAY) \div USEC + SMI_MAX

(* The count left running by the calibration's UINT32_MAX, which does not *)
(* run out within a bounded behaviour.                                     *)
FAR == -1

Vectors == {"APIC_TIMER_VECTOR", "caller", "zero"}
Modes == {"oneshot", "periodic"}
Funcs == {"apic_udelay", "apic_monotonic", "init_apic_timer",
          "start_apic_timer", "stop_apic_timer"}

(* apic_set_counter_us's count (line 285) and its assertions (lines      *)
(* 283-288).                                                               *)
CounterUs(clock, us) == clock \div (USEC \div us)
CounterOK(clock, us) == us > 0 /\ USEC \div us > 0

VARIABLES
    apc,        \* "cpu_cal", "bus_cal", "idle", "udelay" or "panic"
    round,      \* calibration rounds done
    diff_min,   \* pit_calibrate_cpu's minimum (-1 for UINT64_MAX)
    cpu_clock,
    ticks_min,  \* pit_calibrate_apic_timer's minimum (-1 for UINT32_MAX)
    apic_clock,
    lvtt,       \* the LVT timer entry: mode, mask, vector
    initcnt, curcnt,
    irr,        \* the timer's vector raised and not yet handled
    apic_ticks_count,
    fires,      \* periodic expiries so far
    ncalls,
    us,         \* apic_udelay's argument while it polls
    waited,     \* bus clocks since apic_udelay set the counter
    waits       \* [us, clocks] of every apic_udelay that returned

vars == <<apc, round, diff_min, cpu_clock, ticks_min, apic_clock, lvtt,
          initcnt, curcnt, irr, apic_ticks_count, fires, ncalls, us, waited,
          waits>>

Min2(a, b) == IF a = -1 \/ b < a THEN b ELSE a

(* The BIOS leaves the timer masked and stopped; apic_init runs first.    *)
Init ==
    /\ apc = "cpu_cal" /\ round = 0
    /\ diff_min = -1 /\ cpu_clock = 0 /\ ticks_min = -1 /\ apic_clock = 0
    /\ lvtt = [mode |-> "oneshot", mask |-> TRUE, vector |-> "APIC_TIMER_VECTOR"]
    /\ initcnt = 0 /\ curcnt = 0 /\ irr = FALSE
    /\ apic_ticks_count = 0 /\ fires = 0 /\ ncalls = 0
    /\ us = 0 /\ waited = 0 /\ waits = {}

\* Mutant: the calibration loop running `i <= repeat', once too often.
CalibrateCpu_extra ==
    /\ apc = "cpu_cal"
    /\ \E diff \in Window(TSC_HZ) :
         LET m == Min2(diff_min, diff) IN
         IF round + 1 = 11
         THEN /\ cpu_clock' = m * CAL_RES /\ diff_min' = -1
              /\ apc' = "bus_cal" /\ round' = 0
         ELSE /\ diff_min' = m /\ round' = round + 1
              /\ UNCHANGED <<apc, cpu_clock>>
    /\ UNCHANGED <<lvtt, ticks_min, apic_clock, initcnt, curcnt, irr,
                   apic_ticks_count, fires, ncalls, us, waited, waits>>

(* One round of pit_calibrate_cpu(10) (lines 70-81), and after the tenth  *)
(* cpu_clock = diff_min * 200 (line 87) stored by set_cpu_clock.           *)
CalibrateCpu ==
    /\ apc = "cpu_cal"
    /\ \E diff \in Window(TSC_HZ) :
         LET m == Min2(diff_min, diff) IN
         IF round + 1 = 10
         THEN /\ cpu_clock' = m * CAL_RES /\ diff_min' = -1
              /\ apc' = "bus_cal" /\ round' = 0
         ELSE /\ diff_min' = m /\ round' = round + 1
              /\ UNCHANGED <<apc, cpu_clock>>
    /\ UNCHANGED <<lvtt, ticks_min, apic_clock, initcnt, curcnt, irr,
                   apic_ticks_count, fires, ncalls, us, waited, waits>>

(* apic_local_regs_init (lines 143-216): of the registers it resets (TPR,*)
(* LDR, DFR, the LVT entries, SPIV), the LVT timer entry, masked with     *)
(* APIC_TIMER_VECTOR in the reset mode, one-shot.                          *)
LocalRegsInit == [mode |-> "oneshot", mask |-> TRUE, vector |-> "APIC_TIMER_VECTOR"]

\* Mutant: the ticks of a round counted one short.
CalibrateBus_short ==
    /\ apc = "bus_cal"
    /\ \E e \in Window(BUS_HZ) :
         LET m == Min2(ticks_min, e - 1) IN
         /\ IF round + 1 = 5
            THEN /\ apic_clock' = m * CAL_RES /\ ticks_min' = -1
                 /\ apc' = "idle" /\ round' = 0
                 /\ lvtt' = LocalRegsInit
            ELSE /\ ticks_min' = m /\ round' = round + 1
                 /\ lvtt' = [lvtt EXCEPT !.mode = "oneshot", !.mask = TRUE]
                 /\ UNCHANGED <<apc, apic_clock>>
         /\ initcnt' = FAR /\ curcnt' = FAR
    /\ UNCHANGED <<diff_min, cpu_clock, irr, apic_ticks_count, fires, ncalls,
                   us, waited, waits>>

(* One round of pit_calibrate_apic_timer (lines 113-124), one-shot and    *)
(* masked from lines 103-107; ticks = counter1 - counter2 are the clocks   *)
(* of the window, never 0, so the assertion of line 118 holds.  After the *)
(* fifth, apic_clock = ticks_min * 200 (line 130) and apic_init goes on   *)
(* to apic_local_regs_init (line 251); the count of the last round keeps  *)
(* running.                                                                *)
CalibrateBus ==
    /\ apc = "bus_cal"
    /\ \E e \in Window(BUS_HZ) :
         LET m == Min2(ticks_min, e) IN
         /\ IF round + 1 = 5
            THEN /\ apic_clock' = m * CAL_RES /\ ticks_min' = -1
                 /\ apc' = "idle" /\ round' = 0
                 /\ lvtt' = LocalRegsInit
            ELSE /\ ticks_min' = m /\ round' = round + 1
                 /\ lvtt' = [lvtt EXCEPT !.mode = "oneshot", !.mask = TRUE]
                 /\ UNCHANGED <<apc, apic_clock>>
         /\ initcnt' = FAR /\ curcnt' = FAR
    /\ UNCHANGED <<diff_min, cpu_clock, irr, apic_ticks_count, fires, ncalls,
                   us, waited, waits>>

(* apic_set_counter_us (lines 269-289) after the LVT write `entry' of the *)
(* calling function, which then goes on to `next': a failed assertion     *)
(* panics.                                                                 *)
SetCounterUs(entry, u, next) ==
    /\ ncalls < MAXCALLS /\ apc = "idle"
    /\ ncalls' = ncalls + 1
    /\ lvtt' = entry
    /\ IF CounterOK(apic_clock, u)
       THEN /\ initcnt' = CounterUs(apic_clock, u)
            /\ curcnt' = CounterUs(apic_clock, u)
            /\ apc' = next
       ELSE apc' = "panic" /\ UNCHANGED <<initcnt, curcnt>>

\* Mutant: apic_udelay programming a periodic timer.
apic_udelay_periodic ==
    /\ \E u \in Us :
         /\ SetCounterUs([mode |-> "periodic", mask |-> TRUE, vector |-> "zero"],
                         u, "udelay")
         /\ us' = u /\ waited' = 0
    /\ UNCHANGED <<round, diff_min, cpu_clock, ticks_min, apic_clock, irr,
                   apic_ticks_count, fires, waits>>

(* apic_udelay (lines 293-307): a masked one-shot entry with vector 0,   *)
(* the counter, then the poll.                                             *)
apic_udelay ==
    /\ \E u \in Us :
         /\ SetCounterUs([mode |-> "oneshot", mask |-> TRUE, vector |-> "zero"],
                         u, "udelay")
         /\ us' = u /\ waited' = 0
    /\ UNCHANGED <<round, diff_min, cpu_clock, ticks_min, apic_clock, irr,
                   apic_ticks_count, fires, waits>>

(* The poll of line 304 reads a current count of zero: apic_udelay        *)
(* returns.                                                                *)
UdelayReturn ==
    /\ apc = "udelay" /\ curcnt = 0
    /\ apc' = "idle"
    /\ waits' = waits \cup {[us |-> us, clocks |-> waited]}
    /\ UNCHANGED <<round, diff_min, cpu_clock, ticks_min, apic_clock, lvtt,
                   initcnt, curcnt, irr, apic_ticks_count, fires, ncalls, us,
                   waited>>

(* apic_monotonic (lines 316-328) and init_apic_timer (lines 423-435): a  *)
(* periodic entry with the caller's vector, unmasked or masked.            *)
apic_monotonic ==
    /\ \E u \in Us :
         SetCounterUs([mode |-> "periodic", mask |-> FALSE, vector |-> "caller"],
                      u, "idle")
    /\ UNCHANGED <<round, diff_min, cpu_clock, ticks_min, apic_clock, irr,
                   apic_ticks_count, fires, us, waited, waits>>

init_apic_timer ==
    /\ \E u \in Us :
         SetCounterUs([mode |-> "periodic", mask |-> TRUE, vector |-> "caller"],
                      u, "idle")
    /\ UNCHANGED <<round, diff_min, cpu_clock, ticks_min, apic_clock, irr,
                   apic_ticks_count, fires, us, waited, waits>>

(* start_apic_timer and stop_apic_timer (lines 437-449): the entry read  *)
(* back with its mask cleared or set.                                      *)
SetMask(m) ==
    /\ ncalls < MAXCALLS /\ apc = "idle"
    /\ ncalls' = ncalls + 1
    /\ lvtt' = [lvtt EXCEPT !.mask = m]
    /\ UNCHANGED <<apc, round, diff_min, cpu_clock, ticks_min, apic_clock,
                   initcnt, curcnt, irr, apic_ticks_count, fires, us, waited,
                   waits>>

start_apic_timer == SetMask(FALSE)
stop_apic_timer == SetMask(TRUE)

(* One bus clock: the count drops; at zero the vector is raised unless    *)
(* masked, and a periodic timer reloads.                                   *)
Tick ==
    /\ curcnt > 0
    /\ lvtt.mode = "periodic" /\ curcnt = 1 => fires < MAX_FIRES
    /\ curcnt' = IF curcnt = 1 /\ lvtt.mode = "periodic" THEN initcnt ELSE curcnt - 1
    /\ irr' = (irr \/ (curcnt = 1 /\ ~lvtt.mask))
    /\ fires' = IF curcnt = 1 /\ lvtt.mode = "periodic" THEN fires + 1 ELSE fires
    /\ waited' = IF apc = "udelay" THEN waited + 1 ELSE waited
    /\ UNCHANGED <<apc, round, diff_min, cpu_clock, ticks_min, apic_clock, lvtt,
                   initcnt, apic_ticks_count, ncalls, us, waits>>

(* __apic_timer_handler (lines 40-43), entered on the raised vector.      *)
apic_timer_handler ==
    /\ irr
    /\ irr' = FALSE
    /\ apic_ticks_count' = apic_ticks_count + 1
    /\ UNCHANGED <<apc, round, diff_min, cpu_clock, ticks_min, apic_clock, lvtt,
                   initcnt, curcnt, fires, ncalls, us, waited, waits>>

Next ==
    \/ CalibrateCpu \/ CalibrateBus
    \/ apic_udelay \/ UdelayReturn \/ apic_monotonic \/ init_apic_timer
    \/ start_apic_timer \/ stop_apic_timer
    \/ Tick \/ apic_timer_handler

(* The bus clock runs, the CPU runs its own code (the poll included), and *)
(* an unmasked vector is taken.                                            *)
Spec == Init /\ [][Next]_vars
    /\ WF_vars(Tick) /\ WF_vars(UdelayReturn) /\ WF_vars(apic_timer_handler)

-----------------------------------------------------------------------------
TypeOK ==
    /\ apc \in {"cpu_cal", "bus_cal", "idle", "udelay", "panic"}
    /\ round \in 0 .. 9
    /\ diff_min \in {-1} \cup Nat /\ ticks_min \in {-1} \cup Nat
    /\ cpu_clock \in Nat /\ apic_clock \in Nat
    /\ lvtt \in [mode : Modes, mask : BOOLEAN, vector : Vectors]
    /\ initcnt \in {FAR} \cup Nat /\ curcnt \in {FAR} \cup Nat
    /\ irr \in BOOLEAN /\ apic_ticks_count \in Nat
    /\ fires \in 0 .. MAX_FIRES /\ ncalls \in 0 .. MAXCALLS
    /\ us \in Nat /\ waited \in Nat /\ waits \subseteq [us : Us, clocks : Nat]

(* apic_udelay(us) waits us microseconds of the real bus clock, short by  *)
(* at most one clock and the calibration's 200 Hz resolution: the minimum *)
(* of five windows of at least 5000 us each, times 200, never exceeds      *)
(* the bus clock by less than that, and 1000000 / us rounds the count up. *)
UdelayAtLeast ==
    \A w \in waits : (w.clocks + 1) * USEC > (BUS_HZ - CAL_RES) * w.us

(* Every apic_udelay that sets its counter returns: the one-shot count    *)
(* reaches zero and stays there for the poll to see.                       *)
UdelayReturns == apc = "udelay" ~> apc = "idle"

(* The comment of lines 280-283 has apic_set_counter_us count            *)
(* apic_clock * (us / 1000000) clocks: an apic_udelay should then wait    *)
(* within one clock of us microseconds of the calibrated clock.  The code *)
(* divides by 1000000 / us, rounded down, instead.                         *)
UdelayAsCommented ==
    \A w \in waits : w.clocks * USEC <= apic_clock * w.us + USEC

================================================================================
