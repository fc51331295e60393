---------------------------- MODULE APICTimerProofs ----------------------------
(***************************************************************************)
(* Proofs about the local APIC timer model, for every bus and TSC rate,   *)
(* SMI stretch, set of arguments and bound on calls: apic_udelay never    *)
(* returns before `us' microseconds of the real bus clock, short by at    *)
(* most the calibration's 200 Hz resolution and one clock.                 *)
(***************************************************************************)
EXTENDS APICTimer, TLAPS

(* The fewest bus clocks one calibration window can count.                *)
Lo == (BUS_HZ * US_DELAY) \div USEC

(* The five-round minimum is unset or counts at least a whole window.     *)
TicksMinBound == ticks_min = -1 \/ ticks_min >= Lo

(* The CPU calibration runs ten rounds, the bus calibration five.         *)
RoundBound == apc = "bus_cal" => round \in 0 .. 4

(* Once calibrated, apic_clock falls short of the bus clock by less than *)
(* the 200 Hz resolution.                                                  *)
ClockBound == apc \in {"idle", "udelay", "panic"} => apic_clock + CAL_RES > BUS_HZ

(* While apic_udelay polls, its one-shot count and the clocks waited add  *)
(* up to the count apic_set_counter_us programmed.                         *)
PollState ==
    apc = "udelay" =>
        /\ us \in Us /\ CounterOK(apic_clock, us)
        /\ lvtt.mode = "oneshot" /\ curcnt \in Nat
        /\ waited + curcnt = CounterUs(apic_clock, us)

(* The inductive invariant.                                                *)
IInv == TypeOK /\ TicksMinBound /\ RoundBound /\ ClockBound /\ PollState
        /\ UdelayAtLeast


-----------------------------------------------------------------------------
(* Integer division rounds down: q * (a \div q) <= a < q * (a \div q + 1). *)
LEMMA DivBounds ==
    ASSUME NEW a \in Nat, NEW q \in Nat \ {0}
    PROVE  /\ a \div q \in Nat
           /\ (a \div q) * q <= a
           /\ a < (a \div q + 1) * q
BY SMT

(* Multiplying by a positive number keeps an order.                         *)
LEMMA MulLess ==
    ASSUME NEW x \in Int, NEW y \in Int, NEW k \in Nat \ {0}, x < y
    PROVE  x * k < y * k
BY SMT

LEMMA MulLeq ==
    ASSUME NEW x \in Int, NEW y \in Int, NEW k \in Nat, x <= y
    PROVE  x * k <= y * k
BY SMT

(* The constants of the calibration.                                       *)
LEMMA Constants == USEC = 1000000 /\ US_DELAY = 5000 /\ CAL_RES = 200
BY DEF USEC, US_DELAY, CAL_RES

(* A minimum over whole windows, scaled by 200, falls short of the bus   *)
(* clock by less than 200: floor(B * 5000 / 10^6) * 200 > B - 200.        *)
LEMMA WindowScaled ==
    ASSUME NEW m \in Int, m >= Lo
    PROVE  m * CAL_RES + CAL_RES > BUS_HZ
<1>1. BUS_HZ \in Nat /\ BUS_HZ * 5000 \in Nat
  BY APICTimerAssumption
<1>2. Lo \in Nat /\ BUS_HZ * 5000 < (Lo + 1) * 1000000
  BY <1>1, DivBounds, Constants DEF Lo
<1>3. BUS_HZ < Lo * 200 + 200
  BY <1>2, APICTimerAssumption
<1>4. m * 200 >= Lo * 200
  BY <1>2, MulLeq
<1>5. m * CAL_RES + CAL_RES = m * 200 + 200
  BY Constants
<1>. QED BY <1>1, <1>2, <1>3, <1>4, <1>5, APICTimerAssumption

(* apic_set_counter_us's count, apic_clock / (10^6 / us) rounded down,   *)
(* lasts at least us microseconds of a clock running at rate `clock',    *)
(* up to one clock: (count + 1) * 10^6 > clock * us.                       *)
LEMMA CountCoversUs ==
    ASSUME NEW clock \in Nat, NEW u \in Nat, CounterOK(clock, u)
    PROVE  (CounterUs(clock, u) + 1) * USEC > clock * u
<1>1. PICK q \in Nat \ {0} : q = USEC \div u
  <2>1. u \in Nat \ {0} /\ USEC \in Nat /\ USEC \div u > 0
    BY Constants DEF CounterOK
  <2>2. USEC \div u \in Nat
    BY <2>1, DivBounds
  <2>. QED BY <2>1, <2>2
<1>2. PICK c \in Nat : c = clock \div q
  BY <1>1, DivBounds
<1>3. u \in Nat \ {0} /\ q * u <= USEC
  <2>1. u \in Nat \ {0}
    BY DEF CounterOK
  <2>2. (USEC \div u) * u <= USEC
    BY <2>1, DivBounds, Constants
  <2>. QED BY <1>1, <2>1, <2>2
<1>4. clock < (c + 1) * q
  <2>1. clock < (clock \div q + 1) * q
    BY <1>1, DivBounds
  <2>. QED BY <1>2, <2>1
<1>5. clock * u < ((c + 1) * q) * u
  BY <1>3, <1>4, MulLess
<1>6. ((c + 1) * q) * u = (c + 1) * (q * u)
  BY <1>1, <1>2, <1>3
<1>7. (c + 1) * (q * u) <= (c + 1) * USEC
  BY <1>1, <1>2, <1>3, MulLeq, Constants
<1>8. CounterUs(clock, u) = c
  BY <1>1, <1>2 DEF CounterUs
<1>. QED BY <1>1, <1>2, <1>3, <1>5, <1>6, <1>7, <1>8, Constants

(* Hence a count programmed from a calibrated clock lasts long enough.    *)
LEMMA CalibratedCountLongEnough ==
    ASSUME NEW clock \in Nat, NEW u \in Nat, CounterOK(clock, u),
           clock + CAL_RES > BUS_HZ
    PROVE  (CounterUs(clock, u) + 1) * USEC > (BUS_HZ - CAL_RES) * u
<1>1. (CounterUs(clock, u) + 1) * USEC > clock * u
  BY CountCoversUs
<1>2. u \in Nat \ {0} /\ BUS_HZ - CAL_RES < clock + 1
  BY Constants, APICTimerAssumption DEF CounterOK
<1>3. (BUS_HZ - CAL_RES) * u <= clock * u
  BY <1>2, APICTimerAssumption, Constants, MulLeq
<1>4. CounterUs(clock, u) \in Nat
  BY DivBounds, Constants DEF CounterOK, CounterUs
<1>. QED BY <1>1, <1>2, <1>3, <1>4, Constants, APICTimerAssumption

(* A calibration window counts a whole number of clocks, at least the   *)
(* 5000 us at rate h.                                                      *)
LEMMA WindowNat ==
    ASSUME NEW h \in Nat, NEW d \in Window(h)
    PROVE  /\ (h * US_DELAY) \div USEC \in Nat
           /\ d \in Nat /\ d >= (h * US_DELAY) \div USEC
<1>1. h * 5000 \in Nat
  OBVIOUS
<1>2. (h * 5000) \div 1000000 \in Nat
  BY <1>1, DivBounds
<1>3. (h * US_DELAY) \div USEC \in Nat
  BY <1>2, Constants
<1>4. d \in (h * US_DELAY) \div USEC .. (h * US_DELAY) \div USEC + SMI_MAX
  BY DEF Window
<1>. QED BY <1>3, <1>4

(* The count apic_set_counter_us programs is a whole number of clocks.  *)
LEMMA CounterUsNat ==
    ASSUME NEW clock \in Nat, NEW u \in Nat, CounterOK(clock, u)
    PROVE  CounterUs(clock, u) \in Nat
<1>1. u \in Nat \ {0} /\ USEC \div u > 0
  BY DEF CounterOK
<1>2. USEC \div u \in Nat
  BY <1>1, DivBounds, Constants
<1>. QED BY <1>1, <1>2, DivBounds DEF CounterUs

(* The LVT entries the three callers of apic_set_counter_us write, and  *)
(* the one apic_local_regs_init writes.                                    *)
LEMMA EntriesTyped ==
    /\ [mode |-> "oneshot", mask |-> TRUE, vector |-> "zero"]
         \in [mode : Modes, mask : BOOLEAN, vector : Vectors]
    /\ [mode |-> "periodic", mask |-> FALSE, vector |-> "caller"]
         \in [mode : Modes, mask : BOOLEAN, vector : Vectors]
    /\ [mode |-> "periodic", mask |-> TRUE, vector |-> "caller"]
         \in [mode : Modes, mask : BOOLEAN, vector : Vectors]
    /\ LocalRegsInit \in [mode : Modes, mask : BOOLEAN, vector : Vectors]
BY Zenon DEF Modes, Vectors, LocalRegsInit

(* Rewriting the mode or the mask of the typed LVT entry keeps it typed. *)
LEMMA LvttOneshotMasked ==
    ASSUME lvtt \in [mode : Modes, mask : BOOLEAN, vector : Vectors],
           lvtt' = [lvtt EXCEPT !.mode = "oneshot", !.mask = TRUE]
    PROVE  lvtt' \in [mode : Modes, mask : BOOLEAN, vector : Vectors]
BY Zenon DEF Modes

LEMMA LvttMask ==
    ASSUME lvtt \in [mode : Modes, mask : BOOLEAN, vector : Vectors],
           NEW mk \in BOOLEAN, lvtt' = [lvtt EXCEPT !.mask = mk]
    PROVE  lvtt' \in [mode : Modes, mask : BOOLEAN, vector : Vectors]
OBVIOUS

(* apic_set_counter_us from the idle state keeps the invariant, whatever *)
(* entry the caller wrote and whichever state it goes on to.              *)
LEMMA SetCounterUsIInv ==
    ASSUME IInv,
           NEW entry \in [mode : Modes, mask : BOOLEAN, vector : Vectors],
           NEW u \in Us, NEW next \in {"idle", "udelay"},
           SetCounterUs(entry, u, next),
           UNCHANGED <<round, diff_min, cpu_clock, ticks_min, apic_clock, irr,
                       apic_ticks_count, fires, waits>>,
           next = "udelay" => entry.mode = "oneshot" /\ us' = u /\ waited' = 0,
           next = "idle" => UNCHANGED <<us, waited>>
    PROVE  IInv'
<1> USE APICTimerAssumption DEF IInv
<1>1. /\ apc = "idle" /\ ncalls \in 0 .. MAXCALLS - 1
      /\ ncalls' = ncalls + 1 /\ lvtt' = entry
  BY DEF SetCounterUs, TypeOK
<1>2. /\ apic_clock \in Nat /\ apic_clock + CAL_RES > BUS_HZ
      /\ us' \in Nat /\ waited' \in Nat /\ u \in Nat
  BY <1>1 DEF TypeOK, ClockBound
<1>3. TicksMinBound' /\ RoundBound' /\ UdelayAtLeast'
  BY <1>1 DEF SetCounterUs, TicksMinBound, RoundBound, UdelayAtLeast
<1>4. CASE CounterOK(apic_clock, u)
  <2>1. CounterUs(apic_clock, u) \in Nat
    BY <1>2, <1>4, CounterUsNat
  <2>2. /\ initcnt' = CounterUs(apic_clock, u)
        /\ curcnt' = CounterUs(apic_clock, u) /\ apc' = next
    BY <1>4 DEF SetCounterUs
  <2>3. TypeOK'
    BY <1>1, <1>2, <2>1, <2>2 DEF TypeOK
  <2>4. ClockBound'
    BY <1>2, <2>2 DEF ClockBound
  <2>5. PollState'
    BY <1>1, <1>4, <2>1, <2>2 DEF PollState
  <2>. QED BY <1>3, <2>3, <2>4, <2>5
<1>5. CASE ~CounterOK(apic_clock, u)
  <2>1. apc' = "panic" /\ UNCHANGED <<initcnt, curcnt>>
    BY <1>5 DEF SetCounterUs
  <2>2. TypeOK'
    BY <1>1, <1>2, <2>1 DEF TypeOK
  <2>3. ClockBound' /\ PollState'
    BY <1>2, <2>1 DEF ClockBound, PollState
  <2>. QED BY <1>3, <2>2, <2>3
<1>. QED BY <1>4, <1>5

(* Setting or clearing the mask from the idle state keeps the invariant. *)
LEMMA SetMaskIInv ==
    ASSUME IInv, NEW m \in BOOLEAN, SetMask(m)
    PROVE  IInv'
<1> USE APICTimerAssumption DEF IInv
<1>1. apc = "idle" /\ ncalls \in 0 .. MAXCALLS - 1 /\ ncalls' = ncalls + 1
  BY DEF SetMask, TypeOK
<1>2. lvtt' \in [mode : Modes, mask : BOOLEAN, vector : Vectors]
  <2>1. lvtt \in [mode : Modes, mask : BOOLEAN, vector : Vectors]
    BY DEF TypeOK
  <2>2. lvtt' = [lvtt EXCEPT !.mask = m]
    BY DEF SetMask
  <2>. QED BY <2>1, <2>2, LvttMask
<1>3. TypeOK'
  BY <1>1, <1>2 DEF SetMask, TypeOK
<1>4. TicksMinBound' /\ RoundBound' /\ ClockBound' /\ PollState' /\ UdelayAtLeast'
  BY <1>1 DEF SetMask, TicksMinBound, RoundBound, ClockBound, PollState,
             UdelayAtLeast
<1>. QED BY <1>3, <1>4

-----------------------------------------------------------------------------
LEMMA InitIInv == Init => IInv
<1> SUFFICES ASSUME Init PROVE IInv
  OBVIOUS
<1>1. TypeOK
  <2>1. lvtt \in [mode : Modes, mask : BOOLEAN, vector : Vectors]
    BY DEF Init, Modes, Vectors
  <2>2. waits \subseteq [us : Us, clocks : Nat] /\ irr \in BOOLEAN
    BY Zenon DEF Init
  <2>3. /\ apc \in {"cpu_cal", "bus_cal", "idle", "udelay", "panic"}
        /\ round \in 0 .. 9
        /\ diff_min \in {-1} \cup Nat /\ ticks_min \in {-1} \cup Nat
        /\ cpu_clock \in Nat /\ apic_clock \in Nat
        /\ initcnt \in {FAR} \cup Nat /\ curcnt \in {FAR} \cup Nat
        /\ apic_ticks_count \in Nat
        /\ fires \in 0 .. MAX_FIRES /\ ncalls \in 0 .. MAXCALLS
        /\ us \in Nat /\ waited \in Nat
    BY APICTimerAssumption DEF Init
  <2>. QED BY <2>1, <2>2, <2>3 DEF TypeOK
<1>2. TicksMinBound /\ RoundBound /\ ClockBound /\ PollState /\ UdelayAtLeast
  BY DEF Init, TicksMinBound, RoundBound, ClockBound, PollState, UdelayAtLeast
<1>. QED BY <1>1, <1>2 DEF IInv

(* The invariant survives a round of the CPU calibration. *)
LEMMA CalibrateCpuIInv == IInv /\ CalibrateCpu => IInv'
<1> SUFFICES ASSUME IInv, CalibrateCpu PROVE IInv'
  OBVIOUS
<1>0. CalibrateCpu
  OBVIOUS
<1> USE APICTimerAssumption DEF IInv
<1>1. /\ apc = "cpu_cal"
      /\ UNCHANGED <<lvtt, ticks_min, apic_clock, initcnt, curcnt, irr,
                     apic_ticks_count, fires, ncalls, us, waited, waits>>
  BY <1>0 DEF CalibrateCpu
<1>2. PICK d \in Window(TSC_HZ) :
        IF round + 1 = 10
        THEN /\ cpu_clock' = Min2(diff_min, d) * CAL_RES /\ diff_min' = -1
             /\ apc' = "bus_cal" /\ round' = 0
        ELSE /\ diff_min' = Min2(diff_min, d) /\ round' = round + 1
             /\ UNCHANGED <<apc, cpu_clock>>
  BY <1>0 DEF CalibrateCpu
<1>3. Min2(diff_min, d) \in Nat
  <2>1. d \in Nat
    BY WindowNat
  <2>. QED BY <2>1 DEF Min2, TypeOK
<1>4. TypeOK'
  <2>1. CASE round + 1 = 10
    <3>1. cpu_clock' \in Nat
      BY <1>2, <1>3, <2>1, Constants
    <3>. QED BY <1>1, <1>2, <2>1, <3>1 DEF TypeOK
  <2>2. CASE round + 1 # 10
    <3>1. round' \in 0 .. 9
      BY <1>2, <2>2 DEF TypeOK
    <3>. QED BY <1>1, <1>2, <1>3, <2>2, <3>1 DEF TypeOK
  <2>. QED BY <2>1, <2>2
<1>5. TicksMinBound' /\ ClockBound' /\ PollState' /\ UdelayAtLeast'
  BY <1>1, <1>2 DEF TicksMinBound, ClockBound, PollState, UdelayAtLeast
<1>6. RoundBound'
  BY <1>1, <1>2 DEF RoundBound
<1>. QED BY <1>4, <1>5, <1>6

(* The invariant survives a round of the bus calibration. *)
LEMMA CalibrateBusIInv == IInv /\ CalibrateBus => IInv'
<1> SUFFICES ASSUME IInv, CalibrateBus PROVE IInv'
  OBVIOUS
<1>0. CalibrateBus
  OBVIOUS
<1> USE APICTimerAssumption DEF IInv
<1>1. /\ apc = "bus_cal" /\ round \in 0 .. 4
      /\ UNCHANGED <<diff_min, cpu_clock, irr, apic_ticks_count, fires,
                     ncalls, us, waited, waits>>
  BY <1>0 DEF CalibrateBus, RoundBound, TypeOK
<1>2. PICK e \in Window(BUS_HZ) :
        /\ IF round + 1 = 5
           THEN /\ apic_clock' = Min2(ticks_min, e) * CAL_RES
                /\ ticks_min' = -1 /\ apc' = "idle" /\ round' = 0
                /\ lvtt' = LocalRegsInit
           ELSE /\ ticks_min' = Min2(ticks_min, e) /\ round' = round + 1
                /\ lvtt' = [lvtt EXCEPT !.mode = "oneshot", !.mask = TRUE]
                /\ UNCHANGED <<apc, apic_clock>>
        /\ initcnt' = FAR /\ curcnt' = FAR
  BY <1>0 DEF CalibrateBus
(* The round's minimum counts at least a whole window.                  *)
<1>3. Min2(ticks_min, e) \in Nat /\ Min2(ticks_min, e) >= Lo /\ Lo \in Nat
  <2>1. e \in Nat /\ e >= Lo /\ Lo \in Nat
    BY WindowNat DEF Lo
  <2>. QED BY <2>1 DEF Min2, TicksMinBound, TypeOK
<1>4. CASE round + 1 = 5
  <2>1. TypeOK'
    <3>1. lvtt' \in [mode : Modes, mask : BOOLEAN, vector : Vectors]
      <4>1. LocalRegsInit \in [mode : Modes, mask : BOOLEAN, vector : Vectors]
        BY EntriesTyped
      <4>. QED BY <4>1, <1>2, <1>4
    <3>2. apic_clock' \in Nat
      <4>1. Min2(ticks_min, e) * 200 \in Nat
        BY <1>3
      <4>. QED BY <4>1, <1>2, <1>4, Constants
    <3>3. /\ apc' = "idle" /\ round' = 0 /\ ticks_min' = -1
          /\ initcnt' = FAR /\ curcnt' = FAR
      BY <1>2, <1>4
    <3>. QED BY <1>1, <3>1, <3>2, <3>3 DEF TypeOK, FAR
  <2>2. ClockBound'
    BY <1>2, <1>3, <1>4, WindowScaled DEF ClockBound
  <2>3. TicksMinBound' /\ RoundBound' /\ PollState' /\ UdelayAtLeast'
    BY <1>1, <1>2, <1>4 DEF TicksMinBound, RoundBound, PollState, UdelayAtLeast
  <2>. QED BY <2>1, <2>2, <2>3
<1>5. CASE round + 1 # 5
  <2>1. TypeOK'
    <3>1. lvtt' \in [mode : Modes, mask : BOOLEAN, vector : Vectors]
      <4>1. lvtt \in [mode : Modes, mask : BOOLEAN, vector : Vectors]
        BY DEF TypeOK
      <4>2. lvtt' = [lvtt EXCEPT !.mode = "oneshot", !.mask = TRUE]
        BY <1>2, <1>5
      <4>. QED BY <4>1, <4>2, LvttOneshotMasked
    <3>2. round' \in 0 .. 9 /\ ticks_min' \in {-1} \cup Nat
      BY <1>1, <1>2, <1>3, <1>5
    <3>3. UNCHANGED <<apc, apic_clock>> /\ initcnt' = FAR /\ curcnt' = FAR
      BY <1>2, <1>5
    <3>. QED BY <1>1, <3>1, <3>2, <3>3 DEF TypeOK, FAR
  <2>2. TicksMinBound'
    BY <1>2, <1>3, <1>5 DEF TicksMinBound
  <2>3. RoundBound' /\ ClockBound' /\ PollState' /\ UdelayAtLeast'
    BY <1>1, <1>2, <1>5 DEF RoundBound, ClockBound, PollState, UdelayAtLeast
  <2>. QED BY <2>1, <2>2, <2>3
<1>. QED BY <1>4, <1>5

(* The invariant survives apic_udelay setting its counter. *)
LEMMA UdelayIInv == IInv /\ apic_udelay => IInv'
<1> SUFFICES ASSUME IInv, apic_udelay PROVE IInv'
  OBVIOUS
<1>0. apic_udelay
  OBVIOUS
<1> USE APICTimerAssumption DEF IInv
<1>1. PICK u \in Us :
        /\ SetCounterUs([mode |-> "oneshot", mask |-> TRUE, vector |-> "zero"],
                        u, "udelay")
        /\ us' = u /\ waited' = 0
  BY <1>0 DEF apic_udelay
<1>2. [mode |-> "oneshot", mask |-> TRUE, vector |-> "zero"]
        \in [mode : Modes, mask : BOOLEAN, vector : Vectors]
  BY EntriesTyped
<1>3. UNCHANGED <<round, diff_min, cpu_clock, ticks_min, apic_clock, irr,
                     apic_ticks_count, fires, waits>>
  BY <1>0 DEF apic_udelay
<1> HIDE DEF IInv
<1>. QED BY <1>1, <1>2, <1>3, SetCounterUsIInv, Zenon

(* The invariant survives the poll of apic_udelay returning. *)
LEMMA UdelayReturnIInv == IInv /\ UdelayReturn => IInv'
<1> SUFFICES ASSUME IInv, UdelayReturn PROVE IInv'
  OBVIOUS
<1>0. UdelayReturn
  OBVIOUS
<1> USE APICTimerAssumption DEF IInv
<1> DEFINE w == [us |-> us, clocks |-> waited]
<1>1. /\ apc = "udelay" /\ curcnt = 0 /\ apc' = "idle"
      /\ waits' = waits \cup {w}
      /\ UNCHANGED <<round, ticks_min, apic_clock, lvtt, curcnt, ncalls, us, waited>>
  BY <1>0 DEF UdelayReturn
<1>2. /\ us \in Us /\ us \in Nat /\ waited \in Nat /\ apic_clock \in Nat
      /\ CounterOK(apic_clock, us) /\ waited = CounterUs(apic_clock, us)
      /\ apic_clock + CAL_RES > BUS_HZ
  BY <1>1 DEF PollState, TypeOK, ClockBound
<1>3. w \in [us : Us, clocks : Nat]
  BY <1>2
<1>4. (w.clocks + 1) * USEC > (BUS_HZ - CAL_RES) * w.us
  BY <1>2, CalibratedCountLongEnough
<1>5. TypeOK'
  BY <1>0, <1>1, <1>3 DEF UdelayReturn, TypeOK
<1>6. UdelayAtLeast'
  BY <1>1, <1>4 DEF UdelayAtLeast
<1>7. TicksMinBound' /\ RoundBound' /\ ClockBound' /\ PollState'
  BY <1>1, <1>2 DEF TicksMinBound, RoundBound, ClockBound, PollState
<1>. QED BY <1>5, <1>6, <1>7

(* The invariant survives apic_monotonic. *)
LEMMA MonotonicIInv == IInv /\ apic_monotonic => IInv'
<1> SUFFICES ASSUME IInv, apic_monotonic PROVE IInv'
  OBVIOUS
<1>0. apic_monotonic
  OBVIOUS
<1> USE APICTimerAssumption DEF IInv
<1>1. PICK u \in Us :
        SetCounterUs([mode |-> "periodic", mask |-> FALSE, vector |-> "caller"],
                     u, "idle")
  BY <1>0 DEF apic_monotonic
<1>2. [mode |-> "periodic", mask |-> FALSE, vector |-> "caller"]
        \in [mode : Modes, mask : BOOLEAN, vector : Vectors]
  BY EntriesTyped
<1>3. UNCHANGED <<round, diff_min, cpu_clock, ticks_min, apic_clock, irr,
                     apic_ticks_count, fires, waits>>
      /\ UNCHANGED <<us, waited>>
  BY <1>0 DEF apic_monotonic
<1> HIDE DEF IInv
<1>. QED BY <1>1, <1>2, <1>3, SetCounterUsIInv, Zenon

(* The invariant survives init_apic_timer. *)
LEMMA InitTimerIInv == IInv /\ init_apic_timer => IInv'
<1> SUFFICES ASSUME IInv, init_apic_timer PROVE IInv'
  OBVIOUS
<1>0. init_apic_timer
  OBVIOUS
<1> USE APICTimerAssumption DEF IInv
<1>1. PICK u \in Us :
        SetCounterUs([mode |-> "periodic", mask |-> TRUE, vector |-> "caller"],
                     u, "idle")
  BY <1>0 DEF init_apic_timer
<1>2. [mode |-> "periodic", mask |-> TRUE, vector |-> "caller"]
        \in [mode : Modes, mask : BOOLEAN, vector : Vectors]
  BY EntriesTyped
<1>3. UNCHANGED <<round, diff_min, cpu_clock, ticks_min, apic_clock, irr,
                     apic_ticks_count, fires, waits>>
      /\ UNCHANGED <<us, waited>>
  BY <1>0 DEF init_apic_timer
<1> HIDE DEF IInv
<1>. QED BY <1>1, <1>2, <1>3, SetCounterUsIInv, Zenon

(* The invariant survives start_apic_timer. *)
LEMMA StartTimerIInv == IInv /\ start_apic_timer => IInv'
<1> SUFFICES ASSUME IInv, start_apic_timer PROVE IInv'
  OBVIOUS
<1>0. start_apic_timer
  OBVIOUS
<1> USE APICTimerAssumption
<1>1. SetMask(FALSE)
  BY <1>0 DEF start_apic_timer
<1>. QED BY <1>1, SetMaskIInv, Zenon

(* The invariant survives stop_apic_timer. *)
LEMMA StopTimerIInv == IInv /\ stop_apic_timer => IInv'
<1> SUFFICES ASSUME IInv, stop_apic_timer PROVE IInv'
  OBVIOUS
<1>0. stop_apic_timer
  OBVIOUS
<1> USE APICTimerAssumption
<1>1. SetMask(TRUE)
  BY <1>0 DEF stop_apic_timer
<1>. QED BY <1>1, SetMaskIInv, Zenon

(* The invariant survives a bus clock. *)
LEMMA TickIInv == IInv /\ Tick => IInv'
<1> SUFFICES ASSUME IInv, Tick PROVE IInv'
  OBVIOUS
<1>0. Tick
  OBVIOUS
<1> USE APICTimerAssumption DEF IInv
<1>1. /\ curcnt \in Nat /\ curcnt > 0
      /\ UNCHANGED <<apc, round, ticks_min, apic_clock, lvtt, initcnt, us, waits>>
  BY <1>0 DEF Tick, TypeOK, FAR
<1>2. TypeOK'
  <2>1. irr' \in BOOLEAN
    <3>1. irr' = (irr \/ (curcnt = 1 /\ ~lvtt.mask))
      BY <1>0 DEF Tick
    <3>. QED BY <3>1
  <2>2. curcnt' \in {FAR} \cup Nat /\ fires' \in 0 .. MAX_FIRES
        /\ waited' \in Nat
    BY <1>0, <1>1 DEF Tick, TypeOK
  <2>. QED BY <1>0, <1>1, <2>1, <2>2 DEF Tick, TypeOK
<1>3. PollState'
  <2>1. SUFFICES ASSUME apc = "udelay" PROVE PollState'
    BY <1>1 DEF PollState
  <2>2. /\ lvtt.mode = "oneshot" /\ waited + curcnt = CounterUs(apic_clock, us)
        /\ waited \in Nat
    BY <2>1 DEF PollState, TypeOK
  <2>3. curcnt' = curcnt - 1 /\ waited' = waited + 1
    BY <1>0, <2>1, <2>2 DEF Tick
  <2>. QED BY <1>1, <2>1, <2>2, <2>3 DEF PollState
<1>4. TicksMinBound' /\ RoundBound' /\ ClockBound' /\ UdelayAtLeast'
  BY <1>1 DEF TicksMinBound, RoundBound, ClockBound, UdelayAtLeast
<1>. QED BY <1>2, <1>3, <1>4

(* The invariant survives the timer interrupt handler. *)
LEMMA HandlerIInv == IInv /\ apic_timer_handler => IInv'
<1> SUFFICES ASSUME IInv, apic_timer_handler PROVE IInv'
  OBVIOUS
<1>0. apic_timer_handler
  OBVIOUS
<1> USE APICTimerAssumption DEF IInv
<1>1. TypeOK'
  <2>1. /\ irr' = FALSE /\ apic_ticks_count' = apic_ticks_count + 1
        /\ UNCHANGED <<apc, round, diff_min, cpu_clock, ticks_min, apic_clock,
                       lvtt, initcnt, curcnt, fires, ncalls, us, waited, waits>>
    BY <1>0 DEF apic_timer_handler
  <2>2. /\ lvtt' \in [mode : Modes, mask : BOOLEAN, vector : Vectors]
        /\ waits' \subseteq [us : Us, clocks : Nat] /\ irr' \in BOOLEAN
    BY <2>1, Zenon DEF TypeOK
  <2>3. apic_ticks_count' \in Nat
    BY <2>1 DEF TypeOK
  <2>. QED BY <2>1, <2>2, <2>3 DEF TypeOK
<1>2. TicksMinBound' /\ RoundBound' /\ ClockBound' /\ PollState'
      /\ UdelayAtLeast'
  BY <1>0 DEF apic_timer_handler, TicksMinBound, RoundBound, ClockBound,
               PollState, UdelayAtLeast
<1>. QED BY <1>1, <1>2

(* The invariant survives a step that changes no variable. *)
LEMMA StutterIInv == IInv /\ UNCHANGED vars => IInv'
<1> SUFFICES ASSUME IInv, UNCHANGED vars PROVE IInv'
  OBVIOUS
<1>1. TypeOK'
  <2>1. lvtt' \in [mode : Modes, mask : BOOLEAN, vector : Vectors]
        /\ waits' \subseteq [us : Us, clocks : Nat] /\ irr' \in BOOLEAN
    BY Zenon DEF IInv, TypeOK, vars
  <2>. QED BY <2>1 DEF IInv, TypeOK, vars
<1>2. TicksMinBound' /\ RoundBound' /\ ClockBound' /\ PollState'
      /\ UdelayAtLeast'
  BY DEF IInv, vars, TicksMinBound, RoundBound, ClockBound, PollState,
         UdelayAtLeast
<1>. QED BY <1>1, <1>2 DEF IInv

LEMMA NextIInv == IInv /\ [Next]_vars => IInv'
<1> SUFFICES ASSUME IInv, [Next]_vars PROVE IInv'
  OBVIOUS
<1>1. CASE CalibrateCpu
  BY <1>1, CalibrateCpuIInv
<1>2. CASE CalibrateBus
  BY <1>2, CalibrateBusIInv
<1>3. CASE apic_udelay
  BY <1>3, UdelayIInv
<1>4. CASE UdelayReturn
  BY <1>4, UdelayReturnIInv
<1>5. CASE apic_monotonic
  BY <1>5, MonotonicIInv
<1>6. CASE init_apic_timer
  BY <1>6, InitTimerIInv
<1>7. CASE start_apic_timer
  BY <1>7, StartTimerIInv
<1>8. CASE stop_apic_timer
  BY <1>8, StopTimerIInv
<1>9. CASE Tick
  BY <1>9, TickIInv
<1>10. CASE apic_timer_handler
  BY <1>10, HandlerIInv
<1>11. CASE UNCHANGED vars
  BY <1>11, StutterIInv
<1>. QED BY <1>1, <1>2, <1>3, <1>4, <1>5, <1>6, <1>7, <1>8, <1>9, <1>10, <1>11 DEF Next

LEMMA IInvInvariant == Spec => []IInv
BY InitIInv, NextIInv, PTL DEF Spec

(* Every apic_udelay(us) that has returned waited at least us microseconds *)
(* of the real bus clock, short by at most one clock and the 200 Hz       *)
(* resolution of the calibration, for every bus and TSC rate, SMI stretch *)
(* of the PIT windows and argument.                                        *)
THEOREM UdelayAtLeastHolds == Spec => []UdelayAtLeast
<1>1. IInv => UdelayAtLeast
  BY DEF IInv
<1>. QED BY <1>1, IInvInvariant, PTL

(* Every variable of the timer keeps its type in every reachable state.  *)
THEOREM TypeCorrect == Spec => []TypeOK
<1>1. IInv => TypeOK
  BY DEF IInv
<1>. QED BY <1>1, IInvInvariant, PTL
================================================================================
