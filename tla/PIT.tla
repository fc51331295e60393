-------------------------------- MODULE PIT ---------------------------------
(***************************************************************************)
(* The i8253/i8254 PIT driver of src/unnamed/part_004 (pit.c): pit_mdelay, *)
(* pit_oneshot, init_timer, start_timer and stop_timer, with              *)
(* timer2_start, timer2_stop, pit_set_counter and __pit_periodic_handler.  *)
(* A caller makes up to MAXCALLS calls, one after the other; each call is  *)
(* the sequence of its port accesses, one per step, and the PIT's clock    *)
(* ticks between any two of them.                                          *)
(*                                                                         *)
(* The PIT itself (the environment) is modelled from the 82C54 datasheet   *)
(* the file's header cites, for counters 0 and 2 in the modes the driver   *)
(* and the BIOS use: a control word resets the counter and its OUT pin and *)
(* makes it wait for a new count; a count written LSB then MSB is loaded   *)
(* on the next clock, which does not decrement it; mode 0 raises OUT when  *)
(* the count runs out, modes 2 and 3 reload it and give IRQ 0 an edge.     *)
(* GATE-0 is always high, GATE-2 is bit 0 of port 0x61, OUT-2 is bit 5.    *)
(***************************************************************************)
EXTENDS Integers, Sequences, Bitwise

CONSTANTS
    Us,          \* the microsecond arguments callers pass
    BIOS_COUNT,  \* counter 0's count as the BIOS leaves it (scaled down)
    MAXCALLS,    \* calls the caller makes
    CAP          \* the bound of the clock and edge counters

PIT_CLOCK_RATE == 1193182
USEC == 1000 * 1000
UINT16_MAX == 65535

\* Port 0x61 bits and the PIT's ports.
PIT_GATE2 == 1
PIT_SPEAKER == 2
PIT_OUT2 == 32
PIT_COUNTER0 == 64
PIT_COUNTER2 == 66

\* The modes and the read/write field of the control word.
MODE_0 == 0
MODE_2 == 2
RW_16bit == 3

ASSUME PITAssumption ==
    /\ Us \subseteq Nat /\ BIOS_COUNT \in 2 .. UINT16_MAX
    /\ MAXCALLS \in Nat /\ CAP \in Nat \ {0}

NONE == -1

(* union pit_cmd (lines 118-126): bcd in bit 0, mode in bits 1-3, rw in   *)
(* bits 4-5 and timer in bits 6-7 of the byte written to PIT_CONTROL.      *)
CmdRaw(timer, mode) == mode * 2 + RW_16bit * 16 + timer * 64

\* The counter a data port addresses.
CounterOf(port) == port - PIT_COUNTER0

(* pit_set_counter's count (line 209), in 32-bit unsigned arithmetic.    *)
Counter(us) == PIT_CLOCK_RATE \div (USEC \div us)

(* pit_set_counter's assertions (lines 206-212).                         *)
CounterOK(us) == us > 0 /\ USEC \div us > 0 /\ Counter(us) <= UINT16_MAX

(* The port accesses of each call, in order: outb to port 0x61, to       *)
(* PIT_CONTROL or to a counter port, the assertions, the monotonic-mode   *)
(* check, and the poll of OUT-2.                                           *)
Timer2Stop  == [k |-> "stop2"]
Timer2Start == [k |-> "start2"]
Cmd(timer, mode, mono) == [k |-> "cmd", raw |-> CmdRaw(timer, mode), mono |-> mono]
SetCounter(us, port) ==
    << [k |-> "check", us |-> us],
       [k |-> "byte", port |-> port, us |-> us, high |-> FALSE],
       [k |-> "byte", port |-> port, us |-> us, high |-> TRUE] >>

(* counter_low and counter_high (lines 213-214), bytes of the count.     *)
CounterByte(us, high) ==
    IF high THEN (Counter(us) \div 256) % 256 ELSE Counter(us) % 256
PollOut2    == [k |-> "poll"]
MonoCheck   == [k |-> "mono"]

Funcs == {"pit_mdelay", "pit_oneshot", "init_timer", "start_timer", "stop_timer"}

\* Mutant: start_timer selecting mode 1, one below MODE_2.
Program_mode1(f, us) ==
    CASE f = "pit_mdelay"  -> << Timer2Stop, Cmd(2, MODE_0, FALSE) >>
                              \o SetCounter(us, PIT_COUNTER2) \o << Timer2Start, PollOut2 >>
      [] f = "pit_oneshot" -> << MonoCheck, Cmd(0, MODE_0, FALSE) >> \o SetCounter(us, PIT_COUNTER0)
      [] f = "init_timer"  -> SetCounter(us, PIT_COUNTER0)
      [] f = "start_timer" -> << Cmd(0, MODE_2 - 1, TRUE) >>
      [] f = "stop_timer"  -> << Cmd(0, MODE_0, FALSE) >>

\* Mutant: pit_mdelay without its control word.
Program_nocmd(f, us) ==
    CASE f = "pit_mdelay"  -> << Timer2Stop >>
                              \o SetCounter(us, PIT_COUNTER2) \o << Timer2Start, PollOut2 >>
      [] f = "pit_oneshot" -> << MonoCheck, Cmd(0, MODE_0, FALSE) >> \o SetCounter(us, PIT_COUNTER0)
      [] f = "init_timer"  -> SetCounter(us, PIT_COUNTER0)
      [] f = "start_timer" -> << Cmd(0, MODE_2, TRUE) >>
      [] f = "stop_timer"  -> << Cmd(0, MODE_0, FALSE) >>

(* The port accesses of pit_mdelay (lines 228-249), pit_oneshot (lines    *)
(* 254-272), init_timer (lines 274-277), start_timer (lines 279-292) and  *)
(* stop_timer (lines 294-303).                                             *)
Program(f, us) ==
    CASE f = "pit_mdelay"  -> << Timer2Stop, Cmd(2, MODE_0, FALSE) >>
                              \o SetCounter(us, PIT_COUNTER2) \o << Timer2Start, PollOut2 >>
      [] f = "pit_oneshot" -> << MonoCheck, Cmd(0, MODE_0, FALSE) >> \o SetCounter(us, PIT_COUNTER0)
      [] f = "init_timer"  -> SetCounter(us, PIT_COUNTER0)
      [] f = "start_timer" -> << Cmd(0, MODE_2, TRUE) >>
      [] f = "stop_timer"  -> << Cmd(0, MODE_0, FALSE) >>

-----------------------------------------------------------------------------
(* A counter of the PIT: its mode, whether the next data byte is the LSB, *)
(* the LSB written, the count register, a count waiting to be loaded,     *)
(* whether it counts, the counting element and OUT.  The BIOS's mode 3    *)
(* (square wave) is kept at the precision the driver sees: OUT changes at *)
(* each reload.                                                            *)
Ctr == [mode : {0, 2, 3}, lsbnext : BOOLEAN, lsb : 0 .. 255, init : 0 .. UINT16_MAX,
        pending : BOOLEAN, armed : BOOLEAN, ce : 0 .. UINT16_MAX, out : BOOLEAN]

\* A control word: the counter is reset and waits for a new count.
CtlWrite(r, mode) ==
    [r EXCEPT !.mode = mode, !.lsbnext = TRUE, !.pending = FALSE, !.armed = FALSE,
              !.out = (mode # 0)]

\* A data byte: the LSB, then the MSB, which makes the count pending.
ByteWrite(r, b) ==
    IF r.lsbnext
    THEN [r EXCEPT !.lsbnext = FALSE, !.lsb = b,
                   !.armed = IF r.mode = 0 THEN FALSE ELSE @,
                   !.out = IF r.mode = 0 THEN FALSE ELSE @]
    ELSE [r EXCEPT !.lsbnext = TRUE, !.init = r.lsb + 256 * b, !.pending = TRUE,
                   !.out = IF r.mode = 0 THEN FALSE ELSE @]

\* One clock with the gate up or down.
ClockCtr(r, gate) ==
    CASE r.pending                   -> [r EXCEPT !.ce = r.init, !.pending = FALSE, !.armed = TRUE]
      [] ~r.armed \/ ~gate           -> r
      [] r.mode = 0 /\ r.ce = 0      -> r
      [] r.mode = 0                  -> [r EXCEPT !.ce = @ - 1, !.out = (r.ce = 1)]
      [] r.ce = 1                    -> [r EXCEPT !.ce = r.init,
                                             !.out = IF r.mode = 3 THEN ~@ ELSE @]
      [] OTHER                       -> [r EXCEPT !.ce = @ - 1]

(* The clock that reloads a periodic counter gives its OUT pin a rising  *)
(* edge: every reload in mode 2, every other one in mode 3.                *)
Edge(r, gate) ==
    /\ ~r.pending /\ r.armed /\ gate /\ r.mode # 0 /\ r.ce = 1
    /\ r.mode = 3 => ~r.out

-----------------------------------------------------------------------------
VARIABLES
    ctr,       \* counters 0 and 2
    p61,       \* the writable bits of port 0x61 (0-3)
    mono,      \* timer0_monotonic
    ticks,     \* pit_ticks_count
    pc,        \* "idle", "run", "panic" or "assert"
    call,      \* the call running, [f, us]
    prog,      \* its port accesses still to do
    ncalls,    \* calls made
    hist,      \* the calls made, in order
    el2,       \* clocks since GATE-2 last went up
    irq0,      \* the last step gave IRQ 0 an edge
    waits      \* for each pit_mdelay returned: [us, clocks]

vars == <<ctr, p61, mono, ticks, pc, call, prog, ncalls, hist, el2, irq0, waits>>

Gate(c) == c = 0 \/ p61 % 2 = 1

\* inb(0x61): the written bits and OUT-2 in bit 5.
Inb61 == p61 + (IF ctr[2].out THEN PIT_OUT2 ELSE 0)

BiosCtr0 == [mode |-> 3, lsbnext |-> TRUE, lsb |-> 0, init |-> BIOS_COUNT,
             pending |-> FALSE, armed |-> TRUE, ce |-> BIOS_COUNT, out |-> TRUE]
BiosCtr2 == {[mode |-> m, lsbnext |-> TRUE, lsb |-> 0, init |-> 2, pending |-> FALSE,
              armed |-> TRUE, ce |-> e, out |-> o] :
               <<m, e, o>> \in {<<0, 0, TRUE>>, <<0, 2, FALSE>>, <<3, 2, TRUE>>, <<3, 1, FALSE>>}}

(* The BIOS leaves counter 0 in mode 3 with its count running, counter 2   *)
(* in any state and port 0x61 with any low bits.                           *)
Init ==
    /\ \E r2 \in BiosCtr2 :
         ctr = [c \in {0, 2} |-> IF c = 0 THEN BiosCtr0 ELSE r2]
    /\ p61 \in {0, 1, 2}
    /\ mono = FALSE
    /\ ticks = 0
    /\ pc = "idle" /\ call = [f |-> "none", us |-> 0] /\ prog = <<>>
    /\ ncalls = 0 /\ hist = <<>>
    /\ el2 = 0 /\ irq0 = FALSE /\ waits = {}

(* The oscillator: both counters see the clock.  An edge on OUT-0 runs    *)
(* __pit_periodic_handler (lines 158-161).                                 *)
Clk ==
    /\ ctr' = [c \in {0, 2} |-> ClockCtr(ctr[c], Gate(c))]
    /\ irq0' = Edge(ctr[0], TRUE)
    /\ ticks' = IF Edge(ctr[0], TRUE) /\ ticks < CAP THEN ticks + 1 ELSE ticks
    /\ el2' = IF Gate(2) THEN IF el2 < CAP THEN el2 + 1 ELSE el2 ELSE el2
    /\ UNCHANGED <<p61, mono, pc, call, prog, ncalls, hist, waits>>

\* The caller makes its next call.
Call ==
    /\ pc = "idle" /\ ncalls < MAXCALLS
    /\ \E f \in Funcs, us \in Us :
         /\ call' = [f |-> f, us |-> us]
         /\ prog' = Program(f, us)
         /\ hist' = Append(hist, f)
    /\ pc' = "run" /\ ncalls' = ncalls + 1
    /\ UNCHANGED <<ctr, p61, mono, ticks, el2, waits>>
    /\ irq0' = FALSE

\* The driver's own steps leave the PIT's outputs and the clock alone.
Step(hd) == prog # <<>> /\ pc = "run" /\ Head(prog).k = hd
DriverFrame == UNCHANGED <<ticks, call, ncalls, hist>> /\ irq0' = FALSE

(* timer2_stop (lines 178-184): GATE-2 cleared.                          *)
timer2_stop ==
    /\ Step("stop2")
    /\ p61' = (Inb61 & (255 - PIT_GATE2)) % 16
    /\ prog' = Tail(prog)
    /\ UNCHANGED <<ctr, mono, pc, el2, waits>> /\ DriverFrame

\* Mutant: timer2_start writing GATE-2 cleared, as timer2_stop does.
timer2_start_cleared ==
    /\ Step("start2")
    /\ p61' = ((Inb61 & (255 - PIT_GATE2)) & (255 - PIT_SPEAKER)) % 16
    /\ el2' = 0
    /\ prog' = Tail(prog)
    /\ UNCHANGED <<ctr, mono, pc, waits>> /\ DriverFrame

(* timer2_start (lines 167-173): GATE-2 raised, the speaker disabled.     *)
timer2_start ==
    /\ Step("start2")
    /\ p61' = ((Inb61 | PIT_GATE2) & (255 - PIT_SPEAKER)) % 16
    /\ el2' = 0
    /\ prog' = Tail(prog)
    /\ UNCHANGED <<ctr, mono, pc, waits>> /\ DriverFrame

(* outb(cmd.raw, PIT_CONTROL) (lines 239, 269, 290, 302), with            *)
(* start_timer's `timer0_monotonic = true' of line 284 before it.          *)
WriteControl ==
    /\ Step("cmd")
    /\ LET raw == Head(prog).raw
           c   == raw \div 64
       IN  ctr' = [ctr EXCEPT ![c] = CtlWrite(@, (raw \div 2) % 8)]
    /\ mono' = (mono \/ Head(prog).mono)
    /\ prog' = Tail(prog)
    /\ UNCHANGED <<p61, pc, el2, waits>> /\ DriverFrame

(* pit_set_counter's assertions (lines 206-212): a failed assert stops.  *)
CheckCounter ==
    /\ Step("check")
    /\ IF CounterOK(Head(prog).us)
       THEN prog' = Tail(prog) /\ UNCHANGED pc
       ELSE pc' = "assert" /\ prog' = <<>>
    /\ UNCHANGED <<ctr, p61, mono, el2, waits>> /\ DriverFrame

(* outb(counter_low / counter_high, counter_reg) (lines 213-217).         *)
WriteByte ==
    /\ Step("byte")
    /\ LET c == CounterOf(Head(prog).port)
       IN  ctr' = [ctr EXCEPT ![c] = ByteWrite(@, CounterByte(Head(prog).us, Head(prog).high))]
    /\ prog' = Tail(prog)
    /\ UNCHANGED <<p61, mono, pc, el2, waits>> /\ DriverFrame

(* pit_oneshot's check (lines 260-263): panic in monotonic mode.          *)
CheckMonotonic ==
    /\ Step("mono")
    /\ IF mono THEN pc' = "panic" /\ prog' = <<>>
               ELSE prog' = Tail(prog) /\ UNCHANGED pc
    /\ UNCHANGED <<ctr, p61, mono, el2, waits>> /\ DriverFrame

(* pit_mdelay's loop (lines 246-248) ends on reading OUT-2 high; a read   *)
(* of it low changes nothing.                                              *)
Poll ==
    /\ Step("poll")
    /\ Inb61 & PIT_OUT2 # 0
    /\ prog' = Tail(prog)
    /\ waits' = waits \cup {[us |-> call.us, clocks |-> el2]}
    /\ UNCHANGED <<ctr, p61, mono, pc, el2>> /\ DriverFrame

\* The call returns.
Return ==
    /\ pc = "run" /\ prog = <<>>
    /\ pc' = "idle"
    /\ UNCHANGED <<ctr, p61, mono, prog, el2, waits>> /\ DriverFrame

Driver ==
    \/ timer2_stop \/ timer2_start \/ WriteControl \/ CheckCounter
    \/ WriteByte \/ CheckMonotonic \/ Poll \/ Return

Next == Clk \/ Call \/ Driver

(* The oscillator never stops, and the CPU runs the call it is in.  The   *)
(* caller is not obliged to make another call.                             *)
Spec == Init /\ [][Next]_vars /\ WF_vars(Clk) /\ WF_vars(Driver)

-----------------------------------------------------------------------------
TypeOK ==
    /\ ctr \in [{0, 2} -> Ctr]
    /\ p61 \in 0 .. 15
    /\ mono \in BOOLEAN /\ ticks \in 0 .. CAP
    /\ pc \in {"idle", "run", "panic", "assert"}
    /\ ncalls \in 0 .. MAXCALLS /\ hist \in Seq(Funcs)
    /\ el2 \in 0 .. CAP /\ irq0 \in BOOLEAN
    /\ waits \subseteq [us : Us, clocks : 0 .. CAP]

(* pit_mdelay returns only after counter 2 has counted the whole count    *)
(* pit_set_counter gave it, with GATE-2 up: OUT-2 high from the BIOS or   *)
(* from an earlier delay must not end the wait early, nor may the count   *)
(* start before the gate goes up.                                          *)
DelayFull ==
    \A w \in waits : w.clocks >= Counter(w.us)

(* Every call returns or stops the kernel: pit_mdelay's busy-wait on      *)
(* OUT-2 ends, because the count reaches GATE-2 and the gate goes up.      *)
CallsReturn ==
    pc = "run" ~> pc # "run"

(* pit_oneshot panics (lines 260-263) only when counter 0 really is in    *)
(* the monotonic mode start_timer set up, as its message says.            *)
OneshotPanicsOnlyWhenPeriodic ==
    pc = "panic" => ctr[0].mode = MODE_2

\* The caller's last two calls were init_timer and start_timer.
Configured ==
    /\ pc = "idle" /\ ncalls = MAXCALLS /\ Len(hist) >= 2
    /\ {hist[Len(hist) - 1], hist[Len(hist)]} = {"init_timer", "start_timer"}

(* Once a caller has set the tick with init_timer and started the timer   *)
(* with start_timer, IRQ 0 fires: the periodic callback the scheduler's   *)
(* preemption relies on.                                                   *)
TimerTicks ==
    [](Configured => <>irq0)

=============================================================================
