------------------------------ MODULE Keyboard ------------------------------
(***************************************************************************)
(* The PS/2 keyboard driver of src/unnamed/part_006 (drivers/misc/         *)
(* keyboard.c) with the interrupt path it depends on: the i8042 output     *)
(* buffer, its edge-triggered IRQ1 line, the I/O APIC entry routing it,    *)
(* and the IRR bit of the boot CPU's local APIC.                          *)
(*                                                                         *)
(* The i8042 semantics are those of the comment of lines 310-349: a       *)
(* scancode arriving in an empty buffer raises an edge on IRQ1, and so    *)
(* does a read that leaves the buffer non-empty; an edge reaching a       *)
(* masked I/O APIC entry is lost, one reaching an unmasked entry sets the  *)
(* IRR bit, which stays set until the CPU takes the interrupt.           *)
(***************************************************************************)
EXTENDS Naturals, Sequences

CONSTANTS
    BUF_SIZE,      \* i8042 output buffer size (16 on standard controllers)
    FLUSH_TRIALS,  \* `trials` of kbd_flush_buffer (128)
    MAX_KEYS       \* number of scancodes the user types in a behaviour

ASSUME KeyboardAssumption ==
    /\ BUF_SIZE \in Nat \ {0}
    /\ FLUSH_TRIALS \in Nat \ {0}
    /\ MAX_KEYS \in Nat

KEY_LSHIFT == 42               \* 0x2a
KEY_RSHIFT == 54               \* 0x36
KEY_NONE   == 255              \* 0xff
RELEASE(code) == code + 128    \* code | 0x80, for codes below 0x80

(* The scancodes typed: a letter ('a', 0x1e) and the left shift key.      *)
Codes == {30, KEY_LSHIFT, RELEASE(KEY_LSHIFT)}

VARIABLES
    buf,      \* the i8042 output buffer, oldest scancode first
    masked,   \* the I/O APIC redirection entry of ISA IRQ 1 is masked
    irr,      \* the keyboard vector's bit in the local APIC IRR
    intr,     \* the boot CPU's IF flag
    kpc,      \* program location of keyboard_init
    trials,   \* `trials` of kbd_flush_buffer
    shifted,  \* `shifted`
    typed     \* scancodes typed so far

vars == <<buf, masked, irr, intr, kpc, trials, shifted, typed>>

-----------------------------------------------------------------------------
(* An edge on IRQ1 sets the IRR bit unless the I/O APIC entry is masked.  *)
Edge(raised) == irr' = (irr \/ (raised /\ ~masked))

(* kbd_read_input (lines 232-243): the oldest scancode if the status      *)
(* register says output is ready, KEY_NONE otherwise.  Reading leaves the *)
(* rest of the buffer, and a non-empty rest raises a new edge.            *)
ReadInput == IF buf = <<>> THEN KEY_NONE ELSE Head(buf)

Consume ==
    /\ buf' = IF buf = <<>> THEN buf ELSE Tail(buf)
    /\ Edge(Len(buf) > 1)

(* The shift tracking of __kb_handler (lines 279-289).                   *)
Shift(code) ==
    IF code \in {KEY_LSHIFT, KEY_RSHIFT} THEN 1
    ELSE IF code \in {RELEASE(KEY_LSHIFT), RELEASE(KEY_RSHIFT)} THEN 0
    ELSE shifted

-----------------------------------------------------------------------------
(* Boot: keys may already have been pressed, the entry was masked by     *)
(* ioapic_init, and interrupts are off.                                  *)
Init ==
    /\ buf = <<>>
    /\ masked = TRUE
    /\ irr = FALSE
    /\ intr = FALSE
    /\ kpc = "setup"
    /\ trials = FLUSH_TRIALS
    /\ shifted = 0
    /\ typed = 0

(* The user types a scancode; the controller buffers it if there is room. *)
KeyPress ==
    /\ typed < MAX_KEYS
    /\ typed' = typed + 1
    /\ \E code \in Codes :
         IF Len(buf) < BUF_SIZE
         THEN buf' = Append(buf, code) /\ Edge(buf = <<>>)
         ELSE UNCHANGED <<buf, irr>>
    /\ UNCHANGED <<masked, intr, kpc, trials, shifted>>

(* Mutant of KeyboardSetup: keyboard_init without the flush of line 350. *)
KeyboardSetup_noflush ==
    /\ kpc = "setup"
    /\ masked' = FALSE
    /\ kpc' = "done"
    /\ UNCHANGED <<buf, irr, intr, trials, shifted, typed>>

(* keyboard_init, lines 306-308: the IDT gate is set and IRQ1 is routed  *)
(* and unmasked by ioapic_setup_isairq.                                   *)
KeyboardSetup ==
    /\ kpc = "setup"
    /\ masked' = FALSE
    /\ kpc' = "flush"
    /\ UNCHANGED <<buf, irr, intr, trials, shifted, typed>>

(* Mutant of FlushStep: one iteration too many.                          *)
FlushStep_extra ==
    /\ kpc = "flush"
    /\ trials' = trials - 1
    /\ Consume
    /\ kpc' = IF ReadInput = KEY_NONE \/ trials = 0 THEN "done" ELSE "flush"
    /\ UNCHANGED <<masked, intr, shifted, typed>>

(* One iteration of kbd_flush_buffer (lines 250-261), called at line 350: *)
(* read; stop on KEY_NONE or when the trials run out.                     *)
FlushStep ==
    /\ kpc = "flush"
    /\ trials' = trials - 1
    /\ Consume
    /\ kpc' = IF ReadInput = KEY_NONE \/ trials = 1 THEN "done" ELSE "flush"
    /\ UNCHANGED <<masked, intr, shifted, typed>>

(* The kernel enables interrupts once it is initialised.                  *)
EnableIrqs ==
    /\ kpc = "done"
    /\ ~intr
    /\ intr' = TRUE
    /\ UNCHANGED <<buf, masked, irr, kpc, trials, shifted, typed>>

(* The CPU takes IRQ1 and runs __kb_handler (lines 269-300): the read     *)
(* acknowledges the IRQ; a KEY_NONE or a code beyond the table is         *)
(* dropped after the shift tracking.                                     *)
kb_handler ==
    /\ intr
    /\ irr
    /\ buf' = IF buf = <<>> THEN buf ELSE Tail(buf)
    /\ irr' = (Len(buf) > 1 /\ ~masked)     \* taken, then the read's edge
    /\ shifted' = Shift(ReadInput)
    /\ UNCHANGED <<masked, intr, kpc, trials, typed>>

Next ==
    \/ KeyPress
    \/ KeyboardSetup
    \/ FlushStep
    \/ EnableIrqs
    \/ kb_handler

Spec == Init /\ [][Next]_vars

(* keyboard_init runs to its end, the kernel enables interrupts, and a   *)
(* pending interrupt is eventually taken.  The user is under no          *)
(* obligation to type.                                                    *)
FairSpec ==
    /\ Spec
    /\ WF_vars(KeyboardSetup) /\ WF_vars(FlushStep) /\ WF_vars(EnableIrqs)
    /\ WF_vars(kb_handler)

-----------------------------------------------------------------------------
TypeOK ==
    /\ buf \in Seq(Codes)
    /\ Len(buf) <= BUF_SIZE
    /\ masked \in BOOLEAN
    /\ irr \in BOOLEAN
    /\ intr \in BOOLEAN
    /\ kpc \in {"setup", "flush", "done"}
    /\ trials \in 0 .. FLUSH_TRIALS
    /\ shifted \in {0, 1}
    /\ typed \in 0 .. MAX_KEYS

(* The race the comment of lines 310-349 is about: whatever the timing   *)
(* of key presses around keyboard_init, a scancode left in the buffer is *)
(* eventually read, so keypresses never stop being detected.             *)
KeysEventuallyRead ==
    (buf # <<>>) ~> (buf = <<>>)

=============================================================================
