------------------------------- MODULE IOAPIC -------------------------------
(***************************************************************************)
(* I/O APIC set-up of src/unnamed/part_001 (arch/x86_64/ioapic.c) with    *)
(* the register accessors of src/include/x86/ioapic.h.                    *)
(*                                                                         *)
(* The MP-table data ioapic.c reads (the I/O APIC ids of ioapic_descs and *)
(* the interrupt entries mp_irqs) are constants.  The chips are state:    *)
(* each has an APIC id, which the BIOS may have left different from the   *)
(* MP tables, and a redirection table the BIOS left in any state.  A      *)
(* redirection entry is abstracted to its delivery mode, mask bit and     *)
(* vector.  ioapic_init and ioapic_setup_isairq each run as one step: the *)
(* boot core runs them alone, with interrupts not yet enabled.           *)
(***************************************************************************)
EXTENDS Integers, Sequences

CONSTANTS
    NR_IOAPICS,   \* nr_ioapics, as parsed from the MP tables
    MAX_IRQ,      \* the max_irq field of each chip's version register
    DescId,       \* DescId[a]: ioapic_descs[a].id, from the MP tables
    OtherId,      \* an APIC id the BIOS may have left in a chip
    MPIrqs,       \* the sets of mp_irqs[] tables a BIOS may provide
    ISA_BUSID,    \* mp_isa_busid
    Setups,       \* the ISA IRQs drivers route, with their vectors
    Vectors       \* the vectors drivers use

Apics == 0 .. NR_IOAPICS - 1
Pins  == 0 .. MAX_IRQ
Modes == {"fixed", "extint"}

\* struct mpc_irq, abstracted to the fields ioapic_isa_pin reads.
MPIrq == [type : {"INT", "ExtINT"}, busid : Nat, busirq : Nat,
          dstid : Nat, dstpin : Nat]

ASSUME IOAPICAssumption ==
    /\ NR_IOAPICS \in 1 .. 8              \* IOAPICS_MAX
    /\ MAX_IRQ \in 0 .. 119               \* 0x10 + 2 * irq + 1 fits a uint8_t
    /\ DescId \in [Apics -> Nat]
    /\ OtherId \in Nat
    /\ MPIrqs \subseteq Seq(MPIrq)
    /\ ISA_BUSID \in Nat                  \* assert(mp_isa_busid != -1)
    /\ Setups \subseteq (Nat \X Vectors)
    /\ 0 \notin Vectors

Entry == [mode : Modes, mask : BOOLEAN, vector : {0} \cup Vectors]

\* struct ioapic_pin; apic = -1 is "not found".
NoPin == [apic |-> -1, pin |-> -1]

VARIABLES
    mpIrqs,    \* mp_irqs[0 .. nr_mpcirqs - 1]
    chipId,    \* chipId[a]: the id register of I/O APIC a
    red,       \* red[a][p]: redirection entry p of I/O APIC a
    maxIrq,    \* maxIrq[a]: ioapic_descs[a].max_irq
    i8259Pin,  \* i8259_pin
    stray,     \* the (apic, pin) targets of writes outside every table
    written,   \* the entries ioapic_setup_isairq programmed
    pc,        \* "boot", then "ready" after ioapic_init
    bios       \* history: the redirection tables as the BIOS left them

vars == <<mpIrqs, chipId, red, maxIrq, i8259Pin, stray, written, pc, bios>>

-----------------------------------------------------------------------------
(* The first entry p <= max_irq of the lowest numbered I/O APIC that the   *)
(* BIOS set unmasked with delivery mode ExtINT (lines 51-78).            *)
Get8259APin(r, mx) ==
    LET found == {x \in Apics \X Pins :
                     /\ x[2] <= mx[x[1]]
                     /\ r[x[1]][x[2]].mode = "extint" /\ ~r[x[1]][x[2]].mask}
        first == CHOOSE x \in found :
                     \A y \in found : x[1] < y[1] \/ (x[1] = y[1] /\ x[2] <= y[2])
    IN  IF found = {} THEN NoPin ELSE [apic |-> first[1], pin |-> first[2]]

(* ioapic_isa_pin (lines 90-119): the first MP interrupt entry for the    *)
(* ISA IRQ and type, then the first I/O APIC whose id is its destination. *)
IsaPin(isaIrq, type) ==
    LET match(k) == /\ mpIrqs[k].busid = ISA_BUSID
                    /\ mpIrqs[k].busirq = isaIrq
                    /\ mpIrqs[k].type = type
        ks == {k \in 1 .. Len(mpIrqs) : match(k)}
        k  == CHOOSE k \in ks : \A l \in ks : k <= l
        as == {a \in Apics : DescId[a] = mpIrqs[k].dstid}
    IN  IF ks = {} \/ as = {} THEN NoPin
        ELSE [apic |-> CHOOSE a \in as : \A b \in as : a <= b,
              pin  |-> mpIrqs[k].dstpin]

(* The mask loop of lines 211-215, over irq 0 .. max_irq - 1.            *)
MaskAll(r, mx) ==
    [a \in Apics |-> [p \in Pins |->
        IF p < mx[a] THEN [r[a][p] EXCEPT !.mask = TRUE] ELSE r[a][p]]]

-----------------------------------------------------------------------------
(* The boot state: the MP tables are parsed, ioapic_descs[].max_irq is    *)
(* still zero, and the chips are as the BIOS left them.                  *)
Init ==
    /\ mpIrqs \in MPIrqs
    /\ chipId \in {f \in [Apics -> {OtherId} \cup {DescId[a] : a \in Apics}] :
                     \A a \in Apics : f[a] \in {DescId[a], OtherId}}
    /\ red \in [Apics -> [Pins -> [mode : Modes, mask : BOOLEAN,
                                   vector : {0}]]]
    /\ maxIrq = [a \in Apics |-> 0]
    /\ i8259Pin = NoPin
    /\ stray = {}
    /\ written = {}
    /\ pc = "boot"
    /\ bios = red

(* Mutant of ioapic_init: the routing entries are masked before the      *)
(* i8259 pin is looked for.                                              *)
ioapic_init_mask_first ==
    /\ pc = "boot"
    /\ LET mx   == [a \in Apics |-> MAX_IRQ]
           pin1 == Get8259APin(MaskAll(red, mx), mx)
           pin2 == IsaPin(0, "ExtINT")
       IN  /\ chipId' = DescId
           /\ maxIrq' = mx
           /\ i8259Pin' = IF pin1.apic # -1 THEN pin1
                          ELSE IF pin2.apic # -1 THEN pin2 ELSE i8259Pin
           /\ red' = MaskAll(red, mx)
    /\ pc' = "ready"
    /\ UNCHANGED <<mpIrqs, stray, written, bios>>

(* Mutant of ioapic_init: the chips keep the APIC ids the BIOS left.    *)
ioapic_init_keep_ids ==
    /\ pc = "boot"
    /\ LET mx   == [a \in Apics |-> MAX_IRQ]
           pin1 == Get8259APin(red, mx)
           pin2 == IsaPin(0, "ExtINT")
       IN  /\ maxIrq' = mx
           /\ i8259Pin' = IF pin1.apic # -1 THEN pin1
                          ELSE IF pin2.apic # -1 THEN pin2 ELSE i8259Pin
           /\ red' = MaskAll(red, mx)
    /\ pc' = "ready"
    /\ UNCHANGED <<mpIrqs, chipId, stray, written, bios>>

(* ioapic_init (lines 154-216): the descriptors take the chips' max_irq   *)
(* and the chips take the MP tables' ids (lines 164-184), the i8259 pin   *)
(* is located from the BIOS routing, else from the MP tables (194-207),   *)
(* and the routing entries are masked (211-215).                         *)
ioapic_init ==
    /\ pc = "boot"
    /\ LET mx   == [a \in Apics |-> MAX_IRQ]
           pin1 == Get8259APin(red, mx)
           pin2 == IsaPin(0, "ExtINT")
       IN  /\ chipId' = DescId
           /\ maxIrq' = mx
           /\ i8259Pin' = IF pin1.apic # -1 THEN pin1
                          ELSE IF pin2.apic # -1 THEN pin2 ELSE i8259Pin
           /\ red' = MaskAll(red, mx)
    /\ pc' = "ready"
    /\ UNCHANGED <<mpIrqs, stray, written, bios>>

(* Mutant of ioapic_setup_isairq: the pin is passed as an int.           *)
ioapic_setup_isairq_intpin(irq, vector) ==
    /\ pc = "ready"
    /\ LET pin == IsaPin(irq, "INT")
           a   == pin.apic
           p   == pin.pin
       IN  IF a \in Apics /\ p \in Pins
           THEN /\ red' = [red EXCEPT ![a][p] = [mode |-> "fixed",
                                                 mask |-> FALSE,
                                                 vector |-> vector]]
                /\ written' = written \cup {<<a, p>>}
                /\ UNCHANGED stray
           ELSE /\ stray' = stray \cup {<<a, p>>}
                /\ UNCHANGED <<red, written>>
    /\ UNCHANGED <<mpIrqs, chipId, maxIrq, i8259Pin, pc, bios>>

(* ioapic_setup_isairq (lines 121-152): the pin ioapic_isa_pin finds is   *)
(* programmed fixed, edge, unmasked, with the vector.  The pin is passed   *)
(* as a uint8_t; ioapic_base only asserts apic < nr_ioapics, so a pin     *)
(* that was not found writes outside every redirection table.            *)
ioapic_setup_isairq(irq, vector) ==
    /\ pc = "ready"
    /\ LET pin == IsaPin(irq, "INT")
           a   == pin.apic
           p   == pin.pin % 256
       IN  IF a \in Apics /\ p \in Pins
           THEN /\ red' = [red EXCEPT ![a][p] = [mode |-> "fixed",
                                                 mask |-> FALSE,
                                                 vector |-> vector]]
                /\ written' = written \cup {<<a, p>>}
                /\ UNCHANGED stray
           ELSE /\ stray' = stray \cup {<<a, p>>}
                /\ UNCHANGED <<red, written>>
    /\ UNCHANGED <<mpIrqs, chipId, maxIrq, i8259Pin, pc, bios>>

Next ==
    \/ ioapic_init
    \/ \E s \in Setups : ioapic_setup_isairq(s[1], s[2])

Spec == Init /\ [][Next]_vars

-----------------------------------------------------------------------------
TypeOK ==
    /\ mpIrqs \in Seq(MPIrq)
    /\ chipId \in [Apics -> Nat]
    /\ red \in [Apics -> [Pins -> Entry]]
    /\ maxIrq \in [Apics -> 0 .. 255]
    /\ i8259Pin \in [apic : Apics \cup {-1}, pin : Nat \cup {-1}]
    /\ stray \subseteq (Int \X (0 .. 255))
    /\ written \subseteq (Apics \X Pins)
    /\ pc \in {"boot", "ready"}
    /\ bios \in [Apics -> [Pins -> Entry]]

(* An entry the BIOS routed to the i8259 INTR line: unmasked ExtINT.     *)
BiosExtInt(a, p) == bios[a][p].mode = "extint" /\ ~bios[a][p].mask

(* ioapic_init locates the i8259 from the hardware routing before it      *)
(* masks that routing (lines 192-215): when the BIOS left an ExtINT entry *)
(* unmasked, i8259_pin names such an entry, not the MP tables' guess.     *)
I8259PinFromHardware ==
    (pc = "ready" /\ \E a \in Apics, p \in Pins : BiosExtInt(a, p)) =>
        /\ i8259Pin.apic \in Apics
        /\ i8259Pin.pin \in Pins
        /\ BiosExtInt(i8259Pin.apic, i8259Pin.pin)

(* The MP tables route ISA IRQ irq to pin p of chip a: an INT entry of   *)
(* the ISA bus for irq names the APIC id chip a answers to, and a pin     *)
(* that reaches p as the uint8_t of ioapic_write_irqentry.               *)
MPRoutes(irq, a, p) ==
    \E k \in 1 .. Len(mpIrqs) :
        /\ mpIrqs[k].busid = ISA_BUSID /\ mpIrqs[k].busirq = irq
        /\ mpIrqs[k].type = "INT"
        /\ mpIrqs[k].dstid = chipId[a] /\ mpIrqs[k].dstpin % 256 = p

(* ioapic_isa_pin matches the MP destination against ioapic_descs[].id,  *)
(* not against the chips' id registers, which the BIOS may have left     *)
(* different (lines 111, 164-175): every entry a driver programmed is on  *)
(* the chip and pin the MP tables give for its IRQ, and carries that      *)
(* IRQ's vector.                                                          *)
RoutedToMPDestination ==
    \A a \in Apics, p \in Pins :
        <<a, p>> \in written =>
            \E s \in Setups : MPRoutes(s[1], a, p) /\ red[a][p].vector = s[2]

(* "We don't trust the BIOS setup: mask all the system IOAPICs irq        *)
(* routing entries" (lines 209-210): once ioapic_init has run, the only   *)
(* unmasked entries are those a driver programmed.                        *)
OnlyProgrammedUnmasked ==
    pc = "ready" =>
        \A a \in Apics, p \in Pins : ~red[a][p].mask => <<a, p>> \in written

(* ioapic_setup_isairq writes only redirection entries of existing I/O    *)
(* APICs.                                                                 *)
WritesInTable ==
    stray = {}

=============================================================================
