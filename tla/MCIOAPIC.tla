------------------------------ MODULE MCIOAPIC ------------------------------
(* Two I/O APICs (MP ids 2 and 3) with two redirection entries each, the  *)
(* keyboard routing ISA IRQ 1 (part_006 line 308), and three MP interrupt *)
(* tables: a complete one, one without the i8259 ExtINT entry, and one    *)
(* whose keyboard entry is on another bus only.                           *)
EXTENDS IOAPIC

MCDescId == [a \in 0 .. 1 |-> a + 2]

IrqEntry(t, bus, irq, id, pin) ==
    [type |-> t, busid |-> bus, busirq |-> irq, dstid |-> id, dstpin |-> pin]

MCMPIrqs ==
    { << IrqEntry("ExtINT", 0, 0, 2, 0), IrqEntry("INT", 0, 1, 3, 1) >>,
      << IrqEntry("INT", 1, 1, 2, 0), IrqEntry("INT", 0, 1, 2, 1) >>,
      << IrqEntry("ExtINT", 0, 0, 3, 0), IrqEntry("INT", 1, 1, 3, 1) >> }

MCSetups == {<<1, 33>>}

=============================================================================
