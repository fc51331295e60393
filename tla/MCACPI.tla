------------------------------- MODULE MCACPI -------------------------------
(* ACPI for TLC: 2 entries per page table and 4 units per page, so the   *)
(* address space has 64 units; the boot loader maps the first 16 with     *)
(* two large pages, as it identity-maps the low memory the BIOS areas are *)
(* in, and the tables lie above.                                         *)
EXTENDS ACPI, TLC

MCBoot ==
    [p4 |-> [w \in Idx |-> w = 0],
     p3 |-> [q \in Idx \X Idx |-> IF q = <<0, 0>> THEN "table" ELSE "none"],
     p2 |-> [q \in Idx \X Idx \X Idx |-> IF q \in {<<0, 0, 0>>, <<0, 0, 1>>} THEN "ps" ELSE "none"],
     p1 |-> [q \in Idx \X Idx \X Idx \X Idx |-> NONE]]

Tbl(sig, len, ptrs, lapic, es) ==
    [sig |-> sig, len |-> len, ptrs |-> ptrs, lapic |-> lapic, entries |-> es]
Ent(type, length, addr) == [type |-> type, length |-> length, addr |-> addr]
Sdt2(sig, ptrs, psize) == Tbl(sig, HDR + Len(ptrs) * psize, ptrs, 0, <<>>)
Plain(sig, len) == Tbl(sig, len, <<>>, 0, <<>>)

\* A MADT: a local APIC, an I/O APIC, an override and a second I/O APIC.
Madt == LET es == <<Ent(0, 1, 0), Ent(1, 2, 52), Ent(2, 1, 0), Ent(1, 2, 57)>>
        IN  Tbl("APIC", MADT_HDR + 6, <<>>, 50, es)

(* A second MADT whose length ends before its second entry, which         *)
(* madt_find must therefore not return.                                   *)
Madt2 == Tbl("APIC", MADT_HDR + 2, <<>>, 46, <<Ent(1, 2, 44), Ent(1, 2, 36)>>)

\* The EBDA's first KByte and the system ROM.
MCEBDA == [base |-> 0, size |-> 4]
MCROM  == [base |-> 8, size |-> 8]

Rsdp(rev, rsdt, xsdt) == [revision |-> rev, rsdt |-> rsdt, xsdt |-> xsdt]

\* The tables a root may list, at fixed addresses above the boot mapping.
Pieces == (28 :> Plain("HPET", 2)) @@ (30 :> Plain("FACP", 3)) @@ (33 :> Plain("MCFG", 3))
          @@ (40 :> Madt) @@ (49 :> Madt2) @@ (56 :> Plain("SSDT", 5))

\* Root tables listing up to three distinct tables, in any order.
Lists == UNION {{s \in [1 .. n -> DOMAIN Pieces] : \A x, y \in 1 .. n : x # y => s[x] # s[y]} : n \in 0 .. 3}

Fw(sigs, rsdps, ps) ==
    [sigs |-> sigs, rsdps |-> rsdps,
     tables |-> (16 :> Sdt2("RSDT", ps, RPTR)) @@ (20 :> Sdt2("XSDT", ps, XPTR)) @@ Pieces]

(* For every list: ACPI 2.0 with both roots and the RSDP in the EBDA;     *)
(* ACPI 1.0 with the RSDP in the ROM after a misaligned signature in the  *)
(* EBDA; ACPI 2.0 without an XSDT.  Then a machine without an RSDP and    *)
(* one without a root table.                                             *)
MCFirmwares ==
    UNION {{ Fw({2}, 2 :> Rsdp(2, 16, 20), ps),
             Fw({3, 10}, (3 :> Rsdp(0, 0, 0)) @@ (10 :> Rsdp(0, 16, 0)), ps),
             Fw({12}, 12 :> Rsdp(2, 16, 0), ps) } : ps \in Lists}
    \cup { [sigs |-> {}, rsdps |-> <<>>, tables |-> <<>>],
          [sigs |-> {0}, rsdps |-> (0 :> Rsdp(0, 0, 0)), tables |-> <<>>] }
=============================================================================
