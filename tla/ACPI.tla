-------------------------------- MODULE ACPI --------------------------------
(***************************************************************************)
(* init_acpi of src/arch/x86/acpi.c: the scan for the RSDP, the walk over  *)
(* the XSDT or RSDT, the extension of the boot loader's page table so     *)
(* that each table can be read (is_mapped, alloc_page, create_page,       *)
(* map_range, map_table), the table pointers kept by read_table, and the  *)
(* reservation of APIC MMIO pages through the MADT iterator madt_find.    *)
(*                                                                         *)
(* Addresses are scaled: a page is PAGE_SIZE units and a page table has E *)
(* entries, so a PD entry maps PAGE_SIZE * E units (2 MBytes).  A table   *)
(* of the page-table tree is named by the indices of the entries above    *)
(* it.  Firmware tables are records of the fields the code reads.         *)
(***************************************************************************)
EXTENDS Integers, Sequences, FiniteSets

CONSTANTS
    E,            \* entries per page table (512)
    PAGE_SIZE,    \* 4 KBytes
    HDR,          \* sizeof(struct acpi_hdr)
    MADT_HDR,     \* sizeof(struct acpi_madt): the header and the local APIC address
    XPTR, RPTR,   \* sizes of an XSDT (uint64_t) and an RSDT (uint32_t) pointer
    RSTEP,        \* the RSDP scan stride (16 bytes)
    POOL,         \* pages between MEM_PAGE_TABLE_LOADED and MEM_PAGE_TABLE_END
    EBDA, ROM,    \* the two areas find_rsdp scans: [base, size]
    HPET0_START,  \* the HPET's MMIO address
    HPET_SIZE,    \* the window reserved for it (0x400)
    Boot,         \* the page table the boot loader leaves
    Firmwares     \* the ACPI tables a machine may provide

NONE == -1

ASSUME ACPIAssumption ==
    /\ E \in Nat \ {0} /\ PAGE_SIZE \in Nat \ {0}
    /\ {HDR, MADT_HDR, XPTR, RPTR, RSTEP} \subseteq Nat \ {0}
    /\ POOL \in Nat

Idx == 0 .. E - 1
VSPACE == PAGE_SIZE * E * E * E * E

\* PML4E, PDPTE, PDE and PTE of paging.h: the entry an address selects.
L4(a) == (a \div (PAGE_SIZE * E * E * E)) % E
L3(a) == (a \div (PAGE_SIZE * E * E)) % E
L2(a) == (a \div (PAGE_SIZE * E)) % E
L1(a) == (a \div PAGE_SIZE) % E

PAGE_ALIGN_DOWN(a) == a - (a % PAGE_SIZE)
PAGE_ALIGN_UP(a)   == PAGE_ALIGN_DOWN(a + PAGE_SIZE - 1)

(* The tree: PML4 entries present or not, PDPT and PD entries empty, a    *)
(* large page (PF_PS) or a table, PT entries NONE or the page address.    *)
Tables == [p4 : [Idx -> BOOLEAN], p3 : [Idx \X Idx -> {"none", "ps", "table"}],
           p2 : [Idx \X Idx \X Idx -> {"none", "ps", "table"}],
           p1 : [Idx \X Idx \X Idx \X Idx -> {NONE} \cup (0 .. VSPACE - 1)]]

(* is_mapped (lines 53-82).                                               *)
IsMapped(t, a) ==
    LET w == L4(a)  x == L3(a)  y == L2(a)  z == L1(a)
    IN  /\ t.p4[w]
        /\ t.p3[<<w, x>>] # "none"
        /\ \/ t.p3[<<w, x>>] = "ps"
           \/ /\ t.p2[<<w, x, y>>] # "none"
              /\ \/ t.p2[<<w, x, y>>] = "ps"
                 \/ t.p1[<<w, x, y, z>>] # NONE

\* Every page of [a, a + n) is mapped.
RangeMapped(t, a, n) == \A x \in a .. a + n - 1 : IsMapped(t, x)

(* The boot page table with its page pool: `used' pages handed out by     *)
(* alloc_page, `fatal' once it found the pool empty.                      *)
BT == [t : Tables, used : Nat, fatal : BOOLEAN]

\* Mutant: the pool check one page late.
Alloc_over(b, t) ==
    IF b.fatal THEN b
    ELSE IF b.used = POOL + 1 THEN [b EXCEPT !.fatal = TRUE]
    ELSE [b EXCEPT !.used = @ + 1, !.t = t]

(* alloc_page (lines 84-93) on behalf of an entry: fatal() when the pool  *)
(* is used up, otherwise a zeroed page: t is the tree with the entry set  *)
(* to the new table, whose entries are empty.                              *)
Alloc(b, t) ==
    IF b.fatal THEN b
    ELSE IF b.used = POOL THEN [b EXCEPT !.fatal = TRUE]
    ELSE [b EXCEPT !.used = @ + 1, !.t = t]

(* create_page (lines 95-119), one level per operator: a zero entry gets  *)
(* a page from alloc_page, whose entries are empty.                       *)
NewPdpt(b, w) ==
    IF b.t.p4[w] THEN b
    ELSE Alloc(b, [b.t EXCEPT !.p4[w] = TRUE,
                   !.p3 = [q \in DOMAIN b.t.p3 |-> IF q[1] = w THEN "none" ELSE b.t.p3[q]]])

NewPdt(b, w, x) ==
    IF b.fatal \/ b.t.p3[<<w, x>>] # "none" THEN b
    ELSE Alloc(b, [b.t EXCEPT !.p3[<<w, x>>] = "table",
                   !.p2 = [q \in DOMAIN b.t.p2 |->
                             IF <<q[1], q[2]>> = <<w, x>> THEN "none" ELSE b.t.p2[q]]])

NewPt(b, w, x, y) ==
    IF b.fatal \/ b.t.p2[<<w, x, y>>] # "none" THEN b
    ELSE Alloc(b, [b.t EXCEPT !.p2[<<w, x, y>>] = "table",
                   !.p1 = [q \in DOMAIN b.t.p1 |->
                             IF <<q[1], q[2], q[3]>> = <<w, x, y>> THEN NONE ELSE b.t.p1[q]]])

\* Line 118: the PT entry is set to the page's own address.
SetPte(b, a) ==
    IF b.fatal THEN b
    ELSE [b EXCEPT !.t.p1[<<L4(a), L3(a), L2(a), L1(a)>>] = a]

CreatePage(b, a) ==
    SetPte(NewPt(NewPdt(NewPdpt(b, L4(a)), L4(a), L3(a)), L4(a), L3(a), L2(a)), a)

\* One iteration of map_range's loop (lines 130-132).
MapPage(b, p) ==
    IF b.fatal \/ IsMapped(b.t, p) THEN b ELSE CreatePage(b, p)

(* map_range (lines 121-134): every page of the page-aligned extent that  *)
(* is not mapped yet is created.                                          *)
MapRange(b, addr, size) ==
    LET begin == PAGE_ALIGN_DOWN(addr)
        n     == (PAGE_ALIGN_UP(addr + size) - begin) \div PAGE_SIZE
        f[m \in 0 .. n] ==
            IF m = 0 THEN b ELSE MapPage(f[m - 1], begin + (m - 1) * PAGE_SIZE)
    IN  f[n]

-----------------------------------------------------------------------------
(* A firmware: the addresses holding the RSDP signature, the RSDP there,  *)
(* and the tables by address.  A table has a signature and a length, an   *)
(* SDT its pointers, a MADT its local APIC address and its entries.       *)
Sdt(fw, a) == fw.tables[a]

(* find_rsdp (lines 221-233): the first 16-byte aligned slot of the area  *)
(* holding the signature.                                                *)
FindRsdp(fw, area) ==
    LET slots == {p \in fw.sigs : p >= area.base /\ p < area.base + area.size
                                  /\ (p - area.base) % RSTEP = 0}
    IN  IF slots = {} THEN NONE
        ELSE CHOOSE p \in slots : \A q \in slots : p <= q

(* The number of tables read_xsdt and read_rsdt compute from the length.  *)
NTables(t, psize) == (t.len - HDR) \div psize

(* madt_find (lines 317-342): from the entry after prev, or after the     *)
(* MADT header, the first entry of the type before the MADT's end.  An    *)
(* entry is addressed by its offset in the table.                        *)
EntryOffsets(m) ==
    LET off[n \in 1 .. Len(m.entries) + 1] ==
            IF n = 1 THEN MADT_HDR ELSE off[n - 1] + m.entries[n - 1].length
    IN  off

MadtFind(m, type, prev) ==
    LET off == EntryOffsets(m)
        walk[n \in 1 .. Len(m.entries) + 1] ==
            IF n > Len(m.entries) \/ off[n] >= m.len THEN NONE
            ELSE IF m.entries[n].type = type THEN off[n]
            ELSE walk[n + 1]
        first == IF prev = NONE THEN 1
                 ELSE (CHOOSE n \in 1 .. Len(m.entries) : off[n] = prev) + 1
    IN  walk[first]

\* enum acpi_madt_type, and the signatures read_table switches on.
MADT_IO_APIC == 1
Signatures == {"FACP", "APIC", "MCFG", "HPET", "SSDT"}

-----------------------------------------------------------------------------
VARIABLES
    fw,      \* the machine's firmware tables
    bt,      \* btable: the boot page table and its page pool
    pc,      \* where init_acpi is
    i,       \* the loop index of read_xsdt or read_rsdt
    acpi,    \* the static `struct acpi'
    pmap,    \* the ranges handed to pmap_add
    io,      \* the iterator of the I/O APIC loop (offset in the MADT)
    reads    \* the ranges the code has read, as [a, n]

vars == <<fw, bt, pc, i, acpi, pmap, io, reads>>

Rd(a, n) == [a |-> a, n |-> n]
AcpiRange(a, len) == [base |-> PAGE_ALIGN_DOWN(a),
                      size |-> PAGE_ALIGN_UP(a + len) - PAGE_ALIGN_DOWN(a),
                      type |-> "acpi"]
UncachedPage(a) == [base |-> PAGE_ALIGN_DOWN(a), size |-> PAGE_SIZE, type |-> "uncached"]

(* What map_table leaves after the header was mapped (b1) and the whole  *)
(* table (b2): the boot table, what it read and what it reserved.  A      *)
(* fatal() inside alloc_page stops the kernel there.                      *)
MapResult(b1, b2, a) ==
    CASE b1.fatal -> [bt |-> b1, reads |-> {}, pmap |-> {}]
      [] b2.fatal -> [bt |-> b2, reads |-> {Rd(a, HDR)}, pmap |-> {}]
      [] OTHER    -> [bt |-> b2, reads |-> {Rd(a, HDR), Rd(a, fw.tables[a].len)},
                      pmap |-> {AcpiRange(a, fw.tables[a].len)}]

\* map_table with its header already mapped in b1.
MapRest(b1, a) == MapResult(b1, MapRange(b1, a, fw.tables[a].len), a)

\* Mutant: only the header is mapped.
MapTable_hdronly(b, a) ==
    MapResult(MapRange(b, a, HDR), MapRange(b, a, HDR), a)

(* map_table (lines 136-154): the header is mapped, its length read, the  *)
(* whole table mapped and its extent given to pmap_add.                   *)
MapTable(b, a) == MapRest(MapRange(b, a, HDR), a)

(* A step that ends with map_table of a: on to `next', or stopped.       *)
AfterMap(m, next) ==
    /\ bt' = m.bt
    /\ pc' = IF m.bt.fatal THEN "fatal_pool" ELSE next

Init ==
    /\ fw \in Firmwares
    /\ bt = [t |-> Boot, used |-> 0, fatal |-> FALSE]
    /\ pc = "find"
    /\ i = 0
    /\ acpi = [rsdp |-> NONE, version |-> 0, xsdt |-> NONE, rsdt |-> NONE,
               fadt |-> NONE, madt |-> NONE, mcfg |-> NONE]
    /\ pmap = {}
    /\ io = NONE
    /\ reads = {}

\* Mutant: the system ROM is never scanned.
LocateRsdp_norom ==
    /\ pc = "find"
    /\ LET r == FindRsdp(fw, EBDA)
       IN  IF r = NONE
           THEN pc' = "fatal_no_rsdp" /\ UNCHANGED <<acpi, reads>>
           ELSE /\ acpi' = [acpi EXCEPT !.rsdp = r, !.version = fw.rsdps[r].revision + 1]
                /\ reads' = reads \cup {Rd(r, 1)}
                /\ pc' = "root"
    /\ UNCHANGED <<fw, bt, i, pmap, io>>

(* Lines 247-255: the EBDA, then the system ROM; fatal() if neither       *)
(* holds the RSDP.                                                        *)
LocateRsdp ==
    /\ pc = "find"
    /\ LET r1 == FindRsdp(fw, EBDA)
           r  == IF r1 # NONE THEN r1 ELSE FindRsdp(fw, ROM)
       IN  IF r = NONE
           THEN pc' = "fatal_no_rsdp" /\ UNCHANGED <<acpi, reads>>
           ELSE /\ acpi' = [acpi EXCEPT !.rsdp = r, !.version = fw.rsdps[r].revision + 1]
                /\ reads' = reads \cup {Rd(r, 1)}
                /\ pc' = "root"
    /\ UNCHANGED <<fw, bt, i, pmap, io>>

(* Lines 258-281: the XSDT if the RSDP is of ACPI 2.0 or later and names  *)
(* one, the RSDT otherwise; fatal() if there is none.                     *)
ChooseRoot ==
    /\ pc = "root"
    /\ LET r == fw.rsdps[acpi.rsdp]
           root == IF acpi.version > 1 /\ r.xsdt # 0 THEN r.xsdt ELSE r.rsdt
           m == MapTable(bt, root)
       IN  IF root = 0
           THEN pc' = "fatal_no_rsdt" /\ UNCHANGED <<acpi, bt, pmap, reads>>
           ELSE /\ acpi' = IF root = r.xsdt THEN [acpi EXCEPT !.xsdt = root]
                                            ELSE [acpi EXCEPT !.rsdt = root]
                /\ AfterMap(m, IF root = r.xsdt THEN "xsdt" ELSE "rsdt")
                /\ reads' = reads \cup m.reads
                /\ pmap' = pmap \cup m.pmap
    /\ UNCHANGED <<fw, i, io>>

\* The root table being walked and the size of its pointers.
Root == IF pc = "xsdt" THEN acpi.xsdt ELSE acpi.rsdt
PtrSize == IF pc = "xsdt" THEN XPTR ELSE RPTR

(* read_table (lines 36-51): the last FADT, MADT and MCFG seen are kept.  *)
ReadTable(a) ==
    acpi' = CASE fw.tables[a].sig = "FACP" -> [acpi EXCEPT !.fadt = a]
              [] fw.tables[a].sig = "APIC" -> [acpi EXCEPT !.madt = a]
              [] fw.tables[a].sig = "MCFG" -> [acpi EXCEPT !.mcfg = a]
              [] OTHER                     -> acpi

\* Mutant: the HPET window is reserved on the XSDT walk only.
ReadSdtEntry_xonly ==
    /\ pc \in {"xsdt", "rsdt"}
    /\ i < NTables(fw.tables[Root], PtrSize)
    /\ LET slot == Root + HDR + i * PtrSize
           a    == fw.tables[Root].ptrs[i + 1]
           m    == MapTable(bt, a)
       IN  /\ AfterMap(m, pc)
           /\ reads' = reads \cup {Rd(slot, PtrSize)} \cup m.reads
           /\ IF m.bt.fatal
              THEN UNCHANGED <<acpi, pmap>>
              ELSE /\ pmap' = pmap \cup m.pmap
                        \cup (IF fw.tables[a].sig = "HPET" /\ pc = "xsdt"
                              THEN {AcpiRange(HPET0_START, HPET_SIZE)} ELSE {})
                   /\ ReadTable(a)
    /\ i' = i + 1
    /\ UNCHANGED <<fw, io>>

(* One iteration of the loop of read_xsdt (lines 166-185) or read_rsdt   *)
(* (lines 199-217): the pointer is read, the table mapped, an HPET's      *)
(* MMIO window reserved, and the table recorded.                         *)
ReadSdtEntry ==
    /\ pc \in {"xsdt", "rsdt"}
    /\ i < NTables(fw.tables[Root], PtrSize)
    /\ LET slot == Root + HDR + i * PtrSize
           a    == fw.tables[Root].ptrs[i + 1]
           m    == MapTable(bt, a)
       IN  /\ AfterMap(m, pc)
           /\ reads' = reads \cup {Rd(slot, PtrSize)} \cup m.reads
           /\ IF m.bt.fatal
              THEN UNCHANGED <<acpi, pmap>>
              ELSE /\ pmap' = pmap \cup m.pmap
                        \cup (IF fw.tables[a].sig = "HPET"
                              THEN {AcpiRange(HPET0_START, HPET_SIZE)} ELSE {})
                   /\ ReadTable(a)
    /\ i' = i + 1
    /\ UNCHANGED <<fw, io>>

(* The last table is read; lines 284-288 reserve the local APIC page.     *)
ReserveLapic ==
    /\ pc \in {"xsdt", "rsdt"}
    /\ i >= NTables(fw.tables[Root], PtrSize)
    /\ IF acpi.madt # NONE
       THEN /\ pmap' = pmap \cup {UncachedPage(fw.tables[acpi.madt].lapic)}
            /\ reads' = reads \cup {Rd(acpi.madt, MADT_HDR)}
       ELSE UNCHANGED <<pmap, reads>>
    /\ pc' = "ioapic"
    /\ UNCHANGED <<fw, bt, i, acpi, io>>

(* One iteration of the loop of lines 291-296: acpi_next_io_apic, then    *)
(* the I/O APIC's register page is reserved.                             *)
NextIoApic ==
    /\ pc = "ioapic"
    /\ LET m    == fw.tables[acpi.madt]
           next == IF acpi.madt = NONE THEN NONE ELSE MadtFind(m, MADT_IO_APIC, io)
           n    == CHOOSE x \in 1 .. Len(m.entries) : EntryOffsets(m)[x] = next
       IN  IF next = NONE
           THEN pc' = "done" /\ UNCHANGED <<io, pmap, reads>>
           ELSE /\ io' = next
                /\ pmap' = pmap \cup {UncachedPage(m.entries[n].addr)}
                /\ reads' = reads \cup {Rd(acpi.madt + next, m.entries[n].length)}
                /\ pc' = pc
    /\ UNCHANGED <<fw, bt, i, acpi>>

Next ==
    \/ LocateRsdp \/ ChooseRoot \/ ReadSdtEntry \/ ReserveLapic \/ NextIoApic

Spec == Init /\ [][Next]_vars

-----------------------------------------------------------------------------
Terminal == {"done", "fatal_no_rsdp", "fatal_no_rsdt", "fatal_pool"}

TypeOK ==
    /\ bt \in [t : Tables, used : 0 .. POOL, fatal : BOOLEAN]
    /\ pc \in {"find", "root", "xsdt", "rsdt", "ioapic"} \cup Terminal
    /\ i \in Nat
    /\ io \in {NONE} \cup Nat
    /\ pmap \subseteq [base : Int, size : Nat, type : {"acpi", "uncached"}]
    /\ reads \subseteq [a : Nat, n : Nat]

(* map_table's order: whatever init_acpi reads, the RSDP, an SDT's header *)
(* and pointers, a table's header, the MADT and its entries, lies on      *)
(* pages the boot page table maps by the time it is read, whether by the  *)
(* boot loader's large pages or by pages create_page added.              *)
ReadsMapped ==
    \A r \in reads : RangeMapped(bt.t, r.a, r.n)

\* The reference: what the firmware determines, stated without the loops.
RsdpRef == IF FindRsdp(fw, EBDA) # NONE THEN FindRsdp(fw, EBDA) ELSE FindRsdp(fw, ROM)
RootRef == LET r == fw.rsdps[RsdpRef]
           IN  IF r.revision + 1 > 1 /\ r.xsdt # 0 THEN r.xsdt ELSE r.rsdt
Listed == {fw.tables[RootRef].ptrs[k] : k \in 1 .. Len(fw.tables[RootRef].ptrs)}
Pages(a, len) == {p \in 0 .. VSPACE - 1 : p % PAGE_SIZE = 0 /\ p + PAGE_SIZE > a /\ p < a + len}

\* The page-table pages a page needs that the boot table lacks.
Needs(p) ==
    LET w == L4(p)  x == L3(p)  y == L2(p)
        n4 == ~Boot.p4[w]
        n3 == n4 \/ Boot.p3[<<w, x>>] = "none"
        n2 == n3 \/ Boot.p2[<<w, x, y>>] = "none"
    IN  IF IsMapped(Boot, p) THEN {}
        ELSE (IF n4 THEN {<<w>>} ELSE {}) \cup (IF n3 THEN {<<w, x>>} ELSE {})
             \cup (IF n2 THEN {<<w, x, y>>} ELSE {})

Needed == UNION {Needs(p) : p \in UNION {Pages(t, fw.tables[t].len) : t \in Listed \cup {RootRef}}}

Outcome ==
    CASE RsdpRef = NONE                 -> "fatal_no_rsdp"
      [] RootRef = 0                    -> "fatal_no_rsdt"
      [] Cardinality(Needed) > POOL     -> "fatal_pool"
      [] OTHER                          -> "done"

(* init_acpi stops exactly when the firmware forces it to: no RSDP in    *)
(* either area, no root table, or more page-table pages needed to map    *)
(* the tables than the boot loader's pool holds.                          *)
OutcomeExact ==
    pc \in Terminal => pc = Outcome

MadtRef == LET ps == fw.tables[RootRef].ptrs
               ks == {k \in 1 .. Len(ps) : fw.tables[ps[k]].sig = "APIC"}
           IN  IF ks = {} THEN NONE ELSE ps[CHOOSE k \in ks : \A x \in ks : x <= k]

IoApicAddrs(m) ==
    {m.entries[n].addr : n \in {n \in 1 .. Len(m.entries) :
        m.entries[n].type = MADT_IO_APIC /\ EntryOffsets(m)[n] < m.len}}

(* After init_acpi, the physical memory map holds exactly the extents of *)
(* the root table and of every table it lists, the HPET window if there   *)
(* is an HPET, and the local APIC page and every I/O APIC's register page *)
(* of the last MADT listed.                                              *)
ReservedExact ==
    pc = "done" =>
      pmap = {AcpiRange(t, fw.tables[t].len) : t \in Listed \cup {RootRef}}
             \cup (IF \E t \in Listed : fw.tables[t].sig = "HPET"
                   THEN {AcpiRange(HPET0_START, HPET_SIZE)} ELSE {})
             \cup (IF MadtRef = NONE THEN {}
                   ELSE {UncachedPage(a) : a \in {fw.tables[MadtRef].lapic}
                                               \cup IoApicAddrs(fw.tables[MadtRef])})

=============================================================================
