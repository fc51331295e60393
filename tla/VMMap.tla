------------------------------- MODULE VMMap -------------------------------
(***************************************************************************)
(* The kernel's permanent page tables of src/arch/x86/vm_map.c: the        *)
(* four-level walk down to 2-MByte pages that map_pml{4,3,2}_range fill,  *)
(* vaddr_is_mapped, vm_kmap and vm_init.                                  *)
(*                                                                         *)
(* Addresses are scaled: a large page (PAGE_SIZE_2MB) is LP units and a    *)
(* table has E entries (512), so a PML2 table maps LP * E units (1 GByte), *)
(* a PML3 table LP * E^2 and a PML4 table LP * E^3.  A table is named by  *)
(* the indices of the entries above it: each entry points to its own      *)
(* zeroed page from get_zeroed_page, which is never freed.               *)
(***************************************************************************)
EXTENDS Integers

CONSTANTS
    E,                  \* entries per page table (512)
    LP,                 \* PAGE_SIZE_2MB
    KTEXT_PAGE_OFFSET,  \* virtual base of the kernel text area
    KTEXT_AREA_SIZE,    \* its size (512 MBytes)
    KTEXT_PHYS_OFFSET,  \* its physical base
    KERN_PAGE_OFFSET,   \* virtual base of the physical-memory mapping
    KERN_PHYS_END_MAX,  \* the end of the physical addresses it may map
    PhysEnds,           \* values e820_get_phys_addr_end may return
    KmapReqs            \* <<pstart, len>> arguments callers give vm_kmap

Idx   == 0 .. E - 1
NONE  == -1

ASSUME VMMapAssumption ==
    /\ E \in Nat \ {0} /\ LP \in Nat \ {0}
    /\ \A a \in {KTEXT_PAGE_OFFSET, KTEXT_AREA_SIZE, KTEXT_PHYS_OFFSET,
                 KERN_PAGE_OFFSET} : a \in Nat /\ a % LP = 0
    /\ KERN_PHYS_END_MAX \in Nat
    /\ PhysEnds \subseteq Nat \ {0}
    /\ KmapReqs \subseteq Nat \X (Nat \ {0})

\* The sizes of paging.h: what one entry, and one table, of each level map.
PML2_ENTRY_MAPPING_SIZE == LP
PML3_ENTRY_MAPPING_SIZE == LP * E
PML4_ENTRY_MAPPING_SIZE == LP * E * E
PML2_MAPPING_SIZE == LP * E
PML3_MAPPING_SIZE == LP * E * E
PML4_MAPPING_SIZE == LP * E * E * E

\* pml{2,3,4}_index: the bits of an address that select an entry.
I2(v) == (v \div PML2_ENTRY_MAPPING_SIZE) % E
I3(v) == (v \div PML3_ENTRY_MAPPING_SIZE) % E
I4(v) == (v \div PML4_ENTRY_MAPPING_SIZE) % E

RoundDown(x) == x - (x % LP)
RoundUp(x)   == RoundDown(x + LP - 1)

\* VIRTUAL(): the kernel's mapping of physical memory.
VIRTUAL(p) == KERN_PAGE_OFFSET + p

\* The page tables: present bits of the PML4 and PML3 entries, and the
\* physical page of each PML2 entry (NONE when not present), with the
\* panic a walk ran into.
Tables == [p4 : [Idx -> BOOLEAN], p3 : [Idx \X Idx -> BOOLEAN],
           p2 : [Idx \X Idx \X Idx -> Int], err : {"none", "size", "remap", "range"}]

ZeroTables == [p4 |-> [i \in Idx |-> FALSE], p3 |-> [x \in Idx \X Idx |-> FALSE],
               p2 |-> [x \in Idx \X Idx \X Idx |-> NONE], err |-> "none"]

\* Iterations of a loop from pointer base + first to base + last.
Count(first, last) == IF last >= first THEN last - first + 1 ELSE 0

-----------------------------------------------------------------------------
(* Mutant of MapPml2: the loop stops before pml2_index(vend - 1).         *)
MapPml2_short(st, i, j, vstart, vend, pstart) ==
    LET first == I2(vstart)
        n     == Count(first, I2(vend - 1) - 1)
        f[m \in 0 .. n] ==
            IF m = 0 THEN st
            ELSE LET s == f[m - 1]
                     k == first + m - 1
                 IN  IF s.err # "none" THEN s
                     ELSE IF s.p2[<<i, j, k>>] # NONE THEN [s EXCEPT !.err = "remap"]
                     ELSE [s EXCEPT !.p2[<<i, j, k>>] =
                                      pstart + (m - 1) * PML2_ENTRY_MAPPING_SIZE]
    IN  IF st.err # "none" THEN st
        ELSE IF vend < vstart \/ vend - vstart > PML2_MAPPING_SIZE
        THEN [st EXCEPT !.err = "size"]
        ELSE f[n]

(* map_pml2_range (lines 34-70): the size check, then one entry per        *)
(* iteration from pml2_index(vstart) to pml2_index(vend - 1); an entry     *)
(* already present is a panic.                                           *)
MapPml2(st, i, j, vstart, vend, pstart) ==
    LET first == I2(vstart)
        n     == Count(first, I2(vend - 1))
        f[m \in 0 .. n] ==
            IF m = 0 THEN st
            ELSE LET s == f[m - 1]
                     k == first + m - 1
                 IN  IF s.err # "none" THEN s
                     ELSE IF s.p2[<<i, j, k>>] # NONE THEN [s EXCEPT !.err = "remap"]
                     ELSE [s EXCEPT !.p2[<<i, j, k>>] =
                                      pstart + (m - 1) * PML2_ENTRY_MAPPING_SIZE]
    IN  IF st.err # "none" THEN st
        ELSE IF vend < vstart \/ vend - vstart > PML2_MAPPING_SIZE
        THEN [st EXCEPT !.err = "size"]
        ELSE f[n]

(* map_pml3_range (lines 77-125): each PML3 entry from pml3_index(vstart) *)
(* to pml3_index(vend - 1) is made present and its PML2 table filled from *)
(* vstart, up to vend for the last entry and one entry's span otherwise;  *)
(* vstart and pstart advance by that span.                               *)
MapPml3(st, i, vstart, vend, pstart) ==
    LET first == I3(vstart)
        last  == I3(vend - 1)
        n     == Count(first, last)
        f[m \in 0 .. n] ==
            IF m = 0 THEN st
            ELSE LET s   == f[m - 1]
                     j   == first + m - 1
                     vs  == vstart + (m - 1) * PML3_ENTRY_MAPPING_SIZE
                     ps  == pstart + (m - 1) * PML3_ENTRY_MAPPING_SIZE
                     end == IF j = last THEN vend ELSE vs + PML3_ENTRY_MAPPING_SIZE
                 IN  IF s.err # "none" THEN s
                     ELSE MapPml2([s EXCEPT !.p3[<<i, j>>] = TRUE], i, j, vs, end, ps)
    IN  IF st.err # "none" THEN st
        ELSE IF vend < vstart \/ vend - vstart > PML3_MAPPING_SIZE
        THEN [st EXCEPT !.err = "size"]
        ELSE f[n]

(* map_pml4_range (lines 131-179), the same one level up.                 *)
MapPml4(st, vstart, vend, pstart) ==
    LET first == I4(vstart)
        last  == I4(vend - 1)
        n     == Count(first, last)
        f[m \in 0 .. n] ==
            IF m = 0 THEN st
            ELSE LET s   == f[m - 1]
                     i   == first + m - 1
                     vs  == vstart + (m - 1) * PML4_ENTRY_MAPPING_SIZE
                     ps  == pstart + (m - 1) * PML4_ENTRY_MAPPING_SIZE
                     end == IF i = last THEN vend ELSE vs + PML4_ENTRY_MAPPING_SIZE
                 IN  IF s.err # "none" THEN s
                     ELSE MapPml3([s EXCEPT !.p4[i] = TRUE], i, vs, end, ps)
    IN  IF st.err # "none" THEN st
        ELSE IF vend < vstart \/ vend - vstart > PML4_MAPPING_SIZE
        THEN [st EXCEPT !.err = "size"]
        ELSE f[n]

(* map_kernel_range (lines 187-194).                                      *)
MapKernelRange(st, vstart, vlen, pstart) ==
    MapPml4(st, vstart, vstart + vlen, pstart)

(* vaddr_is_mapped (lines 201-234), without its assertions.               *)
VaddrIsMapped(st, v) ==
    /\ st.p4[I4(v)]
    /\ st.p3[<<I4(v), I3(v)>>]
    /\ st.p2[<<I4(v), I3(v), I2(v)>>] # NONE

(* Mutant of VmKmap: the unrounded pstart is mapped. *)
VmKmap_pstart(st, pstart, len) ==
    LET pend == pstart + len
        lo   == RoundDown(pstart)
        n    == (RoundUp(pend) - lo) \div LP
        f[m \in 0 .. n] ==
            IF m = 0 THEN st
            ELSE LET s == f[m - 1]
                     p == lo + (m - 1) * LP
                 IN  IF VaddrIsMapped(s, VIRTUAL(p)) THEN s
                     ELSE MapKernelRange(s, VIRTUAL(p), LP, pstart)
    IN  IF pend >= KERN_PHYS_END_MAX THEN [st EXCEPT !.err = "range"]
        ELSE f[n]

(* Mutant of VmKmap: the virtual page is one large page off. *)
VmKmap_shift(st, pstart, len) ==
    LET pend == pstart + len
        lo   == RoundDown(pstart)
        n    == (RoundUp(pend) - lo) \div LP
        f[m \in 0 .. n] ==
            IF m = 0 THEN st
            ELSE LET s == f[m - 1]
                     p == lo + (m - 1) * LP
                 IN  IF VaddrIsMapped(s, VIRTUAL(p)) THEN s
                     ELSE MapKernelRange(s, VIRTUAL(p) + LP, LP, p)
    IN  IF pend >= KERN_PHYS_END_MAX THEN [st EXCEPT !.err = "range"]
        ELSE f[n]

(* Mutant of VmKmap: no vaddr_is_mapped test. *)
VmKmap_nocheck(st, pstart, len) ==
    LET pend == pstart + len
        lo   == RoundDown(pstart)
        n    == (RoundUp(pend) - lo) \div LP
        f[m \in 0 .. n] ==
            IF m = 0 THEN st
            ELSE LET s == f[m - 1]
                     p == lo + (m - 1) * LP
                 IN  IF FALSE THEN s
                     ELSE MapKernelRange(s, VIRTUAL(p), LP, p)
    IN  IF pend >= KERN_PHYS_END_MAX THEN [st EXCEPT !.err = "range"]
        ELSE f[n]

(* vm_kmap (lines 241-271): map each large page of the physical range at   *)
(* its VIRTUAL() address, unless it already is.                          *)
VmKmap(st, pstart, len) ==
    LET pend == pstart + len
        lo   == RoundDown(pstart)
        n    == (RoundUp(pend) - lo) \div LP
        f[m \in 0 .. n] ==
            IF m = 0 THEN st
            ELSE LET s == f[m - 1]
                     p == lo + (m - 1) * LP
                 IN  IF VaddrIsMapped(s, VIRTUAL(p)) THEN s
                     ELSE MapKernelRange(s, VIRTUAL(p), LP, p)
    IN  IF pend >= KERN_PHYS_END_MAX THEN [st EXCEPT !.err = "range"]
        ELSE f[n]

(* vm_init (lines 277-301): the kernel text area, then all of physical    *)
(* memory up to the 2-MByte rounded phys_addr_end.                       *)
VmInit(physEnd) ==
    LET st1 == MapKernelRange(ZeroTables, KTEXT_PAGE_OFFSET, KTEXT_AREA_SIZE,
                              KTEXT_PHYS_OFFSET)
    IN  MapKernelRange(st1, KERN_PAGE_OFFSET, RoundUp(physEnd), 0)

-----------------------------------------------------------------------------
VARIABLES
    pt,     \* the page tables under kernel_pml4_table
    kpc,    \* "boot", "ready" after vm_init, or "panic"
    done    \* the mappings the calls that returned promise

vars == <<pt, kpc, done>>

\* A mapping a call promises: virtual [vs, ve) to physical ps upwards.
Promise(vs, ve, ps) == [vs |-> vs, ve |-> ve, ps |-> ps]

\* The result of a walk: the tables, and the kernel stops on a panic.
Apply(st, promised) ==
    /\ pt' = st
    /\ IF st.err = "none"
       THEN kpc' = kpc /\ done' = done \cup promised
       ELSE kpc' = "panic" /\ done' = done

Init ==
    /\ pt = ZeroTables
    /\ kpc = "boot"
    /\ done = {}

vm_init ==
    /\ kpc = "boot"
    /\ \E physEnd \in PhysEnds :
         /\ pt' = VmInit(physEnd)
         /\ IF pt'.err = "none"
            THEN /\ kpc' = "ready"
                 /\ done' = {Promise(KTEXT_PAGE_OFFSET,
                                     KTEXT_PAGE_OFFSET + KTEXT_AREA_SIZE,
                                     KTEXT_PHYS_OFFSET),
                             Promise(KERN_PAGE_OFFSET,
                                     KERN_PAGE_OFFSET + RoundUp(physEnd), 0)}
            ELSE kpc' = "panic" /\ done' = done

(* A driver maps device or firmware memory (apic_init, ioapic_base,       *)
(* mptables_init and parse_mpc call vm_kmap).                            *)
vm_kmap ==
    /\ kpc = "ready"
    /\ \E r \in KmapReqs :
         Apply(VmKmap(pt, r[1], r[2]),
               {Promise(VIRTUAL(r[1]), VIRTUAL(r[1] + r[2]), r[1])})

(* A caller of map_kernel_range keeping its stated contract (lines        *)
(* 181-186): 2-MByte aligned edges and physical start, an unmapped range *)
(* inside the address space.                                              *)
MapKernelRangeCall ==
    /\ kpc = "ready"
    /\ \E vs \in {v \in 0 .. PML4_MAPPING_SIZE - 1 : v % LP = 0},
          n \in 1 .. E + 1, ps \in {0, LP} :
         /\ vs + n * LP <= PML4_MAPPING_SIZE
         /\ \A v \in vs .. vs + n * LP - 1 : ~VaddrIsMapped(pt, v)
         /\ Apply(MapKernelRange(pt, vs, n * LP, ps), {Promise(vs, vs + n * LP, ps)})

Next == vm_init \/ vm_kmap

Spec == Init /\ [][Next]_vars

\* Callers of map_kernel_range other than vm_init and vm_kmap.
ContractNext == Next \/ MapKernelRangeCall

ContractSpec == Init /\ [][ContractNext]_vars

-----------------------------------------------------------------------------
TypeOK ==
    /\ pt \in Tables
    /\ \A x \in DOMAIN pt.p2 : pt.p2[x] = NONE \/ (pt.p2[x] >= 0 /\ pt.p2[x] % LP = 0)
    /\ kpc \in {"boot", "ready", "panic"}
    /\ done \subseteq [vs : Nat, ve : Nat, ps : Nat]

\* The physical page the tables map virtual address v to.
Frame(v) == pt.p2[<<I4(v), I3(v), I2(v)>>]

(* Every mapping a call returned for is in the tables: each address of     *)
(* the kernel text, of physical memory up to phys_addr_end and of a        *)
(* vm_kmap'ed region translates, through all three levels, to the large    *)
(* page that holds its physical address.                                  *)
RangesMapped ==
    \A r \in done : \A v \in r.vs .. r.ve - 1 :
        VaddrIsMapped(pt, v) /\ Frame(v) = RoundDown(v - r.vs + r.ps)

(* The assertion of vaddr_is_mapped (line 232) for the whole physical     *)
(* mapping: a present entry there maps the page VIRTUAL() names.          *)
KernMapIdentity ==
    \A v \in KERN_PAGE_OFFSET .. KERN_PAGE_OFFSET + KERN_PHYS_END_MAX - 1 :
        VaddrIsMapped(pt, v) => Frame(v) = RoundDown(v - KERN_PAGE_OFFSET)

(* vm_kmap of memory already mapped, by vm_init or an earlier vm_kmap,    *)
(* never reaches the "already mapped" panic of map_pml2_range.            *)
NoRemapPanic == pt.err # "remap"

=============================================================================
