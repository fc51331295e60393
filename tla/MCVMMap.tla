------------------------------ MODULE MCVMMap ------------------------------
(* VMMap scaled for TLC: 4 entries per table and 2 units per large page,  *)
(* so the address space has 128 units, the physical mapping starts at 64 *)
(* (PML4 entry 1 of 2) and the text area at 112.                         *)
EXTENDS VMMap

(* vm_kmap arguments: a page inside phys_addr_end, a range crossing into  *)
(* the next large page, one outside memory, one crossing                 *)
(* KERN_PHYS_END_MAX.                                                    *)
MCKmapReqs == {<<3, 2>>, <<14, 5>>, <<9, 4>>, <<25, 1>>, <<29, 2>>, <<31, 2>>}
=============================================================================
