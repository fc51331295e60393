------------------------------- MODULE MCE820 -------------------------------
(* A 32-byte address space of 4-byte pages, the kernel ending at 8, a     *)
(* 16-valued checksum, and ranges that are unaligned, below the kernel,   *)
(* across its end and above it.  The ranges lie below the top of the      *)
(* address space, as physical memory does (MAXPHYADDR < 64).             *)
EXTENDS E820

MCRanges ==
    {r \in [base : {1, 4, 12}, len : {3, 6, 12},
            type : {E820_AVAIL, E820_RESERVED}] : r.base + r.len < WORD}
=============================================================================
