----------------------------- MODULE MCMPTables -----------------------------
(* MPTables for TLC: the three search areas hold one, one and two         *)
(* candidate pointers; tables have up to three entries.                  *)
EXTENDS MPTables

\* A floating pointer whose checksum byte makes its bytes sum to `sum'.
MkMpf(sig, len, ver, feat, conf, sum) ==
    LET r == [signature |-> sig, length |-> len, version |-> ver, checksum |-> 0,
              feature1 |-> feat, conf_physaddr |-> conf]
    IN  [r EXCEPT !.checksum = (sum - MpfChecksum(r)) % CHK]

Good    == MkMpf(MPF_SIGNATURE, 1, 4, 0, 1, 0)
Good1   == MkMpf(MPF_SIGNATURE, 1, 1, 0, 1, 0)
BadSum  == MkMpf(MPF_SIGNATURE, 1, 4, 0, 1, 1)
BadVer  == MkMpf(MPF_SIGNATURE, 1, 2, 0, 1, 0)
BadLen  == MkMpf(MPF_SIGNATURE, 2, 4, 0, 1, 0)
Feat    == MkMpf(MPF_SIGNATURE, 1, 4, 1, 1, 0)
NoConf  == MkMpf(MPF_SIGNATURE, 1, 4, 0, 0, 0)
Blank   == MkMpf("none", 1, 4, 0, 1, 0)

(* EBDA, last KByte of base memory, BIOS ROM.                            *)
MCMemories ==
    { <<<<Good>>,   <<Blank>>,  <<Blank, Blank>>>>,
      <<<<BadSum>>, <<BadVer>>, <<BadLen, Good1>>>>,
      <<<<Blank>>,  <<Feat>>,   <<Good, Good>>>>,
      <<<<Blank>>,  <<Blank>>,  <<NoConf, Good>>>>,
      <<<<Blank>>,  <<Blank>>,  <<Blank, BadSum>>>> }

MkEntry(t, id, en, bsc, isa) == [type |-> t, id |-> id, enabled |-> en, bsc |-> bsc, isa |-> isa]

MCEntries ==
    { MkEntry(MP_PROCESSOR, 3, TRUE, TRUE, FALSE),
      MkEntry(MP_PROCESSOR, 1, TRUE, FALSE, FALSE),
      MkEntry(MP_PROCESSOR, 2, TRUE, FALSE, FALSE),
      MkEntry(MP_PROCESSOR, 0, FALSE, TRUE, FALSE),
      MkEntry(MP_BUS, 2, FALSE, FALSE, TRUE),
      MkEntry(MP_BUS, 3, FALSE, FALSE, FALSE),
      MkEntry(MP_IOAPIC, 1, TRUE, FALSE, FALSE),
      MkEntry(MP_IOINTERRUPT, 3, FALSE, FALSE, FALSE),
      MkEntry(MP_LINTERRUPT, 0, FALSE, FALSE, FALSE),
      MkEntry(5, 0, FALSE, FALSE, FALSE) }

MkMpc(sig, ver, es, sum) ==
    LET r == [signature |-> sig, version |-> ver, checksum |-> 0, entries |-> es]
    IN  [r EXCEPT !.checksum = (sum - MpcChecksum(r)) % CHK]

MCTables ==
    UNION { { MkMpc(MPC_SIGNATURE, 4, es, 0), MkMpc(MPC_SIGNATURE, 1, es, 1) } :
            es \in UNION {[1 .. n -> MCEntries] : n \in 0 .. 3} }
=============================================================================
