------------------------------ MODULE MPTables ------------------------------
(***************************************************************************)
(* Parsing of the Intel MultiProcessor tables, src/arch/x86_64/mptables.c: *)
(* get_mpf's search for the MP floating pointer in three memory areas,     *)
(* mptables_init's checks of the pointer and of the configuration table    *)
(* header (mpc_check), and parse_mpc's walk over the table entries into    *)
(* cpus[], ioapic_descs[], mp_irqs[] and mp_isa_busid, one loop iteration  *)
(* per step.                                                               *)
(*                                                                         *)
(* Structures are records of their fields; a checksum is the sum of the    *)
(* bytes of the fields it covers, modulo CHK (256 in the code).  An entry  *)
(* is abstracted to its type and the fields the parsers read.             *)
(***************************************************************************)
EXTENDS Integers, Sequences, FiniteSets

CONSTANTS
    CPUS_MAX,      \* size of cpus[]
    IOAPICS_MAX,   \* size of ioapic_descs[]
    MAX_IRQS,      \* size of mp_irqs[]
    CHK,           \* modulus of the uint8_t checksum
    Memories,      \* contents of the three search areas: sequences of MP floating pointers
    Tables         \* MP configuration tables the BIOS may provide

ASSUME MPTablesAssumption ==
    /\ CPUS_MAX \in Nat \ {0} /\ IOAPICS_MAX \in Nat /\ MAX_IRQS \in Nat
    /\ CHK \in Nat \ {0}

\* Byte values of the two signatures ("_MP_" and "PCMP"), and of others.
MPF_SIGNATURE == "_MP_"
MPC_SIGNATURE == "PCMP"
SigBytes(sig) == CASE sig = MPF_SIGNATURE -> 95 + 77 + 80 + 95
                   [] sig = MPC_SIGNATURE -> 80 + 67 + 77 + 80
                   [] OTHER               -> 0

\* Entry types of the MP specification, as parse_mpc switches on them.
MP_PROCESSOR == 0
MP_BUS == 1
MP_IOAPIC == 2
MP_IOINTERRUPT == 3
MP_LINTERRUPT == 4

NONE == -1

\* A floating pointer: its fields, reserved bytes folded into `checksum'.
Mpf == [signature : {MPF_SIGNATURE, "none"}, length : {1, 2}, version : {1, 2, 4},
        checksum : 0 .. CHK - 1, feature1 : {0, 1}, conf_physaddr : {0, 1}]

\* An entry: type, id (lapic_id, bus or I/O APIC id, IRQ source), and the
\* flags its parser reads (`enabled', `bsc', bus type "ISA").
Entry == [type : 0 .. 5, id : 0 .. 3, enabled : BOOLEAN, bsc : BOOLEAN, isa : BOOLEAN]

Mpc == [signature : {MPC_SIGNATURE, "none"}, version : {1, 2, 4},
        checksum : 0 .. CHK - 1, entries : Seq(Entry)]

Bit(b) == IF b THEN 1 ELSE 0

(* mpf_checksum (lines 63-73): the uint8_t sum of the bytes covered.       *)
MpfChecksum(f) ==
    (SigBytes(f.signature) + f.length + f.version + f.checksum + f.feature1
       + f.conf_physaddr) % CHK

EntryBytes(e) == e.type + e.id + Bit(e.enabled) + 2 * Bit(e.bsc) + Bit(e.isa)

MpcChecksum(t) ==
    LET f[n \in 0 .. Len(t.entries)] ==
            IF n = 0 THEN SigBytes(t.signature) + t.version + t.checksum
            ELSE f[n - 1] + EntryBytes(t.entries[n])
    IN  f[Len(t.entries)] % CHK

(* The tests of search_for_mpf (lines 93-113) on one candidate.           *)
MpfValid(f) ==
    /\ f.signature = MPF_SIGNATURE
    /\ f.length = 1
    /\ f.version \in {1, 4}
    /\ MpfChecksum(f) = 0

(* mpc_check (lines 161-187).                                             *)
MpcCheck(t) ==
    /\ t.signature = MPC_SIGNATURE
    /\ t.version \in {1, 4}
    /\ MpcChecksum(t) = 0

-----------------------------------------------------------------------------
VARIABLES
    mem,          \* the three areas get_mpf searches, in its order
    mpc,          \* the configuration table conf_physaddr points to
    pc,           \* where mptables_init is, or why it panicked
    area, slot,   \* search_for_mpf's area and candidate
    i,            \* parse_mpc's loop index (from 1)
    nr_cpus, cpu_ids, bsc_entry_filled,
    nr_ioapics, ioapic_ids,
    nr_mpcirqs, mp_irqs,
    mp_isa_busid

vars == <<mem, mpc, pc, area, slot, i, nr_cpus, cpu_ids, bsc_entry_filled,
          nr_ioapics, ioapic_ids, nr_mpcirqs, mp_irqs, mp_isa_busid>>

parsed == <<nr_cpus, cpu_ids, bsc_entry_filled, nr_ioapics, ioapic_ids,
            nr_mpcirqs, mp_irqs, mp_isa_busid>>

Init ==
    /\ mem \in Memories
    /\ mpc \in Tables
    /\ pc = "search"
    /\ area = 1 /\ slot = 1 /\ i = 1
    /\ nr_cpus = 1                                   \* line 26
    /\ cpu_ids = [c \in 0 .. CPUS_MAX - 1 |-> 0]     \* static cpus[]
    /\ bsc_entry_filled = FALSE
    /\ nr_ioapics = 0 /\ ioapic_ids = [a \in 0 .. IOAPICS_MAX - 1 |-> NONE]
    /\ nr_mpcirqs = 0 /\ mp_irqs = [q \in 0 .. MAX_IRQS - 1 |-> NONE]
    /\ mp_isa_busid = NONE                           \* line 47

-----------------------------------------------------------------------------
(* Mutant of SearchSlot: the checksum test of line 107 is dropped.       *)
SearchSlot_nochk ==
    /\ pc = "search"
    /\ slot <= Len(mem[area])
    /\ LET f == mem[area][slot]
       IN  IF f.signature = MPF_SIGNATURE /\ f.length = 1 /\ f.version \in {1, 4}
           THEN pc' = CASE f.feature1 # 0      -> "panic_default_conf"
                        [] f.conf_physaddr = 0 -> "panic_no_conf"
                        [] OTHER               -> "mpc"
           ELSE pc' = pc
    /\ slot' = slot + 1
    /\ UNCHANGED <<mem, mpc, area, i>> /\ UNCHANGED parsed

(* One iteration of search_for_mpf (lines 87-115); a valid candidate ends *)
(* get_mpf and mptables_init goes on to its checks (lines 380-390).      *)
SearchSlot ==
    /\ pc = "search"
    /\ slot <= Len(mem[area])
    /\ IF MpfValid(mem[area][slot])
       THEN LET f == mem[area][slot]
            IN  pc' = CASE f.feature1 # 0      -> "panic_default_conf"
                        [] f.conf_physaddr = 0 -> "panic_no_conf"
                        [] OTHER               -> "mpc"
       ELSE pc' = pc
    /\ slot' = slot + 1
    /\ UNCHANGED <<mem, mpc, area, i>> /\ UNCHANGED parsed

(* search_for_mpf returns NULL and get_mpf tries its next area (lines     *)
(* 139-151), or mptables_init panics (lines 382-384).                    *)
NextArea ==
    /\ pc = "search"
    /\ slot > Len(mem[area])
    /\ IF area < Len(mem)
       THEN area' = area + 1 /\ slot' = 1 /\ pc' = pc
       ELSE pc' = "panic_no_mpf" /\ UNCHANGED <<area, slot>>
    /\ UNCHANGED <<mem, mpc, i>> /\ UNCHANGED parsed

(* mpc_check on the table header (lines 396-399).                        *)
CheckMpc ==
    /\ pc = "mpc"
    /\ pc' = IF MpcCheck(mpc) THEN "parse" ELSE "panic_mpc"
    /\ UNCHANGED <<mem, mpc, area, slot, i>> /\ UNCHANGED parsed

(* Mutant of ParseCpu: the limit test is `>' instead of `>='.             *)
ParseCpu_limit(e) ==
    CASE ~e.enabled ->
           pc' = pc /\ UNCHANGED parsed
      [] e.bsc /\ bsc_entry_filled ->
           pc' = "panic_two_bsc" /\ UNCHANGED parsed
      [] e.bsc ->
           /\ cpu_ids' = [cpu_ids EXCEPT ![0] = e.id]
           /\ bsc_entry_filled' = TRUE
           /\ pc' = pc
           /\ UNCHANGED <<nr_cpus, nr_ioapics, ioapic_ids, nr_mpcirqs, mp_irqs, mp_isa_busid>>
      [] nr_cpus > CPUS_MAX ->
           pc' = "panic_cpus_max" /\ UNCHANGED parsed
      [] OTHER ->
           /\ cpu_ids' = [cpu_ids EXCEPT ![nr_cpus] = e.id]
           /\ nr_cpus' = nr_cpus + 1
           /\ pc' = pc
           /\ UNCHANGED <<bsc_entry_filled, nr_ioapics, ioapic_ids, nr_mpcirqs, mp_irqs, mp_isa_busid>>

(* Mutant of ParseCpu: the bootstrap core is stored at cpus[nr_cpus].     *)
ParseCpu_bscslot(e) ==
    CASE ~e.enabled ->
           pc' = pc /\ UNCHANGED parsed
      [] e.bsc /\ bsc_entry_filled ->
           pc' = "panic_two_bsc" /\ UNCHANGED parsed
      [] e.bsc ->
           /\ cpu_ids' = [cpu_ids EXCEPT ![nr_cpus] = e.id]
           /\ bsc_entry_filled' = TRUE
           /\ pc' = pc
           /\ UNCHANGED <<nr_cpus, nr_ioapics, ioapic_ids, nr_mpcirqs, mp_irqs, mp_isa_busid>>
      [] nr_cpus >= CPUS_MAX ->
           pc' = "panic_cpus_max" /\ UNCHANGED parsed
      [] OTHER ->
           /\ cpu_ids' = [cpu_ids EXCEPT ![nr_cpus] = e.id]
           /\ nr_cpus' = nr_cpus + 1
           /\ pc' = pc
           /\ UNCHANGED <<bsc_entry_filled, nr_ioapics, ioapic_ids, nr_mpcirqs, mp_irqs, mp_isa_busid>>

(* parse_cpu (lines 226-252).                                             *)
ParseCpu(e) ==
    CASE ~e.enabled ->
           pc' = pc /\ UNCHANGED parsed
      [] e.bsc /\ bsc_entry_filled ->
           pc' = "panic_two_bsc" /\ UNCHANGED parsed
      [] e.bsc ->
           /\ cpu_ids' = [cpu_ids EXCEPT ![0] = e.id]
           /\ bsc_entry_filled' = TRUE
           /\ pc' = pc
           /\ UNCHANGED <<nr_cpus, nr_ioapics, ioapic_ids, nr_mpcirqs, mp_irqs, mp_isa_busid>>
      [] nr_cpus >= CPUS_MAX ->
           pc' = "panic_cpus_max" /\ UNCHANGED parsed
      [] OTHER ->
           /\ cpu_ids' = [cpu_ids EXCEPT ![nr_cpus] = e.id]
           /\ nr_cpus' = nr_cpus + 1
           /\ pc' = pc
           /\ UNCHANGED <<bsc_entry_filled, nr_ioapics, ioapic_ids, nr_mpcirqs, mp_irqs, mp_isa_busid>>

(* parse_ioapic (lines 260-278).                                          *)
ParseIoapic(e) ==
    CASE ~e.enabled ->
           pc' = pc /\ UNCHANGED parsed
      [] nr_ioapics >= IOAPICS_MAX ->
           pc' = "panic_ioapics_max" /\ UNCHANGED parsed
      [] OTHER ->
           /\ ioapic_ids' = [ioapic_ids EXCEPT ![nr_ioapics] = e.id]
           /\ nr_ioapics' = nr_ioapics + 1
           /\ pc' = pc
           /\ UNCHANGED <<nr_cpus, cpu_ids, bsc_entry_filled, nr_mpcirqs, mp_irqs, mp_isa_busid>>

(* parse_irq (lines 286-297).                                             *)
ParseIrq(e) ==
    CASE nr_mpcirqs >= MAX_IRQS ->
           pc' = "panic_irqs_max" /\ UNCHANGED parsed
      [] OTHER ->
           /\ mp_irqs' = [mp_irqs EXCEPT ![nr_mpcirqs] = e.id]
           /\ nr_mpcirqs' = nr_mpcirqs + 1
           /\ pc' = pc
           /\ UNCHANGED <<nr_cpus, cpu_ids, bsc_entry_filled, nr_ioapics, ioapic_ids, mp_isa_busid>>

(* parse_bus (lines 303-313): only the ISA bus is recorded.               *)
ParseBus(e) ==
    /\ mp_isa_busid' = IF e.isa THEN e.id ELSE mp_isa_busid
    /\ pc' = pc
    /\ UNCHANGED <<nr_cpus, cpu_ids, bsc_entry_filled, nr_ioapics, ioapic_ids, nr_mpcirqs, mp_irqs>>

(* One iteration of parse_mpc's loop (lines 328-360); an unknown type     *)
(* makes it return 0 and mptables_init panic (lines 403-406).            *)
ParseEntry ==
    /\ pc = "parse"
    /\ i <= Len(mpc.entries)
    /\ LET e == mpc.entries[i]
       IN  CASE e.type = MP_PROCESSOR   -> ParseCpu(e)
             [] e.type = MP_BUS         -> ParseBus(e)
             [] e.type = MP_IOAPIC      -> ParseIoapic(e)
             [] e.type = MP_IOINTERRUPT -> ParseIrq(e)
             [] e.type = MP_LINTERRUPT  -> pc' = pc /\ UNCHANGED parsed
             [] OTHER                   -> pc' = "panic_unknown_entry" /\ UNCHANGED parsed
    /\ i' = i + 1
    /\ UNCHANGED <<mem, mpc, area, slot>>

(* parse_mpc returns 1 after the last entry.                             *)
ParseDone ==
    /\ pc = "parse"
    /\ i > Len(mpc.entries)
    /\ pc' = "done"
    /\ UNCHANGED <<mem, mpc, area, slot, i>> /\ UNCHANGED parsed

Next ==
    \/ SearchSlot \/ NextArea \/ CheckMpc \/ ParseEntry \/ ParseDone

Spec == Init /\ [][Next]_vars

-----------------------------------------------------------------------------
Terminal == {"done", "panic_no_mpf", "panic_default_conf", "panic_no_conf",
             "panic_mpc", "panic_two_bsc", "panic_cpus_max",
             "panic_ioapics_max", "panic_irqs_max", "panic_unknown_entry"}

TypeOK ==
    /\ pc \in {"search", "mpc", "parse"} \cup Terminal
    /\ area \in 1 .. Len(mem) /\ slot \in 1 .. Len(mem[area]) + 1
    /\ i \in 1 .. Len(mpc.entries) + 1
    /\ nr_cpus \in 1 .. CPUS_MAX
    /\ cpu_ids \in [0 .. CPUS_MAX - 1 -> 0 .. 3]
    /\ bsc_entry_filled \in BOOLEAN
    /\ nr_ioapics \in 0 .. IOAPICS_MAX
    /\ ioapic_ids \in [0 .. IOAPICS_MAX - 1 -> 0 .. 3 \cup {NONE}]
    /\ nr_mpcirqs \in 0 .. MAX_IRQS
    /\ mp_irqs \in [0 .. MAX_IRQS - 1 -> 0 .. 3 \cup {NONE}]
    /\ mp_isa_busid \in 0 .. 3 \cup {NONE}

(* The reference outcome of mptables_init, stated on the whole memory and *)
(* table rather than by the loops: the first valid floating pointer in   *)
(* search order, and for each entry the counts of the entries before it. *)
Candidates == {<<a, k>> \in (1 .. Len(mem)) \X (1 .. 8) :
                  k <= Len(mem[a]) /\ MpfValid(mem[a][k])}
Before(p, q) == p[1] < q[1] \/ (p[1] = q[1] /\ p[2] < q[2])
FirstMpf == CHOOSE p \in Candidates : \A q \in Candidates \ {p} : Before(p, q)

Es == mpc.entries
IsCpu(j)    == Es[j].type = MP_PROCESSOR /\ Es[j].enabled /\ ~Es[j].bsc
IsBsc(j)    == Es[j].type = MP_PROCESSOR /\ Es[j].enabled /\ Es[j].bsc
IsIoapic(j) == Es[j].type = MP_IOAPIC /\ Es[j].enabled
IsIrq(j)    == Es[j].type = MP_IOINTERRUPT
IsIsa(j)    == Es[j].type = MP_BUS /\ Es[j].isa
Upto(P(_), n) == {j \in 1 .. n : P(j)}

\* Why entry j makes parse_mpc fail, given the entries before it.
Fails(j) ==
    CASE IsBsc(j) /\ Upto(IsBsc, j - 1) # {}                   -> "panic_two_bsc"
      [] IsCpu(j) /\ 1 + Cardinality(Upto(IsCpu, j - 1)) >= CPUS_MAX -> "panic_cpus_max"
      [] IsIoapic(j) /\ Cardinality(Upto(IsIoapic, j - 1)) >= IOAPICS_MAX -> "panic_ioapics_max"
      [] IsIrq(j) /\ Cardinality(Upto(IsIrq, j - 1)) >= MAX_IRQS -> "panic_irqs_max"
      [] Es[j].type > MP_LINTERRUPT                             -> "panic_unknown_entry"
      [] OTHER                                                  -> "none"

Failing == {j \in 1 .. Len(Es) : Fails(j) # "none"}

Outcome ==
    LET f == mem[FirstMpf[1]][FirstMpf[2]]
    IN  CASE Candidates = {}      -> "panic_no_mpf"
          [] f.feature1 # 0       -> "panic_default_conf"
          [] f.conf_physaddr = 0  -> "panic_no_conf"
          [] ~MpcCheck(mpc)       -> "panic_mpc"
          [] Failing # {}         -> Fails(CHOOSE j \in Failing : \A k \in Failing : j <= k)
          [] OTHER                -> "done"

(* mptables_init ends the way the tables determine: get_mpf takes the     *)
(* first floating pointer that passes every test of search_for_mpf, in   *)
(* the order EBDA, base memory, BIOS ROM, and mptables_init panics on     *)
(* the first defect of the pointer, the header or an entry.              *)
InitOutcome ==
    /\ pc \in Terminal => pc = Outcome
    /\ pc \in {"mpc", "parse"} => <<area, slot - 1>> = FirstMpf

\* The k-th entry, in table order, of those satisfying P.
Kth(P(_), k) == CHOOSE j \in 1 .. Len(Es) : P(j) /\ Cardinality(Upto(P, j)) = k
Last(P(_)) == CHOOSE j \in Upto(P, Len(Es)) : \A k \in Upto(P, Len(Es)) : k <= j

(* When parse_mpc succeeds, the system-wide tables hold exactly the       *)
(* table's data: slot 0 of cpus[] the bootstrap core's APIC id, slots    *)
(* 1 .. nr_cpus - 1 the other enabled cores in table order, the enabled   *)
(* I/O APICs, every interrupt source, and the last ISA bus id.            *)
ParsedTablesExact ==
    pc = "done" =>
      /\ nr_cpus = 1 + Cardinality(Upto(IsCpu, Len(Es)))
      /\ \A k \in 1 .. nr_cpus - 1 : cpu_ids[k] = Es[Kth(IsCpu, k)].id
      /\ cpu_ids[0] = IF Upto(IsBsc, Len(Es)) = {} THEN 0 ELSE Es[Last(IsBsc)].id
      /\ nr_ioapics = Cardinality(Upto(IsIoapic, Len(Es)))
      /\ \A k \in 1 .. nr_ioapics : ioapic_ids[k - 1] = Es[Kth(IsIoapic, k)].id
      /\ nr_mpcirqs = Cardinality(Upto(IsIrq, Len(Es)))
      /\ \A k \in 1 .. nr_mpcirqs : mp_irqs[k - 1] = Es[Kth(IsIrq, k)].id
      /\ mp_isa_busid = IF Upto(IsIsa, Len(Es)) = {} THEN NONE ELSE Es[Last(IsIsa)].id

=============================================================================
