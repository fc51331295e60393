-------------------------------- MODULE E820 --------------------------------
(***************************************************************************)
(* The E820h memory-map code of src/unnamed/part_000 (arch/x86_64/        *)
(* e820_map.c) and its twin src/arch/x86/mm/e820.c, over the buffer       *)
(* layout of src/unnamed/part_010 (e820.h).                               *)
(*                                                                         *)
(* The buffer real-mode code leaves below 1MB is a function from cell      *)
(* positions to cells.  A cell is one uint32 word, except a range cell,    *)
(* which stands for a whole struct e820_range; entry sizes are counted in  *)
(* cells.  Each cell carries the word a uint32 read of it returns (w) and  *)
(* the struct e820_range a read of it returns (rng).  A checksum sums the  *)
(* cells' weights, the stand-in for their bytes, modulo CHK_MOD (2^32).    *)
(*                                                                         *)
(* e820_init runs once, on the boot CPU; the page allocator then calls     *)
(* e820_sanitize_range on the available ranges, one at a time.            *)
(***************************************************************************)
EXTENDS Integers, FiniteSets

CONSTANTS
    MAXW,         \* E820_MAX - E820_BASE, in cells
    LEN,          \* cells of memory modelled from E820_BASE on
    CHK_MOD,      \* 2^32: the width of a uint32
    WORD,         \* 2^64: the width of a uint64
    PAGE_SIZE,    \* PAGE_SIZE
    KMEM_END,     \* PHYS(kmem_end), the end of the kernel's memory
    Ranges,       \* the struct e820_range values the BIOS may report
    MAX_ENTRIES   \* the most entries a buffer holds

\* The e820.h signatures and codes, scaled into 0 .. CHK_MOD - 1.
E820_END     == CHK_MOD - 1          \* 0xffffffff
E820_SUCCESS == 0
E820_BUF_FULL == 2
E820_INIT_SIG == CHK_MOD - 3
E820_VALID_SIG == CHK_MOD - 2
E820_AVAIL    == 1
E820_RESERVED == 2
E820_ERRORMEM == 5

ASSUME E820Assumption ==
    /\ MAXW \in Nat /\ LEN \in Nat /\ MAXW < LEN
    /\ CHK_MOD \in Nat /\ CHK_MOD > 8
    /\ PAGE_SIZE \in Nat \ {0}
    /\ WORD \in Nat /\ WORD % PAGE_SIZE = 0 /\ WORD > PAGE_SIZE
    /\ KMEM_END \in 0 .. WORD - 1 /\ KMEM_END % PAGE_SIZE = 0
    /\ Ranges \subseteq [base : 0 .. WORD - 1, len : 0 .. WORD - 1,
                         type : {E820_AVAIL, E820_RESERVED}]
    /\ MAX_ENTRIES \in Nat

NPages == WORD \div PAGE_SIZE

Range == [base : 0 .. WORD - 1, len : 0 .. WORD - 1, type : Nat]
Cell  == [w : 0 .. CHK_MOD - 1, rng : Range]
Pos   == 0 .. LEN - 1

\* A word cell, and the range cell of a struct e820_range.
WordCell(n) == [w |-> n, rng |-> [base |-> n, len |-> 0, type |-> 0]]
RangeCell(r) == [w |-> r.base % CHK_MOD, rng |-> r]

Weight(c) == IF c.rng.type = 0 THEN c.w ELSE c.rng.base + c.rng.len + c.rng.type

-----------------------------------------------------------------------------
(* The buffer real-mode code writes (e820.h, lines 9-55): the start       *)
(* signature, each entry's size then the entry (an ACPI 3.0 entry has an   *)
(* extra attributes word), E820_END, the error code and the checksum of   *)
(* everything before it.  A descriptor says what the BIOS and real-mode    *)
(* code produced, a corrupted signature or checksum included.             *)
Entries == UNION {[1 .. n -> [r : Ranges, size : {1, 2}]] : n \in 0 .. MAX_ENTRIES}
Descs == [sig : BOOLEAN, entries : Entries, err : {E820_SUCCESS, E820_BUF_FULL},
          chkOK : BOOLEAN]

\* Position of entry i's size word, and the position of E820_END.
EntryPos(d) ==
    LET f[i \in 0 .. MAX_ENTRIES + 1] ==
            IF i <= 1 THEN 1 ELSE f[i - 1] + 1 + d.entries[i - 1].size
    IN  f
EndPos(d) == EntryPos(d)[Cardinality(DOMAIN d.entries) + 1]

LayoutBody(d) ==
    [p \in Pos |->
        IF p = 0 THEN WordCell(IF d.sig THEN E820_INIT_SIG ELSE 0)
        ELSE IF \E i \in DOMAIN d.entries : p = EntryPos(d)[i]
        THEN WordCell(d.entries[CHOOSE i \in DOMAIN d.entries : p = EntryPos(d)[i]].size)
        ELSE IF \E i \in DOMAIN d.entries : p = EntryPos(d)[i] + 1
        THEN RangeCell(d.entries[CHOOSE i \in DOMAIN d.entries :
                                    p = EntryPos(d)[i] + 1].r)
        ELSE IF p = EndPos(d) THEN WordCell(E820_END)
        ELSE IF p = EndPos(d) + 1 THEN WordCell(d.err)
        ELSE WordCell(0)]

\* The sum of the weights of cells 0 .. n - 1, as e820_checksum adds.
SumTo(b) ==
    LET f[n \in 0 .. LEN] == IF n = 0 THEN 0 ELSE f[n - 1] + Weight(b[n - 1])
    IN  f

Layout(d) ==
    LET b == LayoutBody(d)
        c == EndPos(d) + 2
        s == SumTo(b)[c] % CHK_MOD
    IN  IF c < LEN
        THEN [b EXCEPT ![c] = WordCell(IF d.chkOK THEN s ELSE (s + 1) % CHK_MOD)]
        ELSE b

\* What the kernel should accept: the struct e820.h describes, whole,
\* reporting success, with a matching checksum, within E820_MAX.
WellFormed(d) == d.sig /\ d.err = E820_SUCCESS /\ d.chkOK /\ EndPos(d) + 3 <= MAXW

-----------------------------------------------------------------------------
VARIABLES
    desc,    \* what real-mode code wrote (history)
    buf,     \* the E820h struct and the memory after it
    setup,   \* memory_setup
    pc,      \* "boot", "ready" after e820_init, or the reason of a panic
    ret      \* ret[q]: e820_sanitize_range's result on the range at q

vars == <<desc, buf, setup, pc, ret>>

NOT_CALLED == 1

\* A uint32 read of position p; memory past the modelled cells reads 0.
W(b, p) == IF p < LEN THEN b[p].w ELSE 0

(* The walk of validate_e820h_struct (lines 135-146) and of the           *)
(* e820_for_each macro (e820.h 125-135) from position p: stop at          *)
(* E820_END, panic at or past E820_MAX, else skip the size word and the   *)
(* entry.  It returns where it stopped and the range positions passed.    *)
Walk(b) ==
    LET f[p \in Nat] ==
            IF W(b, p) = E820_END THEN [end |-> p, unterminated |-> FALSE, rs |-> {}]
            ELSE IF p >= MAXW THEN [end |-> p, unterminated |-> TRUE, rs |-> {}]
            ELSE [f[p + 1 + W(b, p)] EXCEPT !.rs = @ \cup {p + 1}]
    IN  f

(* Mutant of Validate: the final assert compiled out.                    *)
Validate_noassert(b) ==
    LET wk == Walk(b)[1]
        e  == wk.end
    IN  IF W(b, 0) # E820_INIT_SIG THEN "panic_sig"
        ELSE IF wk.unterminated THEN "panic_unterminated"
        ELSE IF W(b, e + 1) # E820_SUCCESS THEN "panic_err"
        ELSE IF SumTo(b)[e + 2] % CHK_MOD # W(b, e + 2) THEN "panic_chksum"
        ELSE "ok"

(* validate_e820h_struct (lines 122-173): the reason it panics, or "ok".  *)
Validate(b) ==
    LET wk == Walk(b)[1]
        e  == wk.end
    IN  IF W(b, 0) # E820_INIT_SIG THEN "panic_sig"
        ELSE IF wk.unterminated THEN "panic_unterminated"
        ELSE IF W(b, e + 1) # E820_SUCCESS THEN "panic_err"
        ELSE IF SumTo(b)[e + 2] % CHK_MOD # W(b, e + 2) THEN "panic_chksum"
        ELSE IF e + 3 > MAXW THEN "panic_assert"
        ELSE "ok"

(* The available ranges of the map, as e820_for_each visits them.         *)
AvailPos(b) == {q \in Walk(b)[1].rs : b[q].rng.type = E820_AVAIL}

(* Mutant of SumLen: avail_len = range->len instead of +=.              *)
SumLen_last(b, qs) ==
    LET f[n \in 0 .. LEN] ==
            IF n = 0 THEN 0
            ELSE IF n - 1 \in qs THEN b[n - 1].rng.len ELSE f[n - 1]
    IN  f[LEN]

(* The sums of build_memory_setup (lines 179-208), in uint64 arithmetic.  *)
SumLen(b, qs) ==
    LET f[n \in 0 .. LEN] ==
            IF n = 0 THEN 0
            ELSE (f[n - 1] + IF n - 1 \in qs THEN b[n - 1].rng.len ELSE 0) % WORD
    IN  f[LEN]
MaxEnd(b, qs) ==
    LET f[n \in 0 .. LEN] ==
            IF n = 0 THEN 0
            ELSE LET e == (b[n - 1].rng.base + b[n - 1].rng.len) % WORD
                 IN  IF n - 1 \in qs /\ e > f[n - 1] THEN e ELSE f[n - 1]
    IN  f[LEN]

(* Mutant of BuildMemorySetup: avail_pages = avail_len.               *)
BuildMemorySetup_nodiv(b) ==
    LET qs == AvailPos(b)
    IN  [valid |-> 1, avail_ranges |-> Cardinality(qs),
         avail_pages |-> SumLen(b, qs),
         phys_addr_end |-> MaxEnd(b, qs)]

BuildMemorySetup(b) ==
    LET qs == AvailPos(b)
    IN  [valid |-> 1, avail_ranges |-> Cardinality(qs),
         avail_pages |-> SumLen(b, qs) \div PAGE_SIZE,
         phys_addr_end |-> MaxEnd(b, qs)]

(* Mutant of RoundUp: ((x | (n - 1)) + 1), which moves an aligned x.    *)
RoundUp_noinc(x) == (((x \div PAGE_SIZE) + 1) * PAGE_SIZE) % WORD

(* round_up and round_down of kernel.h (lines 83-84) on a uint64.         *)
RoundUp(x)   == ((((x - 1) % WORD) \div PAGE_SIZE + 1) * PAGE_SIZE) % WORD
RoundDown(x) == x - (x % PAGE_SIZE)

(* e820_sanitize_range (e820.c lines 176-204) on range r: its result and  *)
(* the range it leaves.                                                   *)
Sanitize(r) ==
    LET start == RoundUp(r.base)
        end   == RoundDown((r.base + r.len) % WORD)
        s     == IF start < KMEM_END THEN KMEM_END ELSE start
    IN  IF end <= start THEN [ret |-> -1, rng |-> [r EXCEPT !.type = E820_ERRORMEM]]
        ELSE IF end <= KMEM_END THEN [ret |-> -1, rng |-> r]
        ELSE [ret |-> 0, rng |-> [r EXCEPT !.base = s, !.len = end - s]]

-----------------------------------------------------------------------------
Init ==
    /\ desc \in Descs
    /\ buf = Layout(desc)
    /\ setup = [valid |-> 0, avail_ranges |-> 0, avail_pages |-> 0,
                phys_addr_end |-> 0]
    /\ pc = "boot"
    /\ ret = [q \in Pos |-> NOT_CALLED]

(* e820_init (lines 257-261): validate, mark the struct valid, build the  *)
(* memory setup; or panic.                                               *)
e820_init ==
    /\ pc = "boot"
    /\ LET v == Validate(buf)
           b == [buf EXCEPT ![0] = WordCell(E820_VALID_SIG)]
       IN  IF v = "ok"
           THEN /\ buf' = b
                /\ setup' = BuildMemorySetup(b)
                /\ pc' = "ready"
           ELSE /\ pc' = v
                /\ UNCHANGED <<buf, setup>>
    /\ UNCHANGED <<desc, ret>>

(* The page allocator passes each available range to                      *)
(* e820_sanitize_range once, with the kernel's end (assert of line 214).  *)
SanitizeRange(q) ==
    /\ pc = "ready"
    /\ q \in AvailPos(buf)
    /\ ret[q] = NOT_CALLED
    /\ LET s == Sanitize(buf[q].rng)
       IN  /\ buf' = [buf EXCEPT ![q] = RangeCell(s.rng)]
           /\ ret' = [ret EXCEPT ![q] = s.ret]
    /\ UNCHANGED <<desc, setup, pc>>

Next == e820_init \/ \E q \in Pos : SanitizeRange(q)

Spec == Init /\ [][Next]_vars

-----------------------------------------------------------------------------
TypeOK ==
    /\ desc \in Descs
    /\ buf \in [Pos -> Cell]
    /\ setup \in [valid : {0, 1}, avail_ranges : Nat, avail_pages : 0 .. NPages,
                  phys_addr_end : 0 .. WORD - 1]
    /\ pc \in {"boot", "ready", "panic_sig", "panic_unterminated", "panic_err",
               "panic_chksum", "panic_assert"}
    /\ ret \in [Pos -> {NOT_CALLED, 0, -1}]

(* validate_e820h_struct accepts exactly the buffers e820.h describes:    *)
(* start signature, entries, end mark, success code and a matching        *)
(* checksum, all below E820_MAX; it panics on every other buffer.         *)
ValidationExact ==
    pc # "boot" => (pc = "ready" <=> WellFormed(desc))

\* The whole pages of a range, and those the kernel may hand out.
PagesOf(r) == {k \in 0 .. NPages - 1 :
                  r.base <= k * PAGE_SIZE /\ (k + 1) * PAGE_SIZE <= r.base + r.len}
UsablePages(r) == {k \in PagesOf(r) : KMEM_END <= k * PAGE_SIZE}

(* e820_sanitize_range, with its round_up/round_down bit arithmetic,      *)
(* keeps exactly the whole pages of the BIOS range above the kernel: an   *)
(* accepted range is page-aligned, non-empty and covers those pages; a    *)
(* rejected one has none; ERRORMEM marks exactly the ranges without a     *)
(* single whole page.                                                     *)
SanitizeExact ==
    \A q \in Pos : ret[q] # NOT_CALLED =>
        LET r == buf[q].rng
            o == Layout(desc)[q].rng
        IN  /\ ret[q] = 0 => /\ r.base % PAGE_SIZE = 0 /\ r.len % PAGE_SIZE = 0
                             /\ r.len > 0 /\ PagesOf(r) = UsablePages(o)
            /\ ret[q] = -1 => UsablePages(o) = {}
            /\ r.type = E820_ERRORMEM <=> PagesOf(o) = {}

\* The pages of the ranges sanitize accepted, summed over positions.
AcceptedPages[n \in 0 .. LEN] ==
    IF n = 0 THEN 0
    ELSE AcceptedPages[n - 1] +
         IF ret[n - 1] = 0 THEN buf[n - 1].rng.len \div PAGE_SIZE ELSE 0

(* The page allocator sizes itself from memory_setup before it fills      *)
(* itself from the sanitized ranges (comment of e820.c 206-210): the      *)
(* pages it is handed never outnumber avail_pages, and every one lies     *)
(* below phys_addr_end.                                                   *)
AllocatorFits ==
    pc = "ready" =>
        /\ AcceptedPages[LEN] <= setup.avail_pages
        /\ \A q \in Pos : ret[q] = 0 =>
               buf[q].rng.base + buf[q].rng.len <= setup.phys_addr_end

(* No page is handed to the page allocator twice: the ranges               *)
(* e820_sanitize_range accepts cover disjoint pages, whatever the BIOS    *)
(* reported (validate_e820h_struct does not check the entries, line 120). *)
AcceptedDisjoint ==
    \A q1, q2 \in Pos :
        q1 # q2 /\ ret[q1] = 0 /\ ret[q2] = 0 =>
            PagesOf(buf[q1].rng) \cap PagesOf(buf[q2].rng) = {}

=============================================================================
