----------------------------- MODULE E820Proofs -----------------------------
(***************************************************************************)
(* Proofs about the E820 model: for every page size, word width, kernel   *)
(* end and set of BIOS ranges below the last page of the address space,   *)
(* e820_sanitize_range keeps exactly the whole pages of each available    *)
(* range above the kernel.  The argument needs no fact about the walks    *)
(* and sums of the buffer (recursive functions, out of the provers'       *)
(* reach): only that an available cell of the buffer is a BIOS range.     *)
(***************************************************************************)
EXTENDS E820, TLAPS

\* The facts about the constants that the page arithmetic uses.
LEMMA PageConstants ==
    /\ PAGE_SIZE \in Nat \ {0}
    /\ WORD \in Nat /\ WORD % PAGE_SIZE = 0 /\ WORD > PAGE_SIZE
    /\ KMEM_END \in 0 .. WORD - 1 /\ KMEM_END % PAGE_SIZE = 0
  BY E820Assumption

USE PageConstants

\* The BIOS ranges lie below the last page of the 64-bit address space:
\* x86-64 physical addresses have at most 52 bits.
RangesBelowLastPage == \A r \in Ranges : r.base + r.len <= WORD - PAGE_SIZE

-----------------------------------------------------------------------------
(* Arithmetic on page-aligned numbers.                                     *)
LEMMA MulLeq ==
    ASSUME NEW x \in Int, NEW y \in Int, NEW k \in Nat, x <= y
    PROVE  x * k <= y * k
  BY SMT

LEMMA MulLessInv ==
    ASSUME NEW x \in Int, NEW y \in Int, NEW k \in Nat \ {0}, x * k < y * k
    PROVE  x < y
  BY SMT

\* A multiple of the page size is the page index times the page size.
LEMMA Aligned ==
    ASSUME NEW x \in Int, x % PAGE_SIZE = 0
    PROVE  x = (x \div PAGE_SIZE) * PAGE_SIZE
  BY SMT

LEMMA PageMultiple ==
    ASSUME NEW k \in Int PROVE (k * PAGE_SIZE) % PAGE_SIZE = 0
  BY SMT

\* Two distinct page-aligned numbers are at least a page apart.
LEMMA AlignedGap ==
    ASSUME NEW x \in Int, NEW y \in Int,
           x % PAGE_SIZE = 0, y % PAGE_SIZE = 0, x < y
    PROVE  x + PAGE_SIZE <= y
<1> DEFINE a == x \div PAGE_SIZE
           c == y \div PAGE_SIZE
<1>1. a \in Int /\ c \in Int /\ x = a * PAGE_SIZE /\ y = c * PAGE_SIZE
  BY Aligned
<1>2. a < c
  BY <1>1, MulLessInv
<1>3. (a + 1) * PAGE_SIZE <= c * PAGE_SIZE
  BY <1>2, MulLeq
<1>. QED BY <1>1, <1>3

-----------------------------------------------------------------------------
(* round_up of a base below the last page is the first page boundary at  *)
(* or above it: no uint64 wrap.                                           *)
LEMMA RoundUpFacts ==
    ASSUME NEW b \in 0 .. WORD - PAGE_SIZE
    PROVE  /\ RoundUp(b) \in 0 .. WORD - PAGE_SIZE
           /\ RoundUp(b) % PAGE_SIZE = 0
           /\ b <= RoundUp(b) /\ RoundUp(b) < b + PAGE_SIZE
<1> DEFINE n == WORD \div PAGE_SIZE
<1>1. n \in Nat /\ WORD = n * PAGE_SIZE
  BY Aligned
<1>2. CASE b = 0
  <2>1. (b - 1) % WORD = WORD - 1
    BY <1>2
  <2>2. (WORD - 1) \div PAGE_SIZE = n - 1
    BY <1>1
  <2>3. RoundUp(b) = (n * PAGE_SIZE) % WORD
    BY <2>1, <2>2 DEF RoundUp
  <2>. QED BY <1>1, <1>2, <2>3
<1>3. CASE b # 0
  <2> DEFINE a == (b - 1) \div PAGE_SIZE
             u == (a + 1) * PAGE_SIZE
  <2>1. (b - 1) % WORD = b - 1
    BY <1>3
  <2>2. a \in Nat /\ a * PAGE_SIZE <= b - 1 /\ b - 1 < a * PAGE_SIZE + PAGE_SIZE
    BY <1>3
  <2>3. u % PAGE_SIZE = 0 /\ b <= u /\ u < b + PAGE_SIZE
    BY <2>2, PageMultiple
  <2>4. u + PAGE_SIZE <= WORD
    <3>1. WORD % PAGE_SIZE = 0
      OBVIOUS
    <3>2. u < WORD
      BY <2>3
    <3>. QED BY <2>3, <3>1, <3>2, AlignedGap
  <2>5. RoundUp(b) = u % WORD
    BY <2>1 DEF RoundUp
  <2>. QED BY <2>3, <2>4, <2>5
<1>. QED BY <1>2, <1>3

\* round_down of a number is the last page boundary at or below it.
LEMMA RoundDownFacts ==
    ASSUME NEW x \in Nat
    PROVE  /\ RoundDown(x) \in Nat /\ RoundDown(x) % PAGE_SIZE = 0
           /\ RoundDown(x) <= x /\ x < RoundDown(x) + PAGE_SIZE
<1>1. /\ x % PAGE_SIZE \in 0 .. PAGE_SIZE - 1
      /\ x = (x \div PAGE_SIZE) * PAGE_SIZE + (x % PAGE_SIZE)
      /\ x \div PAGE_SIZE \in Nat
  <2>1. x % PAGE_SIZE \in 0 .. PAGE_SIZE - 1
    BY SMT
  <2>2. x = (x \div PAGE_SIZE) * PAGE_SIZE + (x % PAGE_SIZE)
    BY SMT
  <2>3. x \div PAGE_SIZE \in Nat
    BY SMT
  <2>. QED BY <2>1, <2>2, <2>3
<1>2. RoundDown(x) = (x \div PAGE_SIZE) * PAGE_SIZE
  BY <1>1 DEF RoundDown
<1>3. RoundDown(x) % PAGE_SIZE = 0
  BY <1>1, <1>2, PageMultiple
<1>. QED BY <1>1, <1>2, <1>3

(* A page starts at or above a number exactly when it starts at or above  *)
(* the number rounded up, and ends at or below a number exactly when it   *)
(* ends at or below the number rounded down.                              *)
LEMMA PageStart ==
    ASSUME NEW b \in Int, NEW u \in Int, u % PAGE_SIZE = 0,
           b <= u, u < b + PAGE_SIZE, NEW k \in Int
    PROVE  b <= k * PAGE_SIZE <=> u <= k * PAGE_SIZE
<1>1. ASSUME b <= k * PAGE_SIZE, k * PAGE_SIZE < u PROVE FALSE
  <2>0. k * PAGE_SIZE \in Int /\ (k * PAGE_SIZE) % PAGE_SIZE = 0
    BY PageMultiple
  <2>1. k * PAGE_SIZE + PAGE_SIZE <= u
    BY <1>1, <2>0, AlignedGap, Zenon
  <2>. QED BY <1>1, <2>1
<1>. QED BY <1>1

LEMMA PageEnd ==
    ASSUME NEW x \in Int, NEW d \in Int, d % PAGE_SIZE = 0,
           d <= x, x < d + PAGE_SIZE, NEW k \in Int
    PROVE  (k + 1) * PAGE_SIZE <= x <=> (k + 1) * PAGE_SIZE <= d
<1>1. ASSUME (k + 1) * PAGE_SIZE <= x, d < (k + 1) * PAGE_SIZE PROVE FALSE
  <2>0. (k + 1) * PAGE_SIZE \in Int /\ ((k + 1) * PAGE_SIZE) % PAGE_SIZE = 0
    BY PageMultiple
  <2>1. d + PAGE_SIZE <= (k + 1) * PAGE_SIZE
    BY <1>1, <2>0, AlignedGap, Zenon
  <2>. QED BY <1>1, <2>1
<1>. QED BY <1>1

LEMMA MulSucc ==
    ASSUME NEW a \in Int, NEW k \in Int
    PROVE  (a + 1) * k = a * k + k
  BY SMT

LEMMA NPagesNat == NPages \in Nat
  BY DEF NPages

\* A page boundary below the last page starts a page of the address space.
LEMMA PageIndex ==
    ASSUME NEW x \in Nat, x % PAGE_SIZE = 0, x + PAGE_SIZE <= WORD
    PROVE  \E k \in 0 .. NPages - 1 : k * PAGE_SIZE = x
<1> DEFINE a == x \div PAGE_SIZE
<1>1. a * PAGE_SIZE = x /\ a \in Nat
  BY Aligned
<1>2. WORD = NPages * PAGE_SIZE /\ NPages \in Nat
  BY Aligned DEF NPages
<1> HIDE DEF a
<1>3. a < NPages
  BY <1>1, <1>2, MulLessInv
<1>4. a \in 0 .. NPages - 1
  BY <1>1, <1>2, <1>3
<1>. QED BY <1>1, <1>4

(* e820_sanitize_range on an available BIOS range below the last page:   *)
(* an accepted range is aligned, non-empty and has exactly the range's     *)
(* whole pages above the kernel; a rejected range has none; ERRORMEM      *)
(* marks exactly the ranges without a whole page.                          *)
LEMMA SanitizeCorrect ==
    ASSUME NEW r \in Ranges, r.type = E820_AVAIL,
           r.base + r.len <= WORD - PAGE_SIZE
    PROVE  LET s == Sanitize(r) IN
           /\ s.ret \in {0, -1}
           /\ s.ret = 0 => /\ s.rng.base % PAGE_SIZE = 0
                           /\ s.rng.len % PAGE_SIZE = 0
                           /\ s.rng.len > 0
                           /\ PagesOf(s.rng) = UsablePages(r)
           /\ s.ret = -1 => UsablePages(r) = {}
           /\ s.rng.type = E820_ERRORMEM <=> PagesOf(r) = {}
<1> DEFINE b == r.base
           l == r.len
           U == RoundUp(b)
           D == RoundDown(b + l)
           S == IF U < KMEM_END THEN KMEM_END ELSE U
           P == PAGE_SIZE
<1>1. r \in [base : 0 .. WORD - 1, len : 0 .. WORD - 1,
             type : {E820_AVAIL, E820_RESERVED}]
  BY E820Assumption, Zenon
<1>2. /\ b \in 0 .. WORD - PAGE_SIZE /\ l \in Nat /\ b + l \in Nat
      /\ (b + l) % WORD = b + l
  BY <1>1
<1>3. /\ U \in 0 .. WORD - PAGE_SIZE /\ U % PAGE_SIZE = 0
      /\ b <= U /\ U < b + PAGE_SIZE
  BY <1>2, RoundUpFacts, Zenon
<1>4. /\ D \in Nat /\ D % PAGE_SIZE = 0
      /\ D <= b + l /\ b + l < D + PAGE_SIZE
  BY <1>2, RoundDownFacts, Zenon
<1>5. Sanitize(r) =
        IF D <= U THEN [ret |-> -1, rng |-> [r EXCEPT !.type = E820_ERRORMEM]]
        ELSE IF D <= KMEM_END THEN [ret |-> -1, rng |-> r]
        ELSE [ret |-> 0, rng |-> [r EXCEPT !.base = S, !.len = D - S]]
  BY <1>2, Zenon DEF Sanitize
<1> HIDE DEF U, D, S, b, l
<1>6. ASSUME NEW k \in 0 .. NPages - 1
      PROVE  /\ (b <= k * P /\ (k + 1) * P <= b + l)
                  <=> (U <= k * P /\ (k + 1) * P <= D)
             /\ (k + 1) * P = k * P + P
  <2>0. b \in Int /\ U \in Int /\ b + l \in Int /\ D \in Int /\ k \in Int
    BY <1>2, <1>3, <1>4
  <2>1. b <= k * P <=> U <= k * P
    BY <1>3, <2>0, PageStart, Zenon
  <2>2. (k + 1) * P <= b + l <=> (k + 1) * P <= D
    BY <1>4, <2>0, PageEnd, Zenon
  <2>3. (k + 1) * P = k * P + P
    BY <2>0, MulSucc
  <2>. QED BY <2>1, <2>2, <2>3, Zenon
<1>7. \A k : k \in PagesOf(r) <=>
               /\ k \in 0 .. NPages - 1
               /\ U <= k * P /\ (k + 1) * P <= D
  BY <1>6, Zenon DEF PagesOf, b, l
<1>8. U \in Int /\ D \in Int /\ NPages \in Nat
  BY <1>3, <1>4, NPagesNat
<1>9. ASSUME NEW k \in 0 .. NPages - 1
      PROVE  k * P \in Int /\ (k + 1) * P = k * P + P
  BY <1>6
<1>10. CASE D <= U
  <2>1. PagesOf(r) = {}
    <3>1. ASSUME NEW k \in PagesOf(r) PROVE FALSE
      <4>1. k \in 0 .. NPages - 1 /\ U <= k * P /\ (k + 1) * P <= D
        BY <1>7, <3>1
      <4>2. k * P \in Int /\ (k + 1) * P = k * P + P
        BY <4>1, <1>9
      <4>. QED BY <1>8, <1>10, <4>1, <4>2
    <3>. QED BY <3>1
  <2>2. UsablePages(r) = {}
    BY <2>1 DEF UsablePages
  <2> DEFINE e == [r EXCEPT !.type = E820_ERRORMEM]
  <2>3. e.type = E820_ERRORMEM
    BY <1>1
  <2> HIDE DEF e
  <2>4. Sanitize(r) = [ret |-> -1, rng |-> e]
    BY <1>5, <1>10, Zenon DEF e
  <2>5. Sanitize(r).ret = -1 /\ Sanitize(r).rng.type = E820_ERRORMEM
    BY <2>3, <2>4
  <2> HIDE DEF P
  <2>. QED BY <2>1, <2>2, <2>5
<1>11. ASSUME NEW x \in Nat, x % PAGE_SIZE = 0, U <= x, x + PAGE_SIZE <= D
       PROVE  PagesOf(r) # {}
  <2>1. x + PAGE_SIZE <= WORD
    BY <1>2, <1>4, <1>11
  <2>2. PICK k \in 0 .. NPages - 1 : k * P = x
    BY <1>11, <2>1, PageIndex
  <2>3. U <= k * P /\ (k + 1) * P <= D
    <3>1. k * P \in Int /\ (k + 1) * P = k * P + P
      BY <1>9
    <3>. QED BY <1>8, <1>11, <2>2, <3>1
  <2>4. k \in PagesOf(r)
    BY <1>7, <2>3, Zenon
  <2>. QED BY <2>4
<1>12. CASE U < D /\ D <= KMEM_END
  <2>1. PagesOf(r) # {}
    <3>1. U + PAGE_SIZE <= D
      BY <1>3, <1>4, <1>12, AlignedGap
    <3>2. U \in Nat
      BY <1>3
    <3>. QED BY <1>3, <3>1, <3>2, <1>11
  <2>2. UsablePages(r) = {}
    <3>1. ASSUME NEW k \in UsablePages(r) PROVE FALSE
      <4>1. k \in 0 .. NPages - 1 /\ (k + 1) * P <= D /\ KMEM_END <= k * P
        BY <1>7, <3>1, Zenon DEF UsablePages
      <4>2. k * P \in Int /\ (k + 1) * P = k * P + P
        BY <4>1, <1>9
      <4>. QED BY <1>8, <1>12, <4>1, <4>2
    <3>. QED BY <3>1
  <2>3. ~(D <= U) /\ D <= KMEM_END
    BY <1>8, <1>12
  <2>4. Sanitize(r) = [ret |-> -1, rng |-> r]
    BY <1>5, <2>3, Zenon
  <2>5. r.type # E820_ERRORMEM
    BY DEF E820_AVAIL, E820_ERRORMEM
  <2>. QED BY <2>1, <2>2, <2>4, <2>5
<1>13. CASE U < D /\ KMEM_END < D
  <2>1. /\ S % PAGE_SIZE = 0 /\ S < D /\ S \in Nat /\ U <= S /\ KMEM_END <= S
        /\ (S = U \/ S = KMEM_END)
    <3>1. S = U \/ S = KMEM_END
      BY DEF S
    <3>2. U <= S /\ KMEM_END <= S
      BY <1>8 DEF S
    <3>. QED BY <1>3, <1>8, <1>13, <3>1, <3>2
  <2>2. (D - S) % PAGE_SIZE = 0
    <3> DEFINE dd == D \div PAGE_SIZE
               sd == S \div PAGE_SIZE
    <3>1. D = dd * PAGE_SIZE /\ S = sd * PAGE_SIZE
      BY <1>4, <2>1, Aligned
    <3>2. dd \in Int /\ sd \in Int
      BY <1>4, <2>1
    <3> HIDE DEF dd, sd
    <3>3. D - S = (dd - sd) * PAGE_SIZE
      BY <3>1, <3>2
    <3>. QED BY <3>2, <3>3, PageMultiple
  <2>3. ~(D <= U) /\ ~(D <= KMEM_END)
    BY <1>8, <1>13
  <2> DEFINE t == [r EXCEPT !.base = S, !.len = D - S]
  <2>4. Sanitize(r) = [ret |-> 0, rng |-> t]
    BY <1>5, <2>3, Zenon
  <2>5. t.base = S /\ t.len = D - S /\ t.type = E820_AVAIL
    BY <1>1
  <2> HIDE DEF t
  <2>6. PagesOf(t) = UsablePages(r)
    <3>1. ASSUME NEW k
          PROVE  k \in PagesOf(t) <=> k \in UsablePages(r)
      <4>1. k \in PagesOf(t) <=>
              k \in 0 .. NPages - 1 /\ S <= k * P /\ (k + 1) * P <= S + (D - S)
        BY <2>5, Zenon DEF PagesOf
      <4>2. k \in UsablePages(r) <=>
              k \in 0 .. NPages - 1 /\ U <= k * P /\ (k + 1) * P <= D
              /\ KMEM_END <= k * P
        BY <1>7, Zenon DEF UsablePages
      <4>3. CASE k \in 0 .. NPages - 1
        <5>1. k * P \in Int /\ S + (D - S) = D
          BY <2>1, <4>3, <1>8, <1>9
        <5>2. S <= k * P <=> U <= k * P /\ KMEM_END <= k * P
          BY <1>8, <2>1, <5>1
        <5>. QED BY <4>1, <4>2, <4>3, <5>1, <5>2
      <4>4. CASE k \notin 0 .. NPages - 1
        BY <4>1, <4>2, <4>4
      <4>. QED BY <4>3, <4>4
    <3>. QED BY <3>1, Zenon
  <2>7. PagesOf(r) # {}
    <3>1. S + PAGE_SIZE <= D
      BY <1>4, <2>1, AlignedGap
    <3>. QED BY <2>1, <3>1, <1>11
  <2>8. t.len > 0 /\ t.type # E820_ERRORMEM
    BY <1>8, <2>1, <2>5 DEF E820_AVAIL, E820_ERRORMEM
  <2>9. t.base % PAGE_SIZE = 0 /\ t.len % PAGE_SIZE = 0
    BY <2>1, <2>2, <2>5
  <2>. QED BY <2>4, <2>6, <2>7, <2>8, <2>9
<1>. QED BY <1>8, <1>10, <1>12, <1>13

-----------------------------------------------------------------------------
(* The buffer real-mode code writes: every cell is a word cell, whose      *)
(* range part has type 0, except the range cells, which hold BIOS ranges.  *)
LEMMA WordCellType ==
    ASSUME NEW n PROVE WordCell(n).rng.type = 0
  BY DEF WordCell

LEMMA EntryRanges ==
    ASSUME NEW d \in Descs, NEW i \in DOMAIN d.entries
    PROVE  d.entries[i].r \in Ranges
<1>1. PICK n \in 0 .. MAX_ENTRIES :
          d.entries \in [1 .. n -> [r : Ranges, size : {1, 2}]]
  BY Zenon DEF Descs, Entries
<1>. QED BY <1>1, Zenon

LEMMA LayoutBodyCell ==
    ASSUME NEW d \in Descs, NEW q \in Pos, LayoutBody(d)[q].rng.type # 0
    PROVE  LayoutBody(d)[q].rng \in Ranges
<1> DEFINE E == EntryPos(d)
           at(i) == q = E[i] + 1
           ch == CHOOSE i \in DOMAIN d.entries : at(i)
<1>1. LayoutBody(d)[q] =
        IF q = 0 THEN WordCell(IF d.sig THEN E820_INIT_SIG ELSE 0)
        ELSE IF \E i \in DOMAIN d.entries : q = E[i]
        THEN WordCell(d.entries[CHOOSE i \in DOMAIN d.entries : q = E[i]].size)
        ELSE IF \E i \in DOMAIN d.entries : at(i)
        THEN RangeCell(d.entries[ch].r)
        ELSE IF q = EndPos(d) THEN WordCell(E820_END)
        ELSE IF q = EndPos(d) + 1 THEN WordCell(d.err)
        ELSE WordCell(0)
  BY Zenon DEF LayoutBody
<1> HIDE DEF E
<1>2. CASE ~(q = 0) /\ ~(\E i \in DOMAIN d.entries : q = E[i])
           /\ \E i \in DOMAIN d.entries : at(i)
  <2>1. ch \in DOMAIN d.entries
    BY <1>2, Zenon
  <2>2. d.entries[ch].r \in Ranges
    BY <2>1, EntryRanges, Zenon
  <2>3. LayoutBody(d)[q] = RangeCell(d.entries[ch].r)
    BY <1>1, <1>2, Zenon
  <2>. QED BY <2>2, <2>3 DEF RangeCell
<1>3. CASE ~(~(q = 0) /\ ~(\E i \in DOMAIN d.entries : q = E[i])
             /\ \E i \in DOMAIN d.entries : at(i))
  <2>1. \E n : LayoutBody(d)[q] = WordCell(n)
    BY <1>1, <1>3, Zenon
  <2>. QED BY <2>1, WordCellType
<1>. QED BY <1>2, <1>3

(* The buffer spans the modelled cells, starts with a word, and an        *)
(* available cell in it is a BIOS range.                                  *)
LEMMA LayoutShape ==
    ASSUME NEW d \in Descs
    PROVE  /\ DOMAIN Layout(d) = Pos
           /\ \A q \in Pos : Layout(d)[q].rng.type # 0 =>
                                Layout(d)[q].rng \in Ranges
           /\ Layout(d)[0].rng.type = 0
<1> DEFINE b == LayoutBody(d)
           c == EndPos(d) + 2
           v == WordCell(IF d.chkOK THEN SumTo(b)[c] % CHK_MOD
                         ELSE ((SumTo(b)[c] % CHK_MOD) + 1) % CHK_MOD)
<1>1. Layout(d) = IF c < LEN THEN [b EXCEPT ![c] = v] ELSE b
  BY Zenon DEF Layout
<1> HIDE DEF c, v
<1>2. DOMAIN b = Pos
  BY DEF LayoutBody
<1>3. 0 \in Pos
  BY E820Assumption DEF Pos
<1>4. \A q \in Pos : Layout(d)[q] = b[q] \/ Layout(d)[q] = v
  BY <1>1, <1>2
<1>5. v.rng.type = 0
  BY WordCellType DEF v
<1>6. b[0].rng.type = 0
  <2>1. b[0] = WordCell(IF d.sig THEN E820_INIT_SIG ELSE 0)
    BY <1>3 DEF LayoutBody
  <2>. QED BY <2>1, WordCellType
<1>7. DOMAIN Layout(d) = Pos
  BY <1>1, <1>2
<1>. QED BY <1>3, <1>4, <1>5, <1>6, <1>7, LayoutBodyCell

-----------------------------------------------------------------------------
(* The inductive invariant behind SanitizeExact: the cell at 0 is a word; *)
(* a range the allocator has not sanitized is still what the BIOS wrote;  *)
(* one it has sanitized holds e820_sanitize_range's result on what the    *)
(* BIOS wrote, and that was an available BIOS range.                      *)
IInv ==
    /\ desc \in Descs
    /\ DOMAIN buf = Pos
    /\ DOMAIN ret = Pos
    /\ buf[0].rng.type = 0
    /\ \A q \in Pos \ {0} : ret[q] = NOT_CALLED => buf[q] = Layout(desc)[q]
    /\ \A q \in Pos : ret[q] # NOT_CALLED =>
          /\ q # 0
          /\ Layout(desc)[q].rng \in Ranges
          /\ Layout(desc)[q].rng.type = E820_AVAIL
          /\ buf[q] = RangeCell(Sanitize(Layout(desc)[q].rng).rng)
          /\ ret[q] = Sanitize(Layout(desc)[q].rng).ret

LEMMA InitIInv == Init => IInv
<1> SUFFICES ASSUME Init PROVE IInv
  OBVIOUS
<1>1. desc \in Descs /\ buf = Layout(desc) /\ ret = [q \in Pos |-> NOT_CALLED]
  BY DEF Init
<1>2. DOMAIN buf = Pos /\ buf[0].rng.type = 0
  BY <1>1, LayoutShape
<1>. QED BY <1>1, <1>2 DEF IInv

LEMMA E820InitIInv == IInv /\ e820_init => IInv'
<1> SUFFICES ASSUME IInv, e820_init PROVE IInv'
  OBVIOUS
<1> DEFINE b == [buf EXCEPT ![0] = WordCell(E820_VALID_SIG)]
<1>1. UNCHANGED <<desc, ret>>
  BY DEF e820_init
<1>2. buf' = buf \/ buf' = b
  BY Zenon DEF e820_init
<1>3. 0 \in Pos
  BY E820Assumption DEF Pos
<1>4. DOMAIN b = Pos /\ b[0].rng.type = 0 /\ \A q \in Pos \ {0} : b[q] = buf[q]
  BY <1>3, WordCellType DEF IInv
<1>. QED BY <1>1, <1>2, <1>4 DEF IInv

(* e820_sanitize_range returns 0 or -1, never the value of "not called". *)
LEMMA SanitizeRet ==
    ASSUME NEW r PROVE Sanitize(r).ret \in {0, -1}
  BY Zenon DEF Sanitize

LEMMA SanitizeRangeIInv ==
    ASSUME NEW q \in Pos, IInv, SanitizeRange(q) PROVE IInv'
<1> DEFINE o == Layout(desc)[q].rng
           s == Sanitize(buf[q].rng)
<1>1. buf[q].rng.type = E820_AVAIL /\ ret[q] = NOT_CALLED
  BY Zenon DEF SanitizeRange, AvailPos
<1>2. q # 0
  BY <1>1 DEF IInv, E820_AVAIL
<1>3. buf[q] = Layout(desc)[q]
  BY <1>1, <1>2 DEF IInv
<1>4. o.type = E820_AVAIL /\ o \in Ranges
  BY <1>1, <1>3, LayoutShape DEF IInv, E820_AVAIL
<1>5. /\ buf' = [buf EXCEPT ![q] = RangeCell(s.rng)]
      /\ ret' = [ret EXCEPT ![q] = s.ret]
      /\ UNCHANGED desc
  BY Zenon DEF SanitizeRange
<1>6. s = Sanitize(o) /\ s.ret # NOT_CALLED
  BY <1>3, SanitizeRet DEF o, s, NOT_CALLED
<1>7. o = Layout(desc)[q].rng
  OBVIOUS
<1> HIDE DEF o, s
<1>8. \A p \in Pos \ {0} : ret'[p] = NOT_CALLED => buf'[p] = Layout(desc')[p]
  BY <1>5, <1>6 DEF IInv
<1>9. \A p \in Pos : ret'[p] # NOT_CALLED =>
          /\ p # 0
          /\ Layout(desc')[p].rng \in Ranges
          /\ Layout(desc')[p].rng.type = E820_AVAIL
          /\ buf'[p] = RangeCell(Sanitize(Layout(desc')[p].rng).rng)
          /\ ret'[p] = Sanitize(Layout(desc')[p].rng).ret
  BY <1>2, <1>4, <1>5, <1>6, <1>7 DEF IInv
<1>. QED BY <1>2, <1>5, <1>8, <1>9 DEF IInv

LEMMA NextIInv == IInv /\ [Next]_vars => IInv'
<1> SUFFICES ASSUME IInv, [Next]_vars PROVE IInv'
  OBVIOUS
<1>1. CASE e820_init
  BY <1>1, E820InitIInv
<1>2. CASE \E q \in Pos : SanitizeRange(q)
  BY <1>2, SanitizeRangeIInv
<1>3. CASE UNCHANGED vars
  BY <1>3 DEF IInv, vars
<1>. QED BY <1>1, <1>2, <1>3 DEF Next

LEMMA IInvInvariant == Spec => []IInv
  BY InitIInv, NextIInv, PTL DEF Spec

-----------------------------------------------------------------------------
(* e820_sanitize_range, on every range the allocator hands it after       *)
(* e820_init, returns 0 with a page-aligned, non-empty range covering     *)
(* exactly the BIOS range's whole pages above the kernel, or -1 when it   *)
(* has no such page, and marks it E820_ERRORMEM exactly when it covers no *)
(* whole page: for every word width, page size and kernel end, given that *)
(* no BIOS range reaches into the last page of the address space.         *)
THEOREM SanitizeExactHolds ==
    ASSUME RangesBelowLastPage PROVE Spec => []SanitizeExact
<1>1. IInv => SanitizeExact
  <2> SUFFICES ASSUME IInv, NEW q \in Pos, ret[q] # NOT_CALLED
               PROVE  LET r == buf[q].rng
                          o == Layout(desc)[q].rng
                      IN  /\ ret[q] = 0 => /\ r.base % PAGE_SIZE = 0
                                           /\ r.len % PAGE_SIZE = 0
                                           /\ r.len > 0
                                           /\ PagesOf(r) = UsablePages(o)
                          /\ ret[q] = -1 => UsablePages(o) = {}
                          /\ r.type = E820_ERRORMEM <=> PagesOf(o) = {}
    BY Zenon DEF SanitizeExact
  <2> DEFINE o == Layout(desc)[q].rng
  <2>1. o \in Ranges /\ o.type = E820_AVAIL
        /\ buf[q].rng = Sanitize(o).rng /\ ret[q] = Sanitize(o).ret
    BY DEF IInv, RangeCell
  <2>2. o.base + o.len <= WORD - PAGE_SIZE
    BY <2>1 DEF RangesBelowLastPage
  <2>3. o = Layout(desc)[q].rng
    OBVIOUS
  <2> HIDE DEF o
  <2>4. /\ Sanitize(o).ret = 0 =>
             /\ Sanitize(o).rng.base % PAGE_SIZE = 0
             /\ Sanitize(o).rng.len % PAGE_SIZE = 0
             /\ Sanitize(o).rng.len > 0
             /\ PagesOf(Sanitize(o).rng) = UsablePages(o)
        /\ Sanitize(o).ret = -1 => UsablePages(o) = {}
        /\ Sanitize(o).rng.type = E820_ERRORMEM <=> PagesOf(o) = {}
    BY <2>1, <2>2, SanitizeCorrect
  <2>. QED BY <2>1, <2>3, <2>4, Zenon
<1>. QED BY <1>1, IInvInvariant, PTL
=============================================================================
