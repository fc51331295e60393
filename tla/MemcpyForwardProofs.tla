------------------------ MODULE MemcpyForwardProofs ------------------------
(***************************************************************************)
(* Proofs about MemcpyForward, for every size of the callers' area and     *)
(* every largest length: the copy of __memcpy_forward is exact for every   *)
(* call memcpy_forward's check lets through and every call a caller of     *)
(* the unchecked entries may make.                                         *)
(*                                                                         *)
(* The inductive invariant IInv says where each loop is: in `rep movsb',   *)
(* rcx bytes remain and the first len % 8 - rcx bytes of dst hold src's;   *)
(* in `rep movsq', rcx quadwords remain and all but the last 8 * rcx bytes *)
(* are copied.  Each iteration reads bytes the copy has not yet written,   *)
(* because the call is forward-safe (dst before src, or disjoint), which   *)
(* IInv records from the moment the copy starts.                           *)
(***************************************************************************)
EXTENDS MemcpyForward, TLAPS

(* dst after its first k bytes were copied from src, and nothing else;    *)
(* each address first held its own number (Orig).                         *)
CopiedOf(d, s, k) ==
    [a \in Addr |-> IF d <= a /\ a < d + k THEN s + (a - d) ELSE a]

Copied(k) == CopiedOf(call.dst, call.src, k)

(* The byte loop's position: rcx bytes of len % 8 remain.                 *)
InMovsb ==
    /\ rcx \in 0 .. call.len % QWORD
    /\ rdi = call.dst + ((call.len % QWORD) - rcx)
    /\ rsi = call.src + ((call.len % QWORD) - rcx)
    /\ mem = Copied((call.len % QWORD) - rcx)

(* The quadword loop's position: rcx quadwords remain.                     *)
InMovsq ==
    /\ rcx \in 0 .. call.len \div QWORD
    /\ rdi = call.dst + (call.len - QWORD * rcx)
    /\ rsi = call.src + (call.len - QWORD * rcx)
    /\ mem = Copied(call.len - QWORD * rcx)

IInv ==
    /\ TypeOK
    /\ pc \in {"entry", "panic"} => mem = Orig
    /\ pc \in {"movsb", "movsq", "done"} => ForwardSafe(call.dst, call.src, call.len)
    /\ pc = "movsb" => InMovsb
    /\ pc = "movsq" => InMovsq
    /\ pc = "done" => mem = Copied(call.len)

-----------------------------------------------------------------------------
(* What a call's record holds: the regions lie in the callers' area.      *)
LEMMA CallBounds ==
    ASSUME NEW c \in Calls
    PROVE  /\ c.entry \in Entries
           /\ c.dst \in 0 .. AREA - 1 /\ c.src \in 0 .. AREA - 1
           /\ c.len \in 0 .. MAXLEN
           /\ c.dst + c.len <= AREA /\ c.src + c.len <= AREA
           /\ Contract(c.entry, c.dst, c.src, c.len)
BY DEF Calls

(* Every call that reaches the copy is one a forward copy serves: the      *)
(* check of line 68 rules out dst before src by less than a quadword, and *)
(* the unchecked entries' callers promise it.                              *)
LEMMA StartSafe ==
    ASSUME NEW c \in Calls,
           c.entry = "memcpy_forward" => ~BadOverlap(c.dst, c.src, c.len)
    PROVE  ForwardSafe(c.dst, c.src, c.len)
<1>1. /\ c.dst \in Nat /\ c.src \in Nat /\ c.len \in Nat
      /\ c.entry \in Entries
      /\ Contract(c.entry, c.dst, c.src, c.len)
  BY CallBounds
<1>2. CASE c.entry = "memcpy_forward"
  BY <1>1, <1>2 DEF BadOverlap, ForwardSafe, QWORD
<1>3. CASE c.entry = "memcpy_forward_nocheck"
  BY <1>1, <1>3 DEF Contract
<1>4. CASE c.entry = "memcpy_nocheck"
  BY <1>1, <1>4 DEF Contract, ForwardSafe
<1>. QED BY <1>1, <1>2, <1>3, <1>4 DEF Entries

-----------------------------------------------------------------------------
(* The start of a copy: __memcpy_forward is entered with nothing copied.  *)
LEMMA StartIInv ==
    ASSUME IInv, pc = "entry", Start, UNCHANGED <<mem, call>>,
           ForwardSafe(call.dst, call.src, call.len)
    PROVE  IInv'
<1>1. /\ call.dst \in 0 .. AREA - 1 /\ call.src \in 0 .. AREA - 1
      /\ call.len \in 0 .. MAXLEN
      /\ call.dst + call.len <= AREA /\ call.src + call.len <= AREA
  BY CallBounds DEF IInv, TypeOK
<1>2. mem = Orig
  BY DEF IInv
<1>3. Copied(0)' = Orig
  BY <1>1, MemcpyAssumption DEF Start, Copied, CopiedOf, Orig, Addr, MEM, QWORD
<1>4. TypeOK'
  BY <1>1, <1>2, MemcpyAssumption DEF IInv, TypeOK, Start, QWORD, MEM, Orig, Addr
<1>. QED
  BY <1>1, <1>2, <1>3, <1>4 DEF IInv, Start, InMovsb, QWORD

(* A prefix of the copy keeps memory within the addresses.                *)
LEMMA CopiedType ==
    ASSUME NEW d \in Nat, NEW s \in Nat, NEW n \in Nat,
           d + n <= AREA, s + n <= AREA, NEW k \in 0 .. n
    PROVE  CopiedOf(d, s, k) \in [Addr -> Addr]
BY MemcpyAssumption DEF CopiedOf, Addr, MEM, QWORD

(* What a byte of the copy does to the copied prefix.                     *)
ByteStep(d, s, k) ==
    /\ CopiedOf(d, s, k)[s + k] = s + k
    /\ [CopiedOf(d, s, k) EXCEPT ![d + k] = s + k] = CopiedOf(d, s, k + 1)

(* Extending the copied prefix by a byte: the next byte of dst takes the  *)
(* next byte of src, which a forward-safe copy has not overwritten.       *)
LEMMA CopiedStep ==
    ASSUME NEW d \in Nat, NEW s \in Nat, NEW n \in Nat,
           d + n <= AREA, s + n <= AREA, ForwardSafe(d, s, n),
           NEW k \in 0 .. n - 1
    PROVE  ByteStep(d, s, k)
<1>1. s + k \in Addr /\ d + k \in Addr
  BY MemcpyAssumption DEF Addr, MEM, QWORD
<1>2. CopiedOf(d, s, k)[s + k] = s + k
  BY <1>1, MemcpyAssumption DEF CopiedOf, ForwardSafe, Addr, MEM, QWORD
<1>3. [CopiedOf(d, s, k) EXCEPT ![d + k] = s + k] = CopiedOf(d, s, k + 1)
  <2>1. [CopiedOf(d, s, k) EXCEPT ![d + k] = s + k]
        = [a \in Addr |-> IF a = d + k THEN s + k ELSE CopiedOf(d, s, k)[a]]
    BY <1>1 DEF CopiedOf
  <2>2. \A a \in Addr : (IF a = d + k THEN s + k ELSE CopiedOf(d, s, k)[a])
                        = CopiedOf(d, s, k + 1)[a]
    BY MemcpyAssumption DEF CopiedOf, Addr, MEM, QWORD
  <2>. QED BY <2>1, <2>2 DEF CopiedOf
<1>. QED BY <1>2, <1>3 DEF ByteStep

(* One iteration of `rep movsb' copies the next byte.                      *)
LEMMA MovsbIInv ==
    ASSUME IInv, Movsb
    PROVE  IInv'
<1> DEFINE d == call.dst  sr == call.src  n == call.len
           k == (n % QWORD) - rcx
<1>1. /\ call \in Calls /\ d \in Nat /\ sr \in Nat /\ n \in Nat
      /\ d + n <= AREA /\ sr + n <= AREA /\ rcx \in Nat
  BY CallBounds DEF IInv, TypeOK
<1>2. /\ InMovsb /\ ForwardSafe(d, sr, n)
      /\ rcx # 0 /\ call' = call /\ pc' = pc /\ pc = "movsb"
  BY DEF Movsb, IInv
<1>3. /\ k \in 0 .. n - 1 /\ k + 1 \in 0 .. n
      /\ k + 1 = (n % QWORD) - rcx' /\ rcx' \in 0 .. n % QWORD
      /\ rdi = d + k /\ rsi = sr + k
  BY <1>1, <1>2 DEF InMovsb, Movsb, QWORD
<1>4. mem' = CopiedOf(d, sr, k + 1)
  <2>1. mem' = [CopiedOf(d, sr, k) EXCEPT ![d + k] = CopiedOf(d, sr, k)[sr + k]]
    BY <1>2, <1>3 DEF Movsb, InMovsb, Copied
  <2>2. ByteStep(d, sr, k)
    BY <1>1, <1>2, <1>3, CopiedStep
  <2>. QED BY <2>1, <2>2 DEF ByteStep
<1>5. /\ rdi' = d + (k + 1) /\ rsi' = sr + (k + 1)
      /\ rdi' \in 0 .. MEM /\ rsi' \in 0 .. MEM /\ rcx' \in Nat
  BY <1>1, <1>3, MemcpyAssumption DEF Movsb, MEM, QWORD
<1>6. mem' \in [Addr -> Addr]
  BY <1>1, <1>3, <1>4, CopiedType, Zenon
<1>7. InMovsb'
  BY <1>2, <1>3, <1>4, <1>5 DEF InMovsb, Copied
<1>. QED
  BY <1>1, <1>2, <1>5, <1>6, <1>7 DEF IInv, TypeOK

(* A quadword of the copy is eight bytes of it: loaded whole, stored      *)
(* whole, and read from bytes the forward-safe copy has not reached.      *)
LEMMA CopiedQword ==
    ASSUME NEW d \in Nat, NEW s \in Nat, NEW n \in Nat,
           d + n <= AREA, s + n <= AREA, ForwardSafe(d, s, n),
           NEW k \in 0 .. n - QWORD
    PROVE  [a \in Addr |-> IF a \in d + k .. d + k + QWORD - 1
                           THEN CopiedOf(d, s, k)[s + k + (a - (d + k))]
                           ELSE CopiedOf(d, s, k)[a]]
           = CopiedOf(d, s, k + QWORD)
<1>1. \A j \in 0 .. QWORD - 1 : /\ s + k + j \in Addr
                                /\ CopiedOf(d, s, k)[s + k + j] = s + k + j
  BY MemcpyAssumption DEF CopiedOf, ForwardSafe, Addr, MEM, QWORD
<1>2. \A a \in Addr : (IF a \in d + k .. d + k + QWORD - 1
                       THEN CopiedOf(d, s, k)[s + k + (a - (d + k))]
                       ELSE CopiedOf(d, s, k)[a])
                      = CopiedOf(d, s, k + QWORD)[a]
  <2> SUFFICES ASSUME NEW a \in Addr
               PROVE  (IF a \in d + k .. d + k + QWORD - 1
                       THEN CopiedOf(d, s, k)[s + k + (a - (d + k))]
                       ELSE CopiedOf(d, s, k)[a])
                      = CopiedOf(d, s, k + QWORD)[a]
    OBVIOUS
  <2>1. CASE a \in d + k .. d + k + QWORD - 1
    <3>1. a - (d + k) \in 0 .. QWORD - 1
      BY <2>1 DEF QWORD
    <3>. QED BY <1>1, <2>1, <3>1, MemcpyAssumption DEF CopiedOf, Addr, MEM, QWORD
  <2>2. CASE a \notin d + k .. d + k + QWORD - 1
    BY <2>2, MemcpyAssumption DEF CopiedOf, Addr, MEM, QWORD
  <2>. QED BY <2>1, <2>2
<1>. QED BY <1>2 DEF CopiedOf

(* One iteration of `rep movsq' copies the next quadword.                  *)
LEMMA MovsqIInv ==
    ASSUME IInv, Movsq
    PROVE  IInv'
<1> DEFINE d == call.dst  sr == call.src  n == call.len
           k == n - QWORD * rcx
<1>1. /\ call \in Calls /\ d \in Nat /\ sr \in Nat /\ n \in Nat
      /\ d + n <= AREA /\ sr + n <= AREA /\ rcx \in Nat
  BY CallBounds DEF IInv, TypeOK
<1>2. /\ InMovsq /\ ForwardSafe(d, sr, n)
      /\ rcx # 0 /\ call' = call /\ pc' = pc /\ pc = "movsq"
  BY DEF Movsq, IInv
<1>3. /\ k \in 0 .. n - QWORD /\ k + QWORD \in 0 .. n
      /\ k + QWORD = n - QWORD * rcx' /\ rcx' \in 0 .. n \div QWORD
      /\ rdi = d + k /\ rsi = sr + k
  BY <1>1, <1>2 DEF InMovsq, Movsq, QWORD
<1>4. mem' = CopiedOf(d, sr, k + QWORD)
  <2>1. mem' = [a \in Addr |-> IF a \in d + k .. d + k + QWORD - 1
                              THEN CopiedOf(d, sr, k)[sr + k + (a - (d + k))]
                              ELSE CopiedOf(d, sr, k)[a]]
    BY <1>2, <1>3 DEF Movsq, InMovsq, Copied
  <2>. QED BY <2>1, <1>1, <1>2, <1>3, CopiedQword
<1>5. /\ rdi' = d + (k + QWORD) /\ rsi' = sr + (k + QWORD)
      /\ rdi' \in 0 .. MEM /\ rsi' \in 0 .. MEM /\ rcx' \in Nat
  BY <1>1, <1>3, MemcpyAssumption DEF Movsq, MEM, QWORD
<1>6. mem' \in [Addr -> Addr]
  BY <1>1, <1>3, <1>4, CopiedType, Zenon
<1>7. InMovsq'
  BY <1>2, <1>3, <1>4, <1>5 DEF InMovsq, Copied
<1>. QED
  BY <1>1, <1>2, <1>5, <1>6, <1>7 DEF IInv, TypeOK

-----------------------------------------------------------------------------
(* Nothing is copied before a call.                                        *)
LEMMA InitIInv == Init => IInv
<1> SUFFICES ASSUME Init PROVE IInv
  OBVIOUS
<1>1. call \in Calls /\ mem = Orig /\ pc = "entry"
  BY DEF Init
<1>2. mem \in [Addr -> Addr]
  BY <1>1 DEF Orig
<1>. QED BY <1>1, <1>2, MemcpyAssumption DEF Init, IInv, TypeOK, MEM, QWORD

(* memcpy_forward: a panic leaves memory alone; a call that passes the    *)
(* check starts the copy.                                                  *)
LEMMA ForwardIInv ==
    ASSUME IInv, memcpy_forward
    PROVE  IInv'
<1>1. call \in Calls /\ pc = "entry" /\ mem = Orig
  BY DEF IInv, TypeOK, memcpy_forward
<1>2. CASE BadOverlap(call.dst, call.src, call.len)
  BY <1>1, <1>2 DEF memcpy_forward, IInv, TypeOK
<1>3. CASE ~BadOverlap(call.dst, call.src, call.len)
  <2>1. ForwardSafe(call.dst, call.src, call.len)
    BY <1>1, <1>3, StartSafe
  <2>2. Start /\ UNCHANGED <<mem, call>>
    BY <1>3 DEF memcpy_forward
  <2>. QED BY <1>1, <2>1, <2>2, StartIInv
<1>. QED BY <1>2, <1>3

(* The unchecked entries start the copy on the callers' promise.          *)
LEMMA NocheckIInv ==
    ASSUME IInv, memcpy_nocheck
    PROVE  IInv'
<1>1. call \in Calls /\ pc = "entry" /\ call.entry # "memcpy_forward"
  BY DEF IInv, TypeOK, memcpy_nocheck
<1>2. ForwardSafe(call.dst, call.src, call.len)
  BY <1>1, StartSafe
<1>. QED BY <1>1, <1>2, StartIInv DEF memcpy_nocheck

(* The byte loop done: the quadword loop starts after the len % 8 bytes.   *)
LEMMA MovRcxIInv ==
    ASSUME IInv, MovRcx
    PROVE  IInv'
<1> DEFINE d == call.dst  sr == call.src  n == call.len
<1>1. /\ call \in Calls /\ d \in Nat /\ sr \in Nat /\ n \in Nat
      /\ d + n <= AREA /\ sr + n <= AREA
  BY CallBounds DEF IInv, TypeOK
<1>2. /\ InMovsb /\ rcx = 0 /\ pc = "movsb"
  BY DEF MovRcx, IInv
<1>3. n - QWORD * (n \div QWORD) = n % QWORD
  BY <1>1 DEF QWORD
<1>4. /\ rcx' \in 0 .. n \div QWORD /\ rcx' \in Nat
      /\ rdi' = d + (n - QWORD * rcx') /\ rsi' = sr + (n - QWORD * rcx')
      /\ mem' = CopiedOf(d, sr, n - QWORD * rcx')
  BY <1>1, <1>2, <1>3 DEF MovRcx, InMovsb, Copied, QWORD
<1>. QED BY <1>1, <1>2, <1>4, MemcpyAssumption DEF IInv, TypeOK, InMovsq, Copied, MovRcx, MEM

(* The quadword loop done: dst holds all of src.                           *)
LEMMA ReturnIInv ==
    ASSUME IInv, Return
    PROVE  IInv'
<1>1. /\ InMovsq /\ rcx = 0 /\ pc = "movsq"
  BY DEF Return, IInv
<1>2. mem = Copied(call.len)
  <2>1. call.len \in Nat
    BY CallBounds DEF IInv, TypeOK
  <2>2. call.len - QWORD * rcx = call.len
    BY <1>1, <2>1 DEF QWORD
  <2>. QED BY <1>1, <2>2 DEF InMovsq
<1>3. /\ pc' = "done" /\ mem' = mem /\ call' = call
      /\ rdi' = rdi /\ rsi' = rsi /\ rcx' = rcx
  BY DEF Return
<1>4. TypeOK'
  <2>1. TypeOK
    BY DEF IInv
  <2>. QED BY <1>3, <2>1 DEF TypeOK
<1>5. ForwardSafe(call.dst, call.src, call.len)
  BY <1>1 DEF IInv
<1>. QED BY <1>2, <1>3, <1>4, <1>5 DEF IInv, Copied

(* The inductive step, one action at a time.                               *)
LEMMA NextIInv == IInv /\ [Next]_vars => IInv'
<1> SUFFICES ASSUME IInv, [Next]_vars PROVE IInv'
  OBVIOUS
<1>1. CASE memcpy_forward  BY <1>1, ForwardIInv
<1>2. CASE memcpy_nocheck  BY <1>2, NocheckIInv
<1>3. CASE Movsb           BY <1>3, MovsbIInv
<1>4. CASE MovRcx          BY <1>4, MovRcxIInv
<1>5. CASE Movsq           BY <1>5, MovsqIInv
<1>6. CASE Return          BY <1>6, ReturnIInv
<1>7. CASE UNCHANGED vars  BY <1>7 DEF vars, IInv, TypeOK, InMovsb, InMovsq, Copied
<1>. QED BY <1>1, <1>2, <1>3, <1>4, <1>5, <1>6, <1>7 DEF Next

LEMMA IInvInvariant == Spec => []IInv
BY InitIInv, NextIInv, PTL DEF Spec

-----------------------------------------------------------------------------
(* The copy is exact (the property the memcpy run checks), for every size *)
(* of the callers' area and every length: whenever __memcpy_forward        *)
(* returns, dst holds src's len bytes and no other byte has changed.       *)
THEOREM CopyExactHolds == Spec => []CopyExact
<1>1. IInv => CopyExact
  <2> SUFFICES ASSUME IInv, pc = "done"
               PROVE  mem = [a \in Addr |-> IF a \in call.dst .. call.dst + call.len - 1
                                            THEN Orig[call.src + (a - call.dst)] ELSE Orig[a]]
    BY DEF CopyExact
  <2>1. /\ mem = CopiedOf(call.dst, call.src, call.len)
        /\ call.dst \in Nat /\ call.src \in Nat /\ call.len \in Nat
        /\ call.src + call.len <= AREA
    BY CallBounds DEF IInv, TypeOK, Copied
  <2>2. \A a \in Addr : CopiedOf(call.dst, call.src, call.len)[a]
                        = IF a \in call.dst .. call.dst + call.len - 1
                          THEN Orig[call.src + (a - call.dst)] ELSE Orig[a]
    <3> TAKE a \in Addr
    <3>1. a \in Nat /\ (a \in call.dst .. call.dst + call.len - 1 <=> call.dst <= a /\ a < call.dst + call.len)
      BY <2>1, MemcpyAssumption DEF Addr, MEM, QWORD
    <3>2. call.dst <= a /\ a < call.dst + call.len => call.src + (a - call.dst) \in Addr
      BY <2>1, <3>1, MemcpyAssumption DEF Addr, MEM, QWORD
    <3>. QED BY <3>1, <3>2 DEF CopiedOf, Orig
  <2>. QED BY <2>1, <2>2 DEF CopiedOf
<1>. QED BY <1>1, IInvInvariant, PTL

(* memcpy_forward, memcpy_forward_nocheck and memcpy_nocheck keep the     *)
(* memory, the registers and the control state within their types.       *)
THEOREM TypeCorrect == Spec => []TypeOK
BY IInvInvariant, PTL DEF IInv

=============================================================================
