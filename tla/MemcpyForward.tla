--------------------------- MODULE MemcpyForward ---------------------------
(***************************************************************************)
(* memcpy_forward, memcpy_forward_nocheck and memcpy_nocheck of           *)
(* src/unnamed/part_005: the overlap check, then __memcpy_forward's       *)
(* inline assembly, `rep movsb' over len & 7 bytes followed by `rep       *)
(* movsq' over len >> 3 quadwords, one iteration of either per step.      *)
(* Each movsq loads its quadword before it stores it, as the instruction  *)
(* does; DF = 0 (the ABI's guarantee), so both move forward.               *)
(*                                                                         *)
(* Memory holds, at each address, the value first found there, so that    *)
(* every byte is told apart.  Callers' buffers lie in [0, AREA); the      *)
(* QWORD bytes after it are memory too, so a copy that overruns shows.    *)
(***************************************************************************)
EXTENDS Integers

CONSTANTS
    AREA,      \* the bytes callers' buffers may occupy
    MAXLEN     \* the largest len passed

QWORD == 8     \* movsq's block size
MEM == AREA + QWORD
Addr == 0 .. MEM - 1
Orig == [a \in Addr |-> a]

ASSUME MemcpyAssumption == AREA \in Nat \ {0} /\ MAXLEN \in Nat

Entries == {"memcpy_forward", "memcpy_forward_nocheck", "memcpy_nocheck"}

(* Line 68: the regions overlap with dst before src by less than a        *)
(* quadword, or with dst after src.                                        *)
BadOverlap(d, s, n) == d + QWORD > s /\ s + n > d

(* The calls a forward copy serves: dst before src, or the regions        *)
(* disjoint.                                                               *)
ForwardSafe(d, s, n) == d <= s \/ s + n <= d

(* What a caller of each entry may pass: anything to memcpy_forward,       *)
(* which checks; to memcpy_forward_nocheck any forward-safe call, more     *)
(* than the check of lines 55-58 tolerates; to the `restrict'              *)
(* memcpy_nocheck disjoint regions.                                        *)
Contract(e, d, s, n) ==
    CASE e = "memcpy_forward"         -> TRUE
      [] e = "memcpy_forward_nocheck" -> ForwardSafe(d, s, n)
      [] e = "memcpy_nocheck"         -> d + n <= s \/ s + n <= d

Calls == {c \in [entry : Entries, dst : 0 .. AREA - 1, src : 0 .. AREA - 1,
                 len : 0 .. MAXLEN] :
            /\ c.dst + c.len <= AREA /\ c.src + c.len <= AREA
            /\ Contract(c.entry, c.dst, c.src, c.len)}

VARIABLES
    mem,   \* the bytes
    call,  \* the entry called and its arguments
    pc,    \* "entry", "movsb", "movsq", "done" or "panic"
    rdi, rsi, rcx

vars == <<mem, call, pc, rdi, rsi, rcx>>

Init ==
    /\ mem = Orig
    /\ call \in Calls
    /\ pc = "entry"
    /\ rdi = 0 /\ rsi = 0 /\ rcx = 0

(* __memcpy_forward entered: rdi and rsi from the arguments, then `mov    *)
(* %3, %rcx' with len & 7 (lines 43-44).                                  *)
Start ==
    /\ pc' = "movsb"
    /\ rdi' = call.dst /\ rsi' = call.src /\ rcx' = call.len % QWORD

\* Mutant: the check with the roles of dst and src exchanged.
memcpy_forward_swapped ==
    /\ pc = "entry" /\ call.entry = "memcpy_forward"
    /\ IF BadOverlap(call.src, call.dst, call.len)
       THEN pc' = "panic" /\ UNCHANGED <<rdi, rsi, rcx>>
       ELSE Start
    /\ UNCHANGED <<mem, call>>

(* memcpy_forward (lines 60-74): panic() on a bad overlap, otherwise the  *)
(* copy.                                                                   *)
memcpy_forward ==
    /\ pc = "entry" /\ call.entry = "memcpy_forward"
    /\ IF BadOverlap(call.dst, call.src, call.len)
       THEN pc' = "panic" /\ UNCHANGED <<rdi, rsi, rcx>>
       ELSE Start
    /\ UNCHANGED <<mem, call>>

(* memcpy_forward_nocheck and memcpy_nocheck (lines 109-117): the copy    *)
(* with no check.                                                          *)
memcpy_nocheck ==
    /\ pc = "entry" /\ call.entry # "memcpy_forward"
    /\ Start
    /\ UNCHANGED <<mem, call>>

\* Mutant: `rep movsb' that runs once more than rcx says.
Movsb_le ==
    /\ pc = "movsb" /\ rcx >= 0
    /\ mem' = [mem EXCEPT ![rdi] = mem[rsi]]
    /\ rdi' = rdi + 1 /\ rsi' = rsi + 1 /\ rcx' = rcx - 1
    /\ UNCHANGED <<call, pc>>

(* One iteration of `rep movsb' (line 45).                                *)
Movsb ==
    /\ pc = "movsb" /\ rcx # 0
    /\ mem' = [mem EXCEPT ![rdi] = mem[rsi]]
    /\ rdi' = rdi + 1 /\ rsi' = rsi + 1 /\ rcx' = rcx - 1
    /\ UNCHANGED <<call, pc>>

(* `rep movsb' done: `mov %4, %rcx' with len >> 3 (line 46).              *)
MovRcx ==
    /\ pc = "movsb" /\ rcx = 0
    /\ rcx' = call.len \div QWORD
    /\ pc' = "movsq"
    /\ UNCHANGED <<mem, call, rdi, rsi>>

(* One iteration of `rep movsq' (line 47): the quadword at rsi is loaded, *)
(* then stored at rdi.                                                     *)
Movsq ==
    /\ pc = "movsq" /\ rcx # 0
    /\ mem' = [a \in Addr |-> IF a \in rdi .. rdi + QWORD - 1
                              THEN mem[rsi + (a - rdi)] ELSE mem[a]]
    /\ rdi' = rdi + QWORD /\ rsi' = rsi + QWORD /\ rcx' = rcx - 1
    /\ UNCHANGED <<call, pc>>

\* `rep movsq' done: dst is returned (line 52).
Return ==
    /\ pc = "movsq" /\ rcx = 0
    /\ pc' = "done"
    /\ UNCHANGED <<mem, call, rdi, rsi, rcx>>

Next ==
    \/ memcpy_forward \/ memcpy_nocheck
    \/ Movsb \/ MovRcx \/ Movsq \/ Return

Spec == Init /\ [][Next]_vars

-----------------------------------------------------------------------------
TypeOK ==
    /\ mem \in [Addr -> Addr]
    /\ call \in Calls
    /\ pc \in {"entry", "movsb", "movsq", "done", "panic"}
    /\ rdi \in 0 .. MEM /\ rsi \in 0 .. MEM /\ rcx \in Nat

(* Every copy that returns has made dst[0 .. len) what src[0 .. len) was  *)
(* on entry and left every other byte as it was: the byte loop and the    *)
(* quadword loop together cover exactly len bytes, in an order that never *)
(* reads a byte the copy already overwrote, for every overlap that        *)
(* memcpy_forward's check lets through or a caller of the unchecked       *)
(* entries promises.                                                       *)
CopyExact ==
    pc = "done" =>
        mem = [a \in Addr |-> IF a \in call.dst .. call.dst + call.len - 1
                              THEN Orig[call.src + (a - call.dst)] ELSE Orig[a]]

(* The comment of lines 55-58 and the test of line 166 hold that a        *)
(* forward copy with src less than a quadword after dst is corrupted, and  *)
(* memcpy_forward panics on it: it should panic only on calls no forward   *)
(* copy serves.                                                            *)
PanicOnlyUnsafe ==
    pc = "panic" => ~ForwardSafe(call.dst, call.src, call.len)

=============================================================================
