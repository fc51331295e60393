--------------------------- MODULE KeyboardProofs ---------------------------
(***************************************************************************)
(* Type correctness of the PS/2 keyboard model, for every buffer size,    *)
(* number of flush trials and number of keys typed.                       *)
(*                                                                         *)
(* TypeOK is not inductive: `trials` stays in 0 .. FLUSH_TRIALS only      *)
(* because kbd_flush_buffer stops once its last trial is spent.  The      *)
(* strengthening says the flush loop is entered with a trial left.        *)
(***************************************************************************)
EXTENDS Keyboard, SequenceTheorems, TLAPS

(* keyboard_init reaches kbd_flush_buffer with all its trials, and each   *)
(* iteration of the loop that does not stop leaves one.                   *)
TrialsLeft == kpc \in {"setup", "flush"} => trials >= 1

IInv == TypeOK /\ TrialsLeft

(* TypeOK, split into the buffer, the flags and the counters: the flags  *)
(* are left to Zenon, the counters to the SMT solver.                     *)
BufOK == buf \in Seq(Codes) /\ Len(buf) <= BUF_SIZE

FlagsOK == masked \in BOOLEAN /\ irr \in BOOLEAN /\ intr \in BOOLEAN

CountersOK ==
    /\ kpc \in {"setup", "flush", "done"}
    /\ trials \in 0 .. FLUSH_TRIALS
    /\ shifted \in {0, 1}
    /\ typed \in 0 .. MAX_KEYS

LEMMA TypeSplit ==
    /\ TypeOK <=> BufOK /\ FlagsOK /\ CountersOK
    /\ TypeOK' <=> BufOK' /\ FlagsOK' /\ CountersOK'
  BY Zenon DEF TypeOK, BufOK, FlagsOK, CountersOK

LEMMA InitIInv == Init => IInv
<1> SUFFICES ASSUME Init PROVE IInv
  OBVIOUS
<1>1. BufOK
  <2>1. buf = << >> /\ << >> \in Seq(Codes) /\ Len(<< >>) = 0
    BY EmptySeq DEF Init
  <2>2. Len(buf) <= BUF_SIZE
    BY <2>1, KeyboardAssumption
  <2>. QED BY <2>1, <2>2, Zenon DEF BufOK
<1>2. FlagsOK
  BY Zenon DEF Init, FlagsOK
<1>3. CountersOK /\ TrialsLeft
  BY KeyboardAssumption DEF Init, CountersOK, TrialsLeft
<1>. QED BY <1>1, <1>2, <1>3, TypeSplit DEF IInv

(* What reading the i8042 buffer leaves of it.                           *)
LEMMA ConsumeBuf ==
    ASSUME BufOK, buf' = IF buf = <<>> THEN buf ELSE Tail(buf)
    PROVE  BufOK'
<1>1. CASE buf = <<>>
  BY <1>1, Zenon DEF BufOK
<1>2. CASE buf # <<>>
  <2>1. Tail(buf) \in Seq(Codes) /\ Len(Tail(buf)) = Len(buf) - 1
    BY <1>2, HeadTailProperties DEF BufOK
  <2>2. Len(buf) \in Nat
    BY LenProperties DEF BufOK
  <2>3. Len(Tail(buf)) <= BUF_SIZE
    BY <2>1, <2>2, KeyboardAssumption DEF BufOK
  <2>. QED BY <1>2, <2>1, <2>3, Zenon DEF BufOK
<1>. QED BY <1>1, <1>2

LEMMA NextIInv == IInv /\ [Next]_vars => IInv'
<1> SUFFICES ASSUME BufOK, FlagsOK, CountersOK, TrialsLeft, [Next]_vars
             PROVE  BufOK' /\ FlagsOK' /\ CountersOK' /\ TrialsLeft'
  BY TypeSplit DEF IInv
<1> USE KeyboardAssumption
<1>1. CASE KeyPress
  <2>1. PICK code \in Codes :
          IF Len(buf) < BUF_SIZE
          THEN buf' = Append(buf, code) /\ Edge(buf = <<>>)
          ELSE UNCHANGED <<buf, irr>>
    BY <1>1 DEF KeyPress
  <2>2. BufOK' /\ FlagsOK'
    <3>1. CASE Len(buf) < BUF_SIZE
      <4>1. Append(buf, code) \in Seq(Codes)
            /\ Len(Append(buf, code)) = Len(buf) + 1
        BY AppendProperties DEF BufOK
      <4>2. Len(buf) + 1 <= BUF_SIZE
        BY <3>1, LenProperties DEF BufOK
      <4>3. buf' = Append(buf, code) /\ irr' = (irr \/ (buf = <<>> /\ ~masked))
        BY <2>1, <3>1 DEF Edge
      <4>. QED BY <1>1, <4>1, <4>2, <4>3, Zenon DEF KeyPress, BufOK, FlagsOK
    <3>2. CASE ~(Len(buf) < BUF_SIZE)
      BY <1>1, <2>1, <3>2, Zenon DEF KeyPress, BufOK, FlagsOK
    <3>. QED BY <3>1, <3>2
  <2>. QED BY <1>1, <2>2 DEF KeyPress, CountersOK, TrialsLeft
<1>2. CASE KeyboardSetup
  <2>1. BufOK' /\ FlagsOK'
    BY <1>2, Zenon DEF KeyboardSetup, BufOK, FlagsOK
  <2>. QED BY <1>2, <2>1 DEF KeyboardSetup, CountersOK, TrialsLeft
<1>3. CASE FlushStep
  <2>1. BufOK'
    BY <1>3, ConsumeBuf DEF FlushStep, Consume
  <2>2. FlagsOK'
    BY <1>3, Zenon DEF FlushStep, Consume, Edge, FlagsOK
  <2>. QED BY <1>3, <2>1, <2>2 DEF FlushStep, Consume, CountersOK, TrialsLeft
<1>4. CASE EnableIrqs
  <2>1. BufOK' /\ FlagsOK'
    BY <1>4, Zenon DEF EnableIrqs, BufOK, FlagsOK
  <2>. QED BY <1>4, <2>1 DEF EnableIrqs, CountersOK, TrialsLeft
<1>5. CASE kb_handler
  <2>1. BufOK'
    BY <1>5, ConsumeBuf DEF kb_handler
  <2>2. FlagsOK'
    BY <1>5, Zenon DEF kb_handler, FlagsOK
  <2>3. shifted' \in {0, 1}
    BY <1>5 DEF kb_handler, Shift, CountersOK
  <2>. QED BY <1>5, <2>1, <2>2, <2>3 DEF kb_handler, CountersOK, TrialsLeft
<1>6. CASE UNCHANGED vars
  <2>1. BufOK' /\ FlagsOK'
    BY <1>6, Zenon DEF vars, BufOK, FlagsOK
  <2>. QED BY <1>6, <2>1 DEF vars, CountersOK, TrialsLeft
<1>. QED BY <1>1, <1>2, <1>3, <1>4, <1>5, <1>6 DEF Next

(* The buffer, the APIC and I/O APIC bits, keyboard_init's location, the  *)
(* flush loop's trials, the shift state and the count of keys stay within *)
(* their types: in particular kbd_flush_buffer never counts its trials    *)
(* below zero, whatever keys arrive while it runs.                        *)
THEOREM TypeCorrect == Spec => []TypeOK
<1>1. IInv => TypeOK
  BY DEF IInv
<1>. QED BY <1>1, InitIInv, NextIInv, PTL DEF Spec

=============================================================================
