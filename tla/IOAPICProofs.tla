---------------------------- MODULE IOAPICProofs ----------------------------
(***************************************************************************)
(* Proofs about the I/O APIC model, for every number of chips and pins,   *)
(* every MP interrupt table and every BIOS routing: ioapic_init finds the *)
(* i8259 pin in the routing the BIOS left before it masks that routing,   *)
(* and every entry ioapic_setup_isairq programs is on the chip and pin   *)
(* the MP tables give for its IRQ.                                        *)
(***************************************************************************)
EXTENDS IOAPIC, WellFoundedInduction, TLAPS

(* Before ioapic_init the chips are as the BIOS left them and nothing has *)
(* been located or programmed.                                            *)
BootState == pc = "boot" => red = bios /\ i8259Pin = NoPin /\ written = {}

(* After ioapic_init every chip answers to the id the MP tables give it. *)
IdsFixed == pc = "ready" => chipId = DescId

(* The inductive invariant.                                                *)
IInv == TypeOK /\ BootState /\ IdsFixed /\ I8259PinFromHardware
        /\ RoutedToMPDestination

-----------------------------------------------------------------------------
(* A non-empty set of naturals has a least element: the CHOOSE of         *)
(* ioapic_isa_pin's loops is defined.                                      *)
LEMMA NatMin ==
    ASSUME NEW T, T \subseteq Nat, T # {}
    PROVE  \E x \in T : \A y \in T : x <= y
<1>1. IsWellFoundedOn(OpToRel(<, Nat), Nat)
  BY NatLessThanWellFounded, Zenon
<1>2. PICK x \in T : \A y \in T : ~(<<y, x>> \in OpToRel(<, Nat))
  BY <1>1, WFMin, Zenon
<1>3. ASSUME NEW y \in T PROVE x <= y
  <2>1. <<y, x>> \in Nat \X Nat
    OBVIOUS
  <2>2. ~(y < x)
    BY <1>2, <2>1, Zenon DEF OpToRel
  <2>. QED BY <2>2, SMT
<1>. QED BY <1>3

(* A non-empty set of (apic, pin) pairs has a first pair in the order the *)
(* loops of ioapic_get_8259A_pin visit them.                              *)
LEMMA FirstPair ==
    ASSUME NEW F, F \subseteq Nat \X Nat, F # {}
    PROVE  \E x \in F : \A y \in F :
               x[1] < y[1] \/ (x[1] = y[1] /\ x[2] <= y[2])
<1> DEFINE A == {x[1] : x \in F}
           G(a) == {y \in F : y[1] = a}
           P(a) == {x[2] : x \in G(a)}
<1>1. A \subseteq Nat /\ A # {}
  BY Zenon
<1>2. PICK a0 \in A : \A b \in A : a0 <= b
  BY <1>1, NatMin, Zenon
<1>3. P(a0) \subseteq Nat /\ P(a0) # {}
  BY <1>2, Zenon
<1>4. PICK p0 \in P(a0) : \A q \in P(a0) : p0 <= q
  BY <1>3, NatMin, Zenon
<1>5. <<a0, p0>> \in F
  <2>1. PICK z \in G(a0) : z[2] = p0
    BY <1>4
  <2>2. z = <<z[1], z[2]>> /\ z[1] = a0
    BY <2>1
  <2>. QED BY <2>1, <2>2
<1>6. ASSUME NEW y \in F PROVE a0 < y[1] \/ (a0 = y[1] /\ p0 <= y[2])
  <2>1. y[1] \in A /\ y[1] \in Nat /\ y[2] \in Nat /\ a0 \in Nat /\ p0 \in Nat
    BY <1>1, <1>3
  <2>2. a0 <= y[1]
    BY <1>2, <2>1
  <2>3. CASE a0 = y[1]
    <3>1. y[2] \in P(a0)
      BY <2>3
    <3>. QED BY <3>1, <1>4, <2>3
  <2>4. CASE a0 # y[1]
    BY <2>1, <2>2, <2>4
  <2>. QED BY <2>3, <2>4
<1>. QED BY <1>5, <1>6

-----------------------------------------------------------------------------
(* The candidates ioapic_get_8259A_pin's loops accept, and the one they   *)
(* stop at.                                                                *)
Found8259(r, mx) ==
    {x \in Apics \X Pins :
        /\ x[2] <= mx[x[1]]
        /\ r[x[1]][x[2]].mode = "extint" /\ ~r[x[1]][x[2]].mask}

First8259(r, mx) ==
    CHOOSE x \in Found8259(r, mx) :
        \A y \in Found8259(r, mx) : x[1] < y[1] \/ (x[1] = y[1] /\ x[2] <= y[2])

(* ioapic_get_8259A_pin returns "not found" exactly when no entry within  *)
(* max_irq is an unmasked ExtINT entry, and otherwise such an entry.      *)
LEMMA Get8259APinResult ==
    ASSUME NEW r, NEW mx
    PROVE  /\ Found8259(r, mx) = {} => Get8259APin(r, mx) = NoPin
           /\ Found8259(r, mx) # {} =>
                LET g == Get8259APin(r, mx) IN
                /\ g = [apic |-> First8259(r, mx)[1], pin |-> First8259(r, mx)[2]]
                /\ g.apic \in Apics /\ g.pin \in Pins
                /\ r[g.apic][g.pin].mode = "extint" /\ ~r[g.apic][g.pin].mask
<1>1. Get8259APin(r, mx) =
        IF Found8259(r, mx) = {} THEN NoPin
        ELSE [apic |-> First8259(r, mx)[1], pin |-> First8259(r, mx)[2]]
  BY Zenon DEF Get8259APin, Found8259, First8259
<1>2. ASSUME Found8259(r, mx) # {} PROVE First8259(r, mx) \in Found8259(r, mx)
  <2>1. Found8259(r, mx) \subseteq Nat \X Nat
    BY DEF Found8259, Apics, Pins
  <2>2. \E x \in Found8259(r, mx) : \A y \in Found8259(r, mx) :
            x[1] < y[1] \/ (x[1] = y[1] /\ x[2] <= y[2])
    BY <1>2, <2>1, FirstPair, Zenon
  <2>. QED BY <2>2, Zenon DEF First8259
<1>3. ASSUME NEW x \in Found8259(r, mx)
      PROVE  /\ x[1] \in Apics /\ x[2] \in Pins
             /\ r[x[1]][x[2]].mode = "extint" /\ ~r[x[1]][x[2]].mask
  <2>1. x \in Apics \X Pins
    BY Zenon DEF Found8259
  <2>2. x[1] \in Apics /\ x[2] \in Pins
    BY <2>1
  <2>. QED BY <2>2, Zenon DEF Found8259
<1>4. Found8259(r, mx) = {} => Get8259APin(r, mx) = NoPin
  BY <1>1
<1>5. ASSUME Found8259(r, mx) # {}
      PROVE  LET g == Get8259APin(r, mx) IN
             /\ g = [apic |-> First8259(r, mx)[1], pin |-> First8259(r, mx)[2]]
             /\ g.apic \in Apics /\ g.pin \in Pins
             /\ r[g.apic][g.pin].mode = "extint" /\ ~r[g.apic][g.pin].mask
  <2> DEFINE f == First8259(r, mx)
  <2>1. Get8259APin(r, mx) = [apic |-> f[1], pin |-> f[2]]
    BY <1>1, <1>5
  <2>2. /\ f[1] \in Apics /\ f[2] \in Pins
        /\ r[f[1]][f[2]].mode = "extint" /\ ~r[f[1]][f[2]].mask
    BY <1>2, <1>3, <1>5
  <2>. QED BY <2>1, <2>2
<1>. QED BY <1>4, <1>5

(* The values of a struct ioapic_pin: an I/O APIC index and a pin number, *)
(* or -1 for "not found".                                                  *)
PinT == [apic : Apics \cup {-1}, pin : Nat \cup {-1}]

LEMMA NoPinType == NoPin \in PinT
  BY Zenon DEF NoPin, PinT

LEMMA PinFound ==
    ASSUME NEW a \in Apics, NEW p \in Nat
    PROVE  [apic |-> a, pin |-> p] \in PinT
  BY DEF PinT

(* The (apic, pin) ioapic_isa_pin returns is "not found" or an I/O APIC   *)
(* index and the pin number of an MP interrupt entry.                     *)
LEMMA IsaPinType ==
    ASSUME mpIrqs \in Seq(MPIrq), DescId \in [Apics -> Nat],
           NEW irq, NEW type
    PROVE  IsaPin(irq, type) \in PinT
<1> DEFINE ks == {k \in 1 .. Len(mpIrqs) :
                    /\ mpIrqs[k].busid = ISA_BUSID
                    /\ mpIrqs[k].busirq = irq
                    /\ mpIrqs[k].type = type}
           k  == CHOOSE k \in ks : \A l \in ks : k <= l
           as == {a \in Apics : DescId[a] = mpIrqs[k].dstid}
           amin == CHOOSE a \in as : \A b \in as : a <= b
<1>1. IsaPin(irq, type) =
        IF ks = {} \/ as = {} THEN NoPin
        ELSE [apic |-> amin, pin |-> mpIrqs[k].dstpin]
  BY Zenon DEF IsaPin
<1> HIDE DEF ks, k, as, amin
<1>2. CASE ks = {} \/ as = {}
  <2>1. IsaPin(irq, type) = NoPin
    BY <1>1, <1>2, Zenon
  <2>. QED BY <2>1, NoPinType
<1>3. CASE ks # {} /\ as # {}
  <2>1. k \in ks
    <3>1. ks \subseteq Nat
      BY DEF ks
    <3>. QED BY <1>3, <3>1, NatMin, Zenon DEF k
  <2>2. amin \in Apics
    <3>1. as \subseteq Nat
      BY DEF as, Apics
    <3>2. amin \in as
      BY <1>3, <3>1, NatMin, Zenon DEF amin
    <3>. QED BY <3>2 DEF as
  <2>3. mpIrqs[k].dstpin \in Nat
    <3>1. k \in 1 .. Len(mpIrqs)
      BY <2>1 DEF ks
    <3>2. mpIrqs[k] \in MPIrq
      BY <3>1
    <3>. QED BY <3>2 DEF MPIrq
  <2>4. IsaPin(irq, type) = [apic |-> amin, pin |-> mpIrqs[k].dstpin]
    BY <1>1, <1>3, Zenon
  <2>5. [apic |-> amin, pin |-> mpIrqs[k].dstpin] \in PinT
    BY <2>2, <2>3, PinFound
  <2>. QED BY <2>4, <2>5, Zenon
<1>. QED BY <1>2, <1>3, Zenon

(* When ioapic_isa_pin finds a pin, it is the destination of an MP       *)
(* interrupt entry for the IRQ and type, on the I/O APIC whose MP id that *)
(* entry names.                                                            *)
LEMMA IsaPinRoute ==
    ASSUME mpIrqs \in Seq(MPIrq), DescId \in [Apics -> Nat],
           NEW irq, NEW type, IsaPin(irq, type).apic \in Apics
    PROVE  \E k \in 1 .. Len(mpIrqs) :
               /\ mpIrqs[k].busid = ISA_BUSID /\ mpIrqs[k].busirq = irq
               /\ mpIrqs[k].type = type
               /\ mpIrqs[k].dstid = DescId[IsaPin(irq, type).apic]
               /\ mpIrqs[k].dstpin = IsaPin(irq, type).pin
<1> DEFINE ks == {k \in 1 .. Len(mpIrqs) :
                    /\ mpIrqs[k].busid = ISA_BUSID
                    /\ mpIrqs[k].busirq = irq
                    /\ mpIrqs[k].type = type}
           k  == CHOOSE k \in ks : \A l \in ks : k <= l
           as == {a \in Apics : DescId[a] = mpIrqs[k].dstid}
           amin == CHOOSE a \in as : \A b \in as : a <= b
<1>1. IsaPin(irq, type) =
        IF ks = {} \/ as = {} THEN NoPin
        ELSE [apic |-> amin, pin |-> mpIrqs[k].dstpin]
  BY Zenon DEF IsaPin
<1> HIDE DEF ks, k, as, amin
<1>2. ks # {} /\ as # {}
  <2>1. NoPin.apic \notin Apics
    BY DEF NoPin, Apics
  <2>. QED BY <1>1, <2>1, Zenon
<1>3. IsaPin(irq, type) = [apic |-> amin, pin |-> mpIrqs[k].dstpin]
  BY <1>1, <1>2, Zenon
<1>4. k \in ks
  <2>1. ks \subseteq Nat
    BY DEF ks
  <2>. QED BY <1>2, <2>1, NatMin, Zenon DEF k
<1>5. amin \in as
  <2>1. as \subseteq Nat
    BY DEF as, Apics
  <2>. QED BY <1>2, <2>1, NatMin, Zenon DEF amin
<1>6. /\ k \in 1 .. Len(mpIrqs)
      /\ mpIrqs[k].busid = ISA_BUSID /\ mpIrqs[k].busirq = irq
      /\ mpIrqs[k].type = type
  BY <1>4, Zenon DEF ks
<1>7. DescId[amin] = mpIrqs[k].dstid
  BY <1>5, Zenon DEF as
<1>8. IsaPin(irq, type).apic = amin /\ IsaPin(irq, type).pin = mpIrqs[k].dstpin
  BY <1>3
<1>. QED BY <1>6, <1>7, <1>8

-----------------------------------------------------------------------------
(* Writes to a redirection entry keep it a redirection entry.             *)
LEMMA EntryMasked ==
    ASSUME NEW e \in Entry PROVE [e EXCEPT !.mask = TRUE] \in Entry
  BY Zenon DEF Entry

LEMMA MaskAllType ==
    ASSUME NEW r \in [Apics -> [Pins -> Entry]], NEW mx
    PROVE  MaskAll(r, mx) \in [Apics -> [Pins -> Entry]]
<1>1. ASSUME NEW a \in Apics, NEW p \in Pins
      PROVE  (IF p < mx[a] THEN [r[a][p] EXCEPT !.mask = TRUE] ELSE r[a][p])
               \in Entry
  <2>1. r[a][p] \in Entry
    OBVIOUS
  <2>. QED BY <2>1, EntryMasked, Zenon
<1>. QED BY <1>1, Zenon DEF MaskAll

LEMMA FixedEntry ==
    ASSUME NEW v \in Vectors
    PROVE  [mode |-> "fixed", mask |-> FALSE, vector |-> v] \in Entry
  BY Zenon DEF Entry, Modes

(* The tables the BIOS may leave: every entry has vector 0.               *)
LEMMA BiosTableType ==
    ASSUME NEW r \in [Apics -> [Pins -> [mode : Modes, mask : BOOLEAN,
                                         vector : {0}]]]
    PROVE  r \in [Apics -> [Pins -> Entry]]
<1>1. [mode : Modes, mask : BOOLEAN, vector : {0}] \subseteq Entry
  BY Zenon DEF Entry
<1>. QED BY <1>1, Zenon

-----------------------------------------------------------------------------
LEMMA InitIInv == Init => IInv
<1> SUFFICES ASSUME Init PROVE IInv
  OBVIOUS
<1>1. mpIrqs \in Seq(MPIrq)
  BY IOAPICAssumption DEF Init
<1>2. chipId \in [Apics -> Nat]
  <2>1. {OtherId} \cup {DescId[a] : a \in Apics} \subseteq Nat
    BY IOAPICAssumption
  <2>. QED BY <2>1, Zenon DEF Init
<1>3. red \in [Apics -> [Pins -> Entry]] /\ bios \in [Apics -> [Pins -> Entry]]
  BY BiosTableType, Zenon DEF Init
<1>4. maxIrq \in [Apics -> 0 .. 255]
  BY DEF Init
<1>5. i8259Pin \in PinT
  BY NoPinType, Zenon DEF Init
<1>6. TypeOK
  <2>1. stray \subseteq (Int \X (0 .. 255)) /\ written \subseteq (Apics \X Pins)
        /\ pc \in {"boot", "ready"}
    BY Zenon DEF Init
  <2>. QED BY <1>1, <1>2, <1>3, <1>4, <1>5, <2>1, Zenon DEF TypeOK, PinT
<1>7. BootState /\ IdsFixed /\ I8259PinFromHardware /\ RoutedToMPDestination
  BY Zenon DEF Init, BootState, IdsFixed, I8259PinFromHardware,
               RoutedToMPDestination
<1>. QED BY <1>6, <1>7 DEF IInv

(* ioapic_init reads the BIOS routing, so the pin it locates is a BIOS    *)
(* ExtINT entry whenever there is one.                                    *)
LEMMA InitStepIInv == IInv /\ ioapic_init => IInv'
<1> SUFFICES ASSUME IInv, ioapic_init PROVE IInv'
  OBVIOUS
<1> DEFINE mx   == [a \in Apics |-> MAX_IRQ]
           pin1 == Get8259APin(red, mx)
           pin2 == IsaPin(0, "ExtINT")
<1>1. /\ pc = "boot" /\ chipId' = DescId /\ maxIrq' = mx
      /\ i8259Pin' = IF pin1.apic # -1 THEN pin1
                     ELSE IF pin2.apic # -1 THEN pin2 ELSE i8259Pin
      /\ red' = MaskAll(red, mx) /\ pc' = "ready"
      /\ UNCHANGED <<mpIrqs, stray, written, bios>>
  BY Zenon DEF ioapic_init
<1>2. TypeOK /\ BootState
  BY DEF IInv
<1> HIDE DEF mx, pin1, pin2
<1>3. TypeOK'
  <2>1. pin1 \in PinT
    <3>1. CASE Found8259(red, mx) = {}
      BY <3>1, Get8259APinResult, NoPinType, Zenon DEF pin1
    <3>2. CASE Found8259(red, mx) # {}
      <4>1. /\ pin1 = [apic |-> First8259(red, mx)[1],
                       pin |-> First8259(red, mx)[2]]
            /\ pin1.apic \in Apics /\ pin1.pin \in Pins
        BY <3>2, Get8259APinResult, Zenon DEF pin1
      <4>2. First8259(red, mx)[1] \in Apics /\ First8259(red, mx)[2] \in Nat
        BY <4>1 DEF Pins
      <4>. QED BY <4>1, <4>2, PinFound, Zenon
    <3>. QED BY <3>1, <3>2
  <2>2. pin2 \in PinT
    BY <1>2, IsaPinType, IOAPICAssumption, Zenon DEF TypeOK, pin2
  <2>3. i8259Pin' \in PinT
    <3>1. i8259Pin \in PinT
      BY <1>2, Zenon DEF TypeOK, PinT
    <3>. QED BY <1>1, <2>1, <2>2, <3>1, Zenon
  <2>4. red' \in [Apics -> [Pins -> Entry]]
    BY <1>1, <1>2, MaskAllType, Zenon DEF TypeOK
  <2>5. maxIrq' \in [Apics -> 0 .. 255]
    BY <1>1, IOAPICAssumption DEF mx
  <2>6. chipId' \in [Apics -> Nat]
    BY <1>1, IOAPICAssumption
  <2>. QED BY <1>1, <1>2, <2>3, <2>4, <2>5, <2>6, Zenon DEF TypeOK, PinT
<1>4. I8259PinFromHardware'
  <2>1. ASSUME NEW a \in Apics, NEW p \in Pins,
               bios[a][p].mode = "extint", ~bios[a][p].mask
        PROVE  /\ i8259Pin'.apic \in Apics /\ i8259Pin'.pin \in Pins
               /\ bios[i8259Pin'.apic][i8259Pin'.pin].mode = "extint"
               /\ ~bios[i8259Pin'.apic][i8259Pin'.pin].mask
    <3>1. red = bios
      BY <1>1, <1>2 DEF BootState
    <3>2. <<a, p>> \in Found8259(red, mx)
      <4>1. p <= mx[a]
        BY IOAPICAssumption DEF mx, Pins
      <4>. QED BY <2>1, <3>1, <4>1 DEF Found8259
    <3>3. /\ pin1.apic \in Apics /\ pin1.pin \in Pins
          /\ red[pin1.apic][pin1.pin].mode = "extint"
          /\ ~red[pin1.apic][pin1.pin].mask
      BY <3>2, Get8259APinResult, Zenon DEF pin1
    <3>4. pin1.apic # -1
      BY <3>3 DEF Apics
    <3>5. i8259Pin' = pin1
      BY <1>1, <3>4, Zenon
    <3>. QED BY <3>1, <3>3, <3>5, Zenon
  <2>. QED BY <1>1, <2>1, Zenon DEF I8259PinFromHardware, BiosExtInt
<1>5. BootState' /\ IdsFixed' /\ RoutedToMPDestination'
  BY <1>1, <1>2, Zenon DEF BootState, IdsFixed, RoutedToMPDestination
<1>. QED BY <1>3, <1>4, <1>5 DEF IInv

(* One redirection entry written by ioapic_write_redir.                   *)
LEMMA RedWrite ==
    ASSUME NEW r \in [Apics -> [Pins -> Entry]], NEW a \in Apics,
           NEW p \in Pins, NEW e \in Entry
    PROVE  /\ [r EXCEPT ![a][p] = e] \in [Apics -> [Pins -> Entry]]
           /\ \A b \in Apics, q \in Pins :
                [r EXCEPT ![a][p] = e][b][q] = IF b = a /\ q = p THEN e ELSE r[b][q]
  OBVIOUS

LEMMA StrayAdd ==
    ASSUME NEW S, S \subseteq Int \X (0 .. 255), NEW x \in Int, NEW y \in 0 .. 255
    PROVE  S \cup {<<x, y>>} \subseteq Int \X (0 .. 255)
  OBVIOUS

(* ioapic_setup_isairq writes the entry the MP tables give for the IRQ, *)
(* an (apic, uint8_t pin) pair.                                           *)
LEMMA SetupStepIInv ==
    ASSUME NEW s \in Setups
    PROVE  IInv /\ ioapic_setup_isairq(s[1], s[2]) => IInv'
<1> SUFFICES ASSUME IInv, ioapic_setup_isairq(s[1], s[2]) PROVE IInv'
  OBVIOUS
<1> DEFINE pin == IsaPin(s[1], "INT")
           a   == pin.apic
           p   == pin.pin % 256
           E   == [mode |-> "fixed", mask |-> FALSE, vector |-> s[2]]
<1>1. /\ pc = "ready"
      /\ IF a \in Apics /\ p \in Pins
         THEN /\ red' = [red EXCEPT ![a][p] = E]
              /\ written' = written \cup {<<a, p>>}
              /\ stray' = stray
         ELSE /\ stray' = stray \cup {<<a, p>>}
              /\ red' = red /\ written' = written
      /\ UNCHANGED <<mpIrqs, chipId, maxIrq, i8259Pin, pc, bios>>
  BY Zenon DEF ioapic_setup_isairq
<1>2. TypeOK /\ IdsFixed /\ RoutedToMPDestination
  BY DEF IInv
<1>3. s[2] \in Vectors
  BY IOAPICAssumption
<1>4. pin \in PinT
  BY <1>2, IsaPinType, IOAPICAssumption, Zenon DEF TypeOK
<1> HIDE DEF pin, a, p, E
<1>5. (I8259PinFromHardware /\ BootState /\ IdsFixed)'
  BY <1>1, Zenon DEF IInv, I8259PinFromHardware, BiosExtInt, BootState,
                     IdsFixed
(* The routes of the entries already written: setup changes neither the  *)
(* MP tables nor the chips' ids.                                          *)
<1>8. ASSUME NEW irq, NEW b, NEW q PROVE MPRoutes(irq, b, q)' = MPRoutes(irq, b, q)
  BY <1>1 DEF MPRoutes
<1>6. CASE a \in Apics /\ p \in Pins
  <2>1. /\ red' = [red EXCEPT ![a][p] = E]
        /\ written' = written \cup {<<a, p>>}
        /\ stray' = stray
    BY <1>1, <1>6, Zenon
  <2>2. E \in Entry
    BY <1>3, FixedEntry, Zenon DEF E
  <2>3. red \in [Apics -> [Pins -> Entry]]
    BY <1>2 DEF TypeOK
  <2>4. TypeOK'
    <3>1. red' \in [Apics -> [Pins -> Entry]]
      BY <1>6, <2>1, <2>2, <2>3, RedWrite
    <3>2. written' \subseteq Apics \X Pins
      BY <1>2, <1>6, <2>1 DEF TypeOK
    <3>. QED BY <1>1, <1>2, <2>1, <3>1, <3>2, Zenon DEF TypeOK
  <2>5. RoutedToMPDestination'
    <3> SUFFICES ASSUME NEW b \in Apics, NEW q \in Pins, <<b, q>> \in written'
                 PROVE  \E t \in Setups : MPRoutes(t[1], b, q)'
                                          /\ red'[b][q].vector = t[2]
      BY DEF RoutedToMPDestination
    <3>2. red'[b][q] = IF b = a /\ q = p THEN E ELSE red[b][q]
      BY <1>6, <2>1, <2>2, <2>3, RedWrite
    <3>3. CASE b = a /\ q = p
      <4>1. PICK k \in 1 .. Len(mpIrqs) :
              /\ mpIrqs[k].busid = ISA_BUSID /\ mpIrqs[k].busirq = s[1]
              /\ mpIrqs[k].type = "INT"
              /\ mpIrqs[k].dstid = DescId[a] /\ mpIrqs[k].dstpin = pin.pin
        <5>1. IsaPin(s[1], "INT").apic \in Apics
          BY <1>6 DEF pin, a
        <5>2. mpIrqs \in Seq(MPIrq) /\ DescId \in [Apics -> Nat]
          BY <1>2, IOAPICAssumption DEF TypeOK
        <5>. QED BY <5>1, <5>2, IsaPinRoute DEF pin, a
      <4>2. chipId = DescId
        BY <1>1, <1>2 DEF IdsFixed
      <4>3. MPRoutes(s[1], b, q)
        BY <3>3, <4>1, <4>2 DEF MPRoutes, p
      <4>4. red'[b][q].vector = s[2]
        BY <3>2, <3>3 DEF E
      <4>. QED BY <1>8, <4>3, <4>4
    <3>4. CASE ~(b = a /\ q = p)
      <4>1. <<b, q>> \in written
        BY <2>1, <3>4
      <4>2. PICK t \in Setups : MPRoutes(t[1], b, q) /\ red[b][q].vector = t[2]
        BY <1>2, <4>1 DEF RoutedToMPDestination
      <4>. QED BY <1>8, <3>2, <3>4, <4>2
    <3>. QED BY <3>3, <3>4
  <2>. QED BY <1>5, <2>4, <2>5 DEF IInv
<1>7. CASE ~(a \in Apics /\ p \in Pins)
  <2>1. stray' = stray \cup {<<a, p>>} /\ red' = red /\ written' = written
    BY <1>1, <1>7, Zenon
  <2>2. a \in Int /\ p \in 0 .. 255
    <3>1. a \in Apics \cup {-1} /\ pin.pin \in Nat \cup {-1}
      BY <1>4, Zenon DEF PinT, a
    <3>. QED BY <3>1 DEF p, Apics
  <2>3. TypeOK'
    <3>0. stray \subseteq Int \X (0 .. 255)
      BY <1>2 DEF TypeOK
    <3>1. stray \cup {<<a, p>>} \subseteq Int \X (0 .. 255)
      BY <3>0, <2>2, StrayAdd, ZenonT(60)
    <3>2. stray' \subseteq Int \X (0 .. 255)
      BY <3>1, <2>1, Zenon
    <3>. QED BY <1>1, <1>2, <2>1, <3>2, Zenon DEF TypeOK
  <2>4. RoutedToMPDestination'
    BY <1>2, <1>8, <2>1, Zenon DEF RoutedToMPDestination
  <2>. QED BY <1>5, <2>3, <2>4 DEF IInv
<1>. QED BY <1>6, <1>7

-----------------------------------------------------------------------------
LEMMA NextIInv == IInv /\ [Next]_vars => IInv'
<1> SUFFICES ASSUME IInv, [Next]_vars PROVE IInv'
  OBVIOUS
<1>1. CASE ioapic_init
  BY <1>1, InitStepIInv
<1>2. CASE \E s \in Setups : ioapic_setup_isairq(s[1], s[2])
  BY <1>2, SetupStepIInv
<1>3. CASE UNCHANGED vars
  BY <1>3 DEF vars, IInv, TypeOK, BootState, IdsFixed, I8259PinFromHardware,
              BiosExtInt, RoutedToMPDestination, MPRoutes
<1>. QED BY <1>1, <1>2, <1>3 DEF Next

LEMMA IInvInvariant == Spec => []IInv
  BY InitIInv, NextIInv, PTL DEF Spec

(* Whatever the BIOS left in the redirection tables and whatever the MP   *)
(* tables say, once ioapic_init has run i8259_pin names a BIOS-routed     *)
(* unmasked ExtINT entry whenever there is one (ioapic.c lines 192-215). *)
THEOREM I8259PinFromHardwareHolds == Spec => []I8259PinFromHardware
<1>1. IInv => I8259PinFromHardware
  BY DEF IInv
<1>. QED BY <1>1, IInvInvariant, PTL

(* Whatever ids the BIOS left in the chips, every entry a driver routed  *)
(* with ioapic_setup_isairq is on the chip whose id register, and on the  *)
(* pin, the MP tables give for its ISA IRQ, and carries that IRQ's vector: *)
(* ioapic_init rewrote the ids before any routing (ioapic.c lines 164-175). *)
THEOREM RoutedToMPDestinationHolds == Spec => []RoutedToMPDestination
<1>1. IInv => RoutedToMPDestination
  BY DEF IInv
<1>. QED BY <1>1, IInvInvariant, PTL

(* The model's variables keep their types: in particular a pin that       *)
(* ioapic_isa_pin did not find is written as an (int, uint8_t) pair.      *)
THEOREM TypeCorrect == Spec => []TypeOK
<1>1. IInv => TypeOK
  BY DEF IInv
<1>. QED BY <1>1, IInvInvariant, PTL

=============================================================================
