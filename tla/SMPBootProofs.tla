----------------------------- MODULE SMPBootProofs -----------------------------
(***************************************************************************)
(* Proofs about the SMP bring-up model, for any number of APs, SIPI       *)
(* attempts and wait polls: the assertions of smpboot_init (line 300) and *)
(* of secondary_start (line 246) hold under lost and late IPIs and any    *)
(* timing of the APs against the BSP's polls.                              *)
(***************************************************************************)
EXTENDS SMPBoot, TLAPS

(* AP a has run secondary_start.                                           *)
Alive(a) == a \in APs /\ ap[a] \in {"spin", "test"}

(* The BSP locations between the allocation for cpus[cur] and its end.    *)
Starting == {"send_init", "init_ack", "send_sipi", "sipi_ack", "wait",
             "check", "fail"}

(* Where the BSP is: cur is 0 before the loop, an AP while one is being *)
(* started (its parameters in the block), one past the last AP once all   *)
(* are; the wait loop polls with                                          *)
(* timeout >= 0 and leaves with timeout # -1 only when cur is alive.      *)
Places ==
    /\ bsp = "init" => cur = 0
    /\ bsp = "loop" => cur \in 1 .. NAPs + 1
    /\ bsp \in Starting \cup {"alloc"} => cur \in APs
    /\ bsp \in {"finish", "done", "triggered"} => cur = NAPs + 1
    /\ bsp \in Starting \ {"fail"} => count = cur
    /\ bsp \in Starting => params = cur
    /\ bsp = "wait" => timeout \in 0 .. WAIT_TIMEOUT
    /\ bsp = "check" /\ timeout # -1 => Alive(cur)

(* nr_alive_cpus counts the BSP, the APs below cur, and cur once alive.   *)
AliveCount ==
    nrAlive = IF cur = 0 THEN 1 ELSE cur + (IF Alive(cur) THEN 1 ELSE 0)

(* Every IPI in flight is for cur, whose parameters the block holds; the  *)
(* INIT is acked before a SIPI is sent; none is in flight outside the    *)
(* INIT and SIPI handshakes.                                               *)
InFlight ==
    /\ \A m \in ipis : m[2] = cur /\ params = cur
    /\ bsp \in {"init", "loop", "alloc", "send_init", "wait", "check",
                "finish", "done", "triggered"} => ipis = {}
    /\ bsp \in {"send_sipi", "sipi_ack"} => <<"init", cur>> \notin ipis
    /\ <<"init", cur>> \in ipis =>
          /\ <<"sipi", cur>> \notin ipis
          /\ ap[cur] \in {"halted", "wait_sipi"}

(* The APs are started in order: those below cur are alive, those above  *)
(* halted, cur halted until its INIT, and only cur may wait for a SIPI or *)
(* run the trampoline, while the block holds its parameters.             *)
InOrder ==
    /\ bsp \in {"loop", "alloc", "send_init"} /\ cur \in APs =>
          ap[cur] = "halted"
    /\ \A a \in APs : a < cur => Alive(a)
    /\ \A a \in APs : a > cur => ap[a] = "halted"
    /\ \A a \in APs : ap[a] \in {"wait_sipi", "tramp"} => a = cur /\ params = cur

(* An AP that ran secondary_start loaded its own per-CPU area.            *)
OwnArea == \A a \in APs : Alive(a) => percpu[a] = a

(* The inductive invariant.                                                *)
IInv == TypeOK /\ Places /\ AliveCount /\ InFlight /\ InOrder /\ OwnArea

-----------------------------------------------------------------------------
LEMMA InitIInv == Init => IInv
<1> SUFFICES ASSUME Init PROVE IInv
  OBVIOUS
<1> USE SMPBootAssumption DEF Init, APs, NoAP
<1>1. TypeOK
  <2>1. bsp \in BSPPCs
    BY DEF BSPPCs
  <2>4. cur \in 0 .. NAPs + 1 /\ count \in Nat
        /\ j \in 0 .. MAX_SIPI_RETRY /\ timeout \in -1 .. WAIT_TIMEOUT
        /\ nrAlive \in 1 .. NAPs + 1
    OBVIOUS
  <2>2. params \in APs \cup {NoAP} /\ freed \subseteq APs
    OBVIOUS
  <2>5. ipis \subseteq IPIs /\ startTests \in BOOLEAN
    BY Zenon
  <2>3. ap \in [APs -> APStates] /\ percpu \in [APs -> APs \cup {NoAP}]
    BY DEF APStates
  <2>. QED BY <2>1, <2>2, <2>3, <2>4, <2>5 DEF TypeOK
<1>2. Places /\ AliveCount /\ InFlight
  BY DEF Places, AliveCount, InFlight, Alive, Starting
<1>3. InOrder /\ OwnArea
  BY DEF InOrder, OwnArea, Alive
<1>. QED BY <1>1, <1>2, <1>3 DEF IInv

(* The steps of the BSP.                                                  *)
LEMMA BSPIInv == IInv /\ BSPStep => IInv'
<1> SUFFICES ASSUME IInv, BSPStep PROVE IInv'
  OBVIOUS
<1> USE SMPBootAssumption DEF IInv, APs, NoAP, Goto, apVars
<1>0. TypeOK /\ Places /\ AliveCount /\ InFlight /\ InOrder /\ OwnArea
  BY DEF IInv
<1>1. CASE SmpbootInit
  <2>1. TypeOK'
    BY <1>1 DEF SmpbootInit, TypeOK, BSPPCs, APStates, IPIs
  <2>2. Places'
    BY <1>1 DEF SmpbootInit, Places, Starting, Alive
  <2>3. AliveCount'
    BY <1>1 DEF SmpbootInit, AliveCount, Alive, Places, InOrder, TypeOK
  <2>4. InFlight'
    BY <1>1 DEF SmpbootInit, InFlight
  <2>5. InOrder'
    BY <1>1 DEF SmpbootInit, InOrder, Alive, Places, TypeOK
  <2>6. OwnArea'
    BY <1>1 DEF SmpbootInit, OwnArea, Alive
  <2>. QED BY <2>1, <2>2, <2>3, <2>4, <2>5, <2>6 DEF IInv
<1>2. CASE Loop
  <2>1. TypeOK'
    BY <1>2 DEF Loop, TypeOK, BSPPCs, APStates, IPIs
  <2>2. Places'
    BY <1>2 DEF Loop, Places, Starting, Alive
  <2>3. AliveCount'
    BY <1>2 DEF Loop, AliveCount, Alive
  <2>4. InFlight'
    BY <1>2 DEF Loop, InFlight
  <2>5. InOrder'
    BY <1>2 DEF Loop, InOrder, Alive
  <2>6. OwnArea'
    BY <1>2 DEF Loop, OwnArea, Alive
  <2>. QED BY <2>1, <2>2, <2>3, <2>4, <2>5, <2>6 DEF IInv
<1>3. CASE StartAlloc
  <2>1. TypeOK'
    BY <1>3 DEF StartAlloc, TypeOK, BSPPCs, APStates, IPIs, Places, Starting
  <2>2. Places'
    BY <1>3 DEF StartAlloc, Places, Starting, Alive, AliveCount, InOrder, TypeOK
  <2>3. AliveCount'
    BY <1>3 DEF StartAlloc, AliveCount, Alive
  <2>4. InFlight'
    BY <1>3 DEF StartAlloc, InFlight
  <2>5. InOrder'
    BY <1>3 DEF StartAlloc, InOrder, Alive
  <2>6. OwnArea'
    BY <1>3 DEF StartAlloc, OwnArea, Alive
  <2>. QED BY <2>1, <2>2, <2>3, <2>4, <2>5, <2>6 DEF IInv
<1>4. CASE SendInit
  <2>1. TypeOK'
    BY <1>4 DEF SendInit, TypeOK, BSPPCs, APStates, IPIs, Places, Starting
  <2>2. Places'
    BY <1>4 DEF SendInit, Places, Starting, Alive
  <2>3. AliveCount'
    BY <1>4 DEF SendInit, AliveCount, Alive
  <2>4. InFlight'
    BY <1>4 DEF SendInit, InFlight, Places, Starting, InOrder
  <2>5. InOrder'
    BY <1>4 DEF SendInit, InOrder, Alive
  <2>6. OwnArea'
    BY <1>4 DEF SendInit, OwnArea, Alive
  <2>. QED BY <2>1, <2>2, <2>3, <2>4, <2>5, <2>6 DEF IInv
<1>5. CASE InitAcked
  <2>1. TypeOK'
    BY <1>5 DEF InitAcked, TypeOK, BSPPCs, APStates, IPIs
  <2>2. Places'
    BY <1>5 DEF InitAcked, Places, Starting, Alive
  <2>3. AliveCount'
    BY <1>5 DEF InitAcked, AliveCount, Alive
  <2>4. InFlight'
    BY <1>5 DEF InitAcked, InFlight
  <2>5. InOrder'
    BY <1>5 DEF InitAcked, InOrder, Alive
  <2>6. OwnArea'
    BY <1>5 DEF InitAcked, OwnArea, Alive
  <2>. QED BY <2>1, <2>2, <2>3, <2>4, <2>5, <2>6 DEF IInv
<1>6. CASE InitAckTimeout
  <2>1. TypeOK'
    BY <1>6 DEF InitAckTimeout, TypeOK, BSPPCs, APStates, IPIs
  <2>2. Places'
    BY <1>6 DEF InitAckTimeout, Places, Starting, Alive
  <2>3. AliveCount'
    BY <1>6 DEF InitAckTimeout, AliveCount, Alive
  <2>4. InFlight'
    BY <1>6 DEF InitAckTimeout, InFlight
  <2>5. InOrder'
    BY <1>6 DEF InitAckTimeout, InOrder, Alive
  <2>6. OwnArea'
    BY <1>6 DEF InitAckTimeout, OwnArea, Alive
  <2>. QED BY <2>1, <2>2, <2>3, <2>4, <2>5, <2>6 DEF IInv
<1>7. CASE SendSipi
  <2>1. TypeOK'
    BY <1>7 DEF SendSipi, TypeOK, BSPPCs, APStates, IPIs, Places, Starting
  <2>2. Places'
    BY <1>7 DEF SendSipi, Places, Starting, Alive
  <2>3. AliveCount'
    BY <1>7 DEF SendSipi, AliveCount, Alive
  <2>4. InFlight'
    BY <1>7 DEF SendSipi, InFlight, Places, Starting
  <2>5. InOrder'
    BY <1>7 DEF SendSipi, InOrder, Alive
  <2>6. OwnArea'
    BY <1>7 DEF SendSipi, OwnArea, Alive
  <2>. QED BY <2>1, <2>2, <2>3, <2>4, <2>5, <2>6 DEF IInv
<1>8. CASE SipiAcked
  <2>1. TypeOK'
    BY <1>8 DEF SipiAcked, TypeOK, BSPPCs, APStates, IPIs
  <2>2. Places'
    BY <1>8 DEF SipiAcked, Places, Starting, Alive
  <2>3. AliveCount'
    BY <1>8 DEF SipiAcked, AliveCount, Alive
  <2>4. InFlight'
    BY <1>8 DEF SipiAcked, InFlight
  <2>5. InOrder'
    BY <1>8 DEF SipiAcked, InOrder, Alive
  <2>6. OwnArea'
    BY <1>8 DEF SipiAcked, OwnArea, Alive
  <2>. QED BY <2>1, <2>2, <2>3, <2>4, <2>5, <2>6 DEF IInv
<1>9. CASE SipiAckTimeout
  <2>1. TypeOK'
    BY <1>9 DEF SipiAckTimeout, TypeOK, BSPPCs, APStates, IPIs
  <2>2. Places'
    BY <1>9 DEF SipiAckTimeout, Places, Starting, Alive
  <2>3. AliveCount'
    BY <1>9 DEF SipiAckTimeout, AliveCount, Alive
  <2>4. InFlight'
    BY <1>9 DEF SipiAckTimeout, InFlight
  <2>5. InOrder'
    BY <1>9 DEF SipiAckTimeout, InOrder, Alive
  <2>6. OwnArea'
    BY <1>9 DEF SipiAckTimeout, OwnArea, Alive
  <2>. QED BY <2>1, <2>2, <2>3, <2>4, <2>5, <2>6 DEF IInv
<1>10. CASE WaitPoll
  <2>1. TypeOK'
    BY <1>10 DEF WaitPoll, TypeOK, BSPPCs, APStates, IPIs, Places, Starting
  <2>2. Places'
    BY <1>10 DEF WaitPoll, Places, Starting, Alive, AliveCount, TypeOK
  <2>3. AliveCount'
    BY <1>10 DEF WaitPoll, AliveCount, Alive
  <2>4. InFlight'
    BY <1>10 DEF WaitPoll, InFlight
  <2>5. InOrder'
    BY <1>10 DEF WaitPoll, InOrder, Alive
  <2>6. OwnArea'
    BY <1>10 DEF WaitPoll, OwnArea, Alive
  <2>. QED BY <2>1, <2>2, <2>3, <2>4, <2>5, <2>6 DEF IInv
<1>11. CASE Check
  <2>1. TypeOK'
    BY <1>11 DEF Check, TypeOK, BSPPCs, APStates, IPIs, Places, Starting
  <2>2. Places'
    BY <1>11 DEF Check, Places, Starting, Alive
  <2>3. AliveCount'
    BY <1>11 DEF Check, AliveCount, Alive, Places, InOrder, TypeOK
  <2>4. InFlight'
    BY <1>11 DEF Check, InFlight
  <2>5. InOrder'
    BY <1>11 DEF Check, InOrder, Alive, Places, TypeOK
  <2>6. OwnArea'
    BY <1>11 DEF Check, OwnArea, Alive
  <2>. QED BY <2>1, <2>2, <2>3, <2>4, <2>5, <2>6 DEF IInv
<1>12. CASE Fail
  <2>1. TypeOK'
    BY <1>12 DEF Fail, TypeOK, BSPPCs, APStates, IPIs, Places, Starting
  <2>2. Places'
    BY <1>12 DEF Fail, Places, Starting, Alive
  <2>3. AliveCount'
    BY <1>12 DEF Fail, AliveCount, Alive
  <2>4. InFlight'
    BY <1>12 DEF Fail, InFlight
  <2>5. InOrder'
    BY <1>12 DEF Fail, InOrder, Alive
  <2>6. OwnArea'
    BY <1>12 DEF Fail, OwnArea, Alive
  <2>. QED BY <2>1, <2>2, <2>3, <2>4, <2>5, <2>6 DEF IInv
<1>13. CASE Finish
  <2>1. TypeOK'
    BY <1>13 DEF Finish, TypeOK, BSPPCs, APStates, IPIs
  <2>2. Places'
    BY <1>13 DEF Finish, Places, Starting, Alive
  <2>3. AliveCount'
    BY <1>13 DEF Finish, AliveCount, Alive
  <2>4. InFlight'
    BY <1>13 DEF Finish, InFlight
  <2>5. InOrder'
    BY <1>13 DEF Finish, InOrder, Alive
  <2>6. OwnArea'
    BY <1>13 DEF Finish, OwnArea, Alive
  <2>. QED BY <2>1, <2>2, <2>3, <2>4, <2>5, <2>6 DEF IInv
<1>14. CASE Trigger
  <2>1. TypeOK'
    BY <1>14 DEF Trigger, TypeOK, BSPPCs, APStates, IPIs
  <2>2. Places'
    BY <1>14 DEF Trigger, Places, Starting, Alive
  <2>3. AliveCount'
    BY <1>14 DEF Trigger, AliveCount, Alive
  <2>4. InFlight'
    BY <1>14 DEF Trigger, InFlight
  <2>5. InOrder'
    BY <1>14 DEF Trigger, InOrder, Alive
  <2>6. OwnArea'
    BY <1>14 DEF Trigger, OwnArea, Alive
  <2>. QED BY <2>1, <2>2, <2>3, <2>4, <2>5, <2>6 DEF IInv
<1>. QED BY <1>1, <1>2, <1>3, <1>4, <1>5, <1>6, <1>7, <1>8, <1>9, <1>10, <1>11, <1>12, <1>13, <1>14 DEF BSPStep

(* The local APIC and the APs.                                            *)
LEMMA EnvIInv == IInv /\ ((\E m \in ipis : Deliver(m) \/ Lose(m)) \/
                          (\E a \in APs : SecondaryStart(a) \/ RunTestcases(a)))
                 => IInv'
<1> SUFFICES ASSUME IInv, (\E m \in ipis : Deliver(m) \/ Lose(m)) \/
                          (\E a \in APs : SecondaryStart(a) \/ RunTestcases(a))
             PROVE IInv'
  OBVIOUS
<1> USE SMPBootAssumption DEF IInv, APs, NoAP, bspVars, apVars
<1>1. CASE \E m \in ipis : Deliver(m)
  <2>0. PICK m \in ipis : Deliver(m)
    BY <1>1
  <2>1. /\ m \in {"init", "sipi"} \X APs /\ m[2] = cur /\ params = cur
        /\ cur \in APs /\ ap \in [APs -> APStates]
    BY <2>0 DEF TypeOK, InFlight, IPIs
  <2>2. /\ ap' = [ap EXCEPT ![cur] = IF m[1] = "init" THEN "wait_sipi"
                                    ELSE IF ap[cur] = "wait_sipi" THEN "tramp"
                                    ELSE ap[cur]]
        /\ ipis' = ipis \ {m}
        /\ UNCHANGED <<bsp, cur, count, j, timeout, params, freed, nrAlive,
                       percpu, startTests>>
    BY <2>0, <2>1 DEF Deliver
  (* The INIT finds cur halted or waiting, a SIPI wakes a waiting core:   *)
  (* neither makes cur alive or stops it being alive.                     *)
  <2>3. /\ Alive(cur)' = Alive(cur)
        /\ ap'[cur] \in {"wait_sipi", "tramp"} \/ ap'[cur] = ap[cur]
        /\ \A a \in APs : a # cur => ap'[a] = ap[a]
    <3>1. CASE m[1] = "init"
      <4>1. m = <<"init", cur>>
        BY <2>1, <3>1
      <4>2. ap[cur] \in {"halted", "wait_sipi"}
        BY <2>0, <4>1 DEF InFlight
      <4>. QED BY <2>1, <2>2, <3>1, <4>2 DEF Alive
    <3>2. CASE m[1] # "init"
      BY <2>1, <2>2, <3>2 DEF Alive
    <3>. QED BY <3>1, <3>2
  <2>4. TypeOK'
    BY <2>1, <2>2 DEF TypeOK, APStates, IPIs
  <2>5. Places'
    <3>1. bsp # "check"
      BY <2>0 DEF InFlight
    <3>. QED BY <2>2, <2>3, <3>1 DEF Places, Starting
  <2>6. AliveCount'
    BY <2>1, <2>2, <2>3 DEF AliveCount
  <2>7. InFlight'
    <3>1. <<"init", cur>> \in ipis' => ap'[cur] = ap[cur]
      <4>. SUFFICES ASSUME <<"init", cur>> \in ipis' PROVE ap'[cur] = ap[cur]
        OBVIOUS
      <4>1. <<"sipi", cur>> \notin ipis /\ m # <<"init", cur>>
        BY <2>2 DEF InFlight
      <4>2. m[1] # "init" /\ ap[cur] # "wait_sipi"
        BY <2>1, <4>1, SMTT(30) DEF InFlight
      <4>. QED BY <2>1, <2>2, <4>2
    <3>. QED BY <2>1, <2>2, <3>1 DEF InFlight
  <2>8. InOrder'
    <3>1. bsp \notin {"loop", "alloc", "send_init"}
      BY <2>0 DEF InFlight
    <3>. QED BY <2>1, <2>2, <2>3, <3>1 DEF InOrder, Alive
  <2>9. OwnArea'
    BY <2>1, <2>2, <2>3 DEF OwnArea, Alive
  <2>. QED BY <2>4, <2>5, <2>6, <2>7, <2>8, <2>9 DEF IInv
<1>2. CASE \E m \in ipis : Lose(m)
  <2>0. PICK m \in ipis : Lose(m)
    BY <1>2
  <2>1. TypeOK'
    BY <2>0 DEF Lose, TypeOK, BSPPCs, APStates, IPIs
  <2>2. Places'
    BY <2>0 DEF Lose, Places, Starting, Alive
  <2>3. AliveCount'
    BY <2>0 DEF Lose, AliveCount, Alive
  <2>4. InFlight'
    BY <2>0 DEF Lose, InFlight
  <2>5. InOrder'
    BY <2>0 DEF Lose, InOrder, Alive
  <2>6. OwnArea'
    BY <2>0 DEF Lose, OwnArea, Alive
  <2>. QED BY <2>1, <2>2, <2>3, <2>4, <2>5, <2>6 DEF IInv
<1>3. CASE \E a \in APs : SecondaryStart(a)
  <2>0. PICK a \in APs : SecondaryStart(a)
    BY <1>3
  (* Only cur runs the trampoline, on the block that holds its own        *)
  (* parameters; it was not alive, so nr_alive_cpus was cur.               *)
  <2>1. a = cur /\ params = cur /\ ~Alive(cur) /\ nrAlive = cur
        /\ ap[cur] = "tramp" /\ ap \in [APs -> APStates]
        /\ percpu \in [APs -> APs \cup {NoAP}]
    BY <2>0 DEF SecondaryStart, InOrder, AliveCount, Alive, TypeOK
  <2>2. /\ ap' = [ap EXCEPT ![cur] = "spin"]
        /\ percpu' = [percpu EXCEPT ![cur] = cur]
        /\ nrAlive' = cur + 1
        /\ UNCHANGED <<bsp, cur, count, j, timeout, params, freed, ipis,
                       startTests>>
    BY <2>0, <2>1 DEF SecondaryStart
  <2>3. Alive(cur)' /\ \A b \in APs : b # cur => ap'[b] = ap[b]
    BY <2>1, <2>2 DEF Alive
  <2>4. TypeOK'
    BY <2>1, <2>2 DEF TypeOK, APStates
  <2>5. Places'
    BY <2>2, <2>3 DEF Places, Starting
  <2>6. AliveCount'
    BY <2>1, <2>2, <2>3 DEF AliveCount
  <2>7. InFlight'
    <3>1. <<"init", cur>> \notin ipis
      BY <2>0, <2>1 DEF InFlight
    <3>. QED BY <2>1, <2>2, <3>1 DEF InFlight
  <2>8. InOrder'
    <3>1. bsp \notin {"loop", "alloc", "send_init"}
      BY <2>0, <2>1 DEF InOrder, TypeOK
    <3>. QED BY <2>1, <2>2, <2>3, <3>1 DEF InOrder, Alive
  <2>9. OwnArea'
    BY <2>1, <2>2, <2>3 DEF OwnArea, Alive
  <2>. QED BY <2>4, <2>5, <2>6, <2>7, <2>8, <2>9 DEF IInv
<1>4. CASE \E a \in APs : RunTestcases(a)
  <2>0. PICK a \in APs : RunTestcases(a)
    BY <1>4
  <2>1. TypeOK'
    BY <2>0 DEF RunTestcases, TypeOK, BSPPCs, APStates, IPIs
  <2>2. Places'
    BY <2>0 DEF RunTestcases, Places, Starting, Alive
  <2>3. AliveCount'
    BY <2>0 DEF RunTestcases, AliveCount, Alive
  <2>4. InFlight'
    BY <2>0 DEF RunTestcases, InFlight
  <2>5. InOrder'
    BY <2>0 DEF RunTestcases, InOrder, Alive
  <2>6. OwnArea'
    BY <2>0 DEF RunTestcases, OwnArea, Alive
  <2>. QED BY <2>1, <2>2, <2>3, <2>4, <2>5, <2>6 DEF IInv
<1>. QED BY <1>1, <1>2, <1>3, <1>4

LEMMA NextIInv == IInv /\ [Next]_vars => IInv'
<1> SUFFICES ASSUME IInv, [Next]_vars PROVE IInv'
  OBVIOUS
<1>1. CASE BSPStep
  BY <1>1, BSPIInv
<1>2. CASE (\E m \in ipis : Deliver(m) \/ Lose(m)) \/
           (\E a \in APs : SecondaryStart(a) \/ RunTestcases(a))
  BY <1>2, EnvIInv
<1>3. CASE UNCHANGED vars
  BY <1>3 DEF vars, IInv, TypeOK, Places, AliveCount, InFlight, InOrder, OwnArea, Alive
<1>. QED BY <1>1, <1>2, <1>3 DEF Next

LEMMA IInvInvariant == Spec => []IInv
BY InitIInv, NextIInv, PTL DEF Spec

-----------------------------------------------------------------------------
(* The assertion of smpboot_init at line 300: once the loop has passed   *)
(* the last AP, nr_alive_cpus is the number of CPUs and every AP runs     *)
(* secondary_start, for any number of APs, SIPI attempts and polls.      *)
THEOREM BootCompleteAllAliveHolds == Spec => []BootCompleteAllAlive
<1>1. IInv => BootCompleteAllAlive
  <2> SUFFICES ASSUME IInv, bsp \in {"finish", "done", "triggered"}
               PROVE  nrAlive = NAPs + 1 /\ \A a \in APs : ap[a] \in {"spin", "test"}
    BY DEF BootCompleteAllAlive
  <2>1. cur = NAPs + 1 /\ cur \notin APs
    BY SMPBootAssumption DEF IInv, Places, APs
  <2>2. nrAlive = NAPs + 1
    BY <2>1, SMPBootAssumption DEF IInv, AliveCount, Alive
  <2>3. \A a \in APs : ap[a] \in {"spin", "test"}
    BY <2>1, SMPBootAssumption DEF IInv, InOrder, Alive, APs
  <2>. QED BY <2>2, <2>3
<1>. QED BY <1>1, IInvInvariant, PTL

(* The assertion of secondary_start at line 246: an AP that has run     *)
(* secondary_start loaded the per-CPU area the BSP prepared for it; the  *)
(* shared parameter block is never rewritten for the next CPU while one  *)
(* may still read it.                                                      *)
THEOREM ParamsOwnHolds == Spec => []ParamsOwn
<1>1. IInv => ParamsOwn
  BY DEF IInv, OwnArea, ParamsOwn, Alive
<1>. QED BY <1>1, IInvInvariant, PTL

(* The variables keep their types.                                         *)
THEOREM TypeCorrect == Spec => []TypeOK
BY IInvInvariant, PTL DEF IInv

================================================================================
