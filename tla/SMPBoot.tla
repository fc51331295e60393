------------------------------- MODULE SMPBoot -------------------------------
(***************************************************************************)
(* SMP bring-up of src/arch/x86/smpboot.c: the bootstrap CPU (BSP) starts  *)
(* the application processors (APs) one after the other with the          *)
(* INIT-SIPI sequence of start_secondary_cpu, and each AP, once the       *)
(* trampoline has loaded its stack and per-CPU area from the shared       *)
(* parameter block, announces itself by incrementing nr_alive_cpus.      *)
(*                                                                         *)
(* The IPIs in flight are a set: the local APIC may deliver one to its    *)
(* target at any time, or fail to (a lost IPI leaves the ICR idle, so it  *)
(* is still "acked": the Intel note of lines 104-107).  apic_ipi_acked    *)
(* polls the delivery status: it returns true once nothing is in flight   *)
(* and may time out while something still is.  pit_udelay is time: the  *)
(* APs take any number of steps between two polls of the BSP.            *)
(***************************************************************************)
EXTENDS Integers, FiniteSets

CONSTANTS
    NAPs,             \* mptables_get_nr_cpus() - 1: the APs are 1 .. NAPs
    MAX_SIPI_RETRY,   \* line 109
    WAIT_TIMEOUT      \* the start value of `timeout`, line 186 (1000)

ASSUME SMPBootAssumption ==
    /\ NAPs \in Nat
    /\ MAX_SIPI_RETRY \in Nat \ {0}
    /\ WAIT_TIMEOUT \in Nat

APs == 1 .. NAPs
NoAP == 0

(* An AP's state: deep halted, waiting for a SIPI after INIT, running the *)
(* trampoline, in secondary_start spinning on start_running_testcases,    *)
(* running its test cases.                                                *)
APStates == {"halted", "wait_sipi", "tramp", "spin", "test"}

BSPPCs == {"init", "loop", "alloc", "send_init", "init_ack", "send_sipi",
           "sipi_ack", "wait", "check", "fail", "finish", "done",
           "triggered", "panic"}

VARIABLES
    bsp,        \* program location of the BSP
    cur,        \* the `cpu` iterator of smpboot_init
    count,      \* local `count` of start_secondary_cpu
    j,          \* the SIPI attempt counter
    timeout,    \* local `timeout` of start_secondary_cpu
    nrAlive,    \* nr_alive_cpus
    params,     \* the AP whose stack and per-CPU area TRAMPOLINE_PARAMS holds
    freed,      \* the APs whose __current and stack the fail path freed
    ipis,       \* IPIs sent and not yet delivered or lost
    ap,         \* ap[a]: state of AP a
    percpu,     \* percpu[a]: the per-CPU area AP a loaded in the trampoline
    startTests  \* start_running_testcases

vars == <<bsp, cur, count, j, timeout, nrAlive, params, freed, ipis, ap,
          percpu, startTests>>

IPIs == {"init", "sipi"} \X APs

-----------------------------------------------------------------------------
Init ==
    /\ bsp = "init"
    /\ cur = NoAP
    /\ count = 0
    /\ j = 0
    /\ timeout = 0
    /\ nrAlive = 1
    /\ params = NoAP
    /\ freed = {}
    /\ ipis = {}
    /\ ap = [a \in APs |-> "halted"]
    /\ percpu = [a \in APs |-> NoAP]
    /\ startTests = FALSE

bspVars == <<bsp, cur, count, j, timeout, params, freed>>
apVars  == <<ap, percpu>>

Goto(l) == bsp' = l

(* smpboot_init, lines 278-291: the parameter block is allocated (a      *)
(* failed kmalloc panics) and the loop starts at cpus[1].                 *)
SmpbootInit ==
    /\ bsp = "init"
    /\ \/ Goto("loop") /\ cur' = 1
       \/ Goto("panic") /\ UNCHANGED cur
    /\ UNCHANGED <<count, j, timeout, params, freed, nrAlive, ipis, apVars,
                   startTests>>

(* Mutant of Loop: the iteration stops one CPU early.                    *)
Loop_short ==
    /\ bsp = "loop"
    /\ Goto(IF cur < NAPs THEN "alloc" ELSE "finish")
    /\ UNCHANGED <<cur, count, j, timeout, params, freed, nrAlive, ipis,
                   apVars, startTests>>

(* The loop test of for_all_cpus_except_bootstrap, line 291.             *)
Loop ==
    /\ bsp = "loop"
    /\ Goto(IF cur <= NAPs THEN "alloc" ELSE "finish")
    /\ UNCHANGED <<cur, count, j, timeout, params, freed, nrAlive, ipis,
                   apVars, startTests>>

(* Lines 126-151: count is read, `current` and the stack are allocated   *)
(* (a failure panics) and the AP's parameters are copied to the          *)
(* trampoline's parameter block.                                         *)
StartAlloc ==
    /\ bsp = "alloc"
    /\ count' = nrAlive
    /\ \/ Goto("send_init") /\ params' = cur
       \/ Goto("panic") /\ UNCHANGED params
    /\ UNCHANGED <<cur, j, timeout, freed, nrAlive, ipis, apVars, startTests>>

(* send_init_ipi, line 155.                                              *)
SendInit ==
    /\ bsp = "send_init"
    /\ ipis' = ipis \cup {<<"init", cur>>}
    /\ Goto("init_ack")
    /\ UNCHANGED <<cur, count, j, timeout, params, freed, nrAlive, apVars,
                   startTests>>

(* apic_ipi_acked returns true once the ICR is idle (lines 156-163); the *)
(* SIPI loop starts with j = 1.                                          *)
InitAcked ==
    /\ bsp = "init_ack"
    /\ ipis = {}
    /\ Goto("send_sipi")
    /\ j' = 1
    /\ UNCHANGED <<cur, count, timeout, params, freed, nrAlive, ipis, apVars,
                   startTests>>

(* apic_ipi_acked times out with the INIT still pending: goto fail.      *)
InitAckTimeout ==
    /\ bsp = "init_ack"
    /\ ipis # {}
    /\ Goto("fail")
    /\ UNCHANGED <<cur, count, j, timeout, params, freed, nrAlive, ipis,
                   apVars, startTests>>

(* send_startup_ipi, line 166.                                           *)
SendSipi ==
    /\ bsp = "send_sipi"
    /\ ipis' = ipis \cup {<<"sipi", cur>>}
    /\ Goto("sipi_ack")
    /\ UNCHANGED <<cur, count, j, timeout, params, freed, nrAlive, apVars,
                   startTests>>

(* Mutant of SipiAcked: success is returned as soon as the SIPI is acked, *)
(* without waiting for the AP to announce itself.                        *)
SipiAcked_nowait ==
    /\ bsp = "sipi_ack"
    /\ ipis = {}
    /\ Goto("loop")
    /\ cur' = cur + 1
    /\ UNCHANGED <<count, j, timeout, params, freed, nrAlive, ipis, apVars,
                   startTests>>

(* Lines 167-171 and 184-186: the SIPI is acked, the wait loop starts.   *)
SipiAcked ==
    /\ bsp = "sipi_ack"
    /\ ipis = {}
    /\ Goto("wait")
    /\ timeout' = WAIT_TIMEOUT
    /\ UNCHANGED <<cur, count, j, params, freed, nrAlive, ipis, apVars,
                   startTests>>

(* Mutant of SipiAckTimeout: the give-up test misses the last attempt.   *)
SipiAckTimeout_late ==
    /\ bsp = "sipi_ack"
    /\ ipis # {}
    /\ IF j > MAX_SIPI_RETRY THEN Goto("fail") /\ UNCHANGED j
                             ELSE Goto("send_sipi") /\ j' = j + 1
    /\ UNCHANGED <<cur, count, timeout, params, freed, nrAlive, ipis, apVars,
                   startTests>>

(* Lines 173-181: the ack timed out; retry, or give up after the last    *)
(* attempt.                                                              *)
SipiAckTimeout ==
    /\ bsp = "sipi_ack"
    /\ ipis # {}
    /\ IF j = MAX_SIPI_RETRY THEN Goto("fail") /\ UNCHANGED j
                             ELSE Goto("send_sipi") /\ j' = j + 1
    /\ UNCHANGED <<cur, count, timeout, params, freed, nrAlive, ipis, apVars,
                   startTests>>

(* One test of `while (timeout-- && count == nr_alive_cpus)`, lines      *)
(* 188-191; the pit_udelay of the body is the interleaving.              *)
WaitPoll ==
    /\ bsp = "wait"
    /\ timeout' = timeout - 1
    /\ Goto(IF timeout # 0 /\ count = nrAlive THEN "wait" ELSE "check")
    /\ UNCHANGED <<cur, count, j, params, freed, nrAlive, ipis, apVars,
                   startTests>>

(* Lines 193-199: timeout == -1 is a failure, anything else returns 0    *)
(* and smpboot_init moves to the next CPU.                               *)
Check ==
    /\ bsp = "check"
    /\ IF timeout = -1 THEN Goto("fail") /\ UNCHANGED cur
                       ELSE Goto("loop") /\ cur' = cur + 1
    /\ UNCHANGED <<count, j, timeout, params, freed, nrAlive, ipis, apVars,
                   startTests>>

(* fail: (lines 201-204) frees the AP's `current` and stack, and         *)
(* smpboot_init panics (lines 292-293).                                  *)
Fail ==
    /\ bsp = "fail"
    /\ freed' = freed \cup {cur}
    /\ Goto("panic")
    /\ UNCHANGED <<cur, count, j, timeout, params, nrAlive, ipis, apVars,
                   startTests>>

(* Lines 297-300: the parameter block is freed; assert(nr_alive_cpus ==  *)
(* nr_cpus) is BootCompleteAllAlive.                                     *)
Finish ==
    /\ bsp = "finish"
    /\ Goto("done")
    /\ UNCHANGED <<cur, count, j, timeout, params, freed, nrAlive, ipis,
                   apVars, startTests>>

(* smpboot_trigger_secondary_cores_testcases, line 226, called once the  *)
(* kernel is initialised.                                                *)
Trigger ==
    /\ bsp = "done"
    /\ startTests' = TRUE
    /\ Goto("triggered")
    /\ UNCHANGED <<cur, count, j, timeout, params, freed, nrAlive, ipis,
                   apVars>>

-----------------------------------------------------------------------------
(* The local APIC delivers an IPI: INIT puts the target in the wait-for- *)
(* SIPI state whatever it was doing; a SIPI starts the trampoline of a   *)
(* core waiting for one and is ignored by any other.                      *)
Deliver(m) ==
    /\ m \in ipis
    /\ ipis' = ipis \ {m}
    /\ LET a == m[2] IN
       ap' = [ap EXCEPT ![a] = IF m[1] = "init" THEN "wait_sipi"
                               ELSE IF @ = "wait_sipi" THEN "tramp" ELSE @]
    /\ UNCHANGED <<bspVars, nrAlive, percpu, startTests>>

(* The IPI is not accepted by its target.                                *)
Lose(m) ==
    /\ m \in ipis
    /\ ipis' = ipis \ {m}
    /\ UNCHANGED <<bspVars, nrAlive, apVars, startTests>>

(* The trampoline loads the stack and per-CPU area from TRAMPOLINE_PARAMS *)
(* and jumps to secondary_start, whose line 239 increments              *)
(* nr_alive_cpus; lines 241-250 then set up the core and enable IRQs.    *)
SecondaryStart(a) ==
    /\ ap[a] = "tramp"
    /\ percpu' = [percpu EXCEPT ![a] = params]
    /\ nrAlive' = nrAlive + 1
    /\ ap' = [ap EXCEPT ![a] = "spin"]
    /\ UNCHANGED <<bspVars, ipis, startTests>>

(* Lines 252-257: once released, the AP runs its test cases.             *)
RunTestcases(a) ==
    /\ ap[a] = "spin"
    /\ startTests
    /\ ap' = [ap EXCEPT ![a] = "test"]
    /\ UNCHANGED <<bspVars, nrAlive, ipis, percpu, startTests>>

BSPStep ==
    \/ SmpbootInit \/ Loop \/ StartAlloc \/ SendInit \/ InitAcked
    \/ InitAckTimeout \/ SendSipi \/ SipiAcked \/ SipiAckTimeout \/ WaitPoll
    \/ Check \/ Fail \/ Finish \/ Trigger

Next ==
    \/ BSPStep
    \/ \E m \in ipis : Deliver(m) \/ Lose(m)
    \/ \E a \in APs : SecondaryStart(a) \/ RunTestcases(a)

Spec == Init /\ [][Next]_vars

-----------------------------------------------------------------------------
TypeOK ==
    /\ bsp \in BSPPCs
    /\ cur \in 0 .. NAPs + 1
    /\ count \in Nat
    /\ j \in 0 .. MAX_SIPI_RETRY
    /\ timeout \in -1 .. WAIT_TIMEOUT
    /\ nrAlive \in 1 .. NAPs + 1
    /\ params \in APs \cup {NoAP}
    /\ freed \subseteq APs
    /\ ipis \subseteq IPIs
    /\ ap \in [APs -> APStates]
    /\ percpu \in [APs -> APs \cup {NoAP}]
    /\ startTests \in BOOLEAN

(* The assertion of smpboot_init, line 300: once every AP has been        *)
(* started, nr_alive_cpus counts the BSP and every AP, each of which runs  *)
(* secondary_start.                                                       *)
BootCompleteAllAlive ==
    bsp \in {"finish", "done", "triggered"} =>
        /\ nrAlive = NAPs + 1
        /\ \A a \in APs : ap[a] \in {"spin", "test"}

(* The assertion of secondary_start, line 246: every AP that has left    *)
(* the trampoline runs on the per-CPU area the BSP prepared for it, i.e.  *)
(* the shared parameter block was not overwritten for the next CPU       *)
(* before this one had read it.                                           *)
ParamsOwn ==
    \A a \in APs : ap[a] \in {"spin", "test"} => percpu[a] = a

(* The fail path of start_secondary_cpu (lines 201-204) frees the        *)
(* `current` descriptor and the stack of an AP only when that AP never    *)
(* started to execute on them.                                           *)
NoFreeOfStartedAP ==
    \A a \in freed : ap[a] \in {"halted", "wait_sipi"}

=============================================================================
