------------------------------ MODULE Spinlock ------------------------------
(***************************************************************************)
(* The mcube SMP spinlock of src/arch/x86/lib/spinlock.c (declarations in *)
(* src/unnamed/part_009, the spinlock.h header).                          *)
(*                                                                         *)
(* One lock word `val` (0 = _SPIN_UNLOCKED, 1 = _SPIN_LOCKED) and the      *)
(* `rflags` field of the lock are shared by every CPU.  Each CPU has an    *)
(* interrupt flag IF and two execution contexts: the interrupted thread   *)
(* and an interrupt handler.  Both contexts call spin_lock / spin_trylock *)
(* / spin_unlock on the same lock: this is the reentrancy NOTE of         *)
(* spinlock.c (an IRQ handler may take "the very same lock").            *)
(*                                                                         *)
(* Each C statement that touches shared state (the lock word, the lock's  *)
(* rflags field, the CPU's IF flag) is one step; a context's local        *)
(* `rflags` variable is rflags[x].  The rflags register is abstracted to  *)
(* its IF bit, the only bit these functions read.                         *)
(***************************************************************************)
EXTENDS Naturals, FiniteSets

CONSTANTS CPUs

ASSUME CPUsAssumption == CPUs # {} /\ IsFiniteSet(CPUs)

UNLOCKED == 0   \* _SPIN_UNLOCKED
LOCKED   == 1   \* _SPIN_LOCKED

Kinds == {"thread", "irq"}
Ctx   == CPUs \X Kinds

CpuOf(x) == x[1]
Thread(c) == <<c, "thread">>
Irq(c)    == <<c, "irq">>

(* Program locations of a context.  "idle" is code outside the three    *)
(* lock functions; "iret" is the end of an interrupt handler.           *)
PCs == {"idle", "iret",
        "l_save", "l_tas", "l_restore", "l_spin", "l_disable", "l_store",
        "t_save", "t_tas", "t_restore", "t_store",
        "cs", "u_read", "u_clear", "u_restore"}

VARIABLES
    val,        \* lock->val
    lockRflags, \* lock->rflags (its IF bit)
    intr,       \* intr[c]: interrupt-enable flag of CPU c
    inIrq,      \* inIrq[c]: an interrupt handler is running on CPU c
    pc,         \* pc[x]: program location of context x
    rflags,     \* rflags[x]: local variable `rflags` of the function x runs
    entryIF     \* history: IF of x's CPU when x entered spin_lock/trylock

vars == <<val, lockRflags, intr, inIrq, pc, rflags, entryIF>>

(* A context runs only when it is the one the CPU is executing.          *)
Running(x) == IF x[2] = "irq" THEN inIrq[CpuOf(x)] ELSE ~inIrq[CpuOf(x)]

(* Where a context goes once a lock function has returned.               *)
Done(x) == IF x[2] = "irq" THEN "iret" ELSE "idle"

(* The context owns the lock: between a winning test-and-set and the     *)
(* store that clears lock->val in spin_unlock.                           *)
Holds(x) == pc[x] \in {"l_store", "t_store", "cs", "u_read", "u_clear"}

Step(x, from, to) ==
    /\ pc[x] = from
    /\ Running(x)
    /\ pc' = [pc EXCEPT ![x] = to]

SetIF(x, b) == intr' = [intr EXCEPT ![CpuOf(x)] = b]

-----------------------------------------------------------------------------
(* spin_init: the lock word starts unlocked; every CPU boots in thread   *)
(* context with interrupts in either state.                              *)
Init ==
    /\ val = UNLOCKED
    /\ lockRflags = FALSE
    /\ intr \in [CPUs -> BOOLEAN]
    /\ inIrq = [c \in CPUs |-> FALSE]
    /\ pc = [x \in Ctx |-> "idle"]
    /\ rflags = [x \in Ctx |-> FALSE]
    /\ entryIF = [x \in Ctx |-> FALSE]

(* spin_lock, line 91: rflags = local_irq_disable_save().                *)
LockSave(x) ==
    /\ Step(x, "l_save", "l_tas")
    /\ rflags' = [rflags EXCEPT ![x] = intr[CpuOf(x)]]
    /\ entryIF' = [entryIF EXCEPT ![x] = intr[CpuOf(x)]]
    /\ SetIF(x, FALSE)
    /\ UNCHANGED <<val, lockRflags, inIrq>>

(* Mutant of LockTAS: an atomic increment in place of the bit           *)
(* test-and-set.                                                         *)
LockTAS_increment(x) ==
    /\ Step(x, "l_tas", IF val = UNLOCKED THEN "l_store" ELSE "l_restore")
    /\ val' = val + 1
    /\ UNCHANGED <<lockRflags, intr, inIrq, rflags, entryIF>>

(* spin_lock, line 93: atomic_bit_test_and_set(&lock->val); a result of  *)
(* _SPIN_LOCKED enters the loop body, otherwise the lock is taken.       *)
LockTAS(x) ==
    /\ Step(x, "l_tas", IF val = LOCKED THEN "l_restore" ELSE "l_store")
    /\ val' = LOCKED
    /\ UNCHANGED <<lockRflags, intr, inIrq, rflags, entryIF>>

(* spin_lock, line 94: local_irq_restore(rflags) before busy-waiting.    *)
LockRestore(x) ==
    /\ Step(x, "l_restore", "l_spin")
    /\ SetIF(x, rflags[x])
    /\ UNCHANGED <<val, lockRflags, inIrq, rflags, entryIF>>

(* spin_lock, lines 96-97: leave the cpu_pause() loop once the lock word *)
(* reads unlocked (while it reads locked the context only pauses).       *)
LockSpin(x) ==
    /\ Step(x, "l_spin", "l_disable")
    /\ val = UNLOCKED
    /\ UNCHANGED <<val, lockRflags, intr, inIrq, rflags, entryIF>>

(* Mutant of LockDisable: the loop goes back to spinning instead of      *)
(* retrying the test-and-set.                                            *)
LockDisable_noretry(x) ==
    /\ Step(x, "l_disable", "l_spin")
    /\ SetIF(x, FALSE)
    /\ UNCHANGED <<val, lockRflags, inIrq, rflags, entryIF>>

(* Mutant of LockDisable: once the spin loop has seen the lock free, the *)
(* context takes it with a plain store instead of retrying the atomic    *)
(* test-and-set.                                                         *)
LockDisable_plainstore(x) ==
    /\ Step(x, "l_disable", "l_store")
    /\ SetIF(x, FALSE)
    /\ val' = LOCKED
    /\ UNCHANGED <<lockRflags, inIrq, rflags, entryIF>>

(* spin_lock, line 99: local_irq_disable() before retrying the TAS.      *)
LockDisable(x) ==
    /\ Step(x, "l_disable", "l_tas")
    /\ SetIF(x, FALSE)
    /\ UNCHANGED <<val, lockRflags, inIrq, rflags, entryIF>>

(* Mutant of LockStore: the current flags (interrupts off) are saved     *)
(* instead of the caller's.                                              *)
LockStore_current(x) ==
    /\ Step(x, "l_store", "cs")
    /\ lockRflags' = intr[CpuOf(x)]
    /\ UNCHANGED <<val, intr, inIrq, rflags, entryIF>>

(* spin_lock, line 107: lock->rflags = rflags, once the lock is held.    *)
LockStore(x) ==
    /\ Step(x, "l_store", "cs")
    /\ lockRflags' = rflags[x]
    /\ UNCHANGED <<val, intr, inIrq, rflags, entryIF>>

(* spin_trylock, line 121: rflags = local_irq_disable_save().            *)
TrySave(x) ==
    /\ Step(x, "t_save", "t_tas")
    /\ rflags' = [rflags EXCEPT ![x] = intr[CpuOf(x)]]
    /\ entryIF' = [entryIF EXCEPT ![x] = intr[CpuOf(x)]]
    /\ SetIF(x, FALSE)
    /\ UNCHANGED <<val, lockRflags, inIrq>>

(* spin_trylock, line 123: one test-and-set, no spinning.                *)
TryTAS(x) ==
    /\ Step(x, "t_tas", IF val = LOCKED THEN "t_restore" ELSE "t_store")
    /\ val' = LOCKED
    /\ UNCHANGED <<lockRflags, intr, inIrq, rflags, entryIF>>

(* spin_trylock, lines 124-125: restore IF and return false.             *)
TryRestore(x) ==
    /\ Step(x, "t_restore", Done(x))
    /\ SetIF(x, rflags[x])
    /\ UNCHANGED <<val, lockRflags, inIrq, rflags, entryIF>>

(* spin_trylock, lines 128-129: lock->rflags = rflags and return true.   *)
TryStore(x) ==
    /\ Step(x, "t_store", "cs")
    /\ lockRflags' = rflags[x]
    /\ UNCHANGED <<val, intr, inIrq, rflags, entryIF>>

(* The caller's critical section ends and it calls spin_unlock.          *)
LeaveCS(x) ==
    /\ Step(x, "cs", "u_read")
    /\ UNCHANGED <<val, lockRflags, intr, inIrq, rflags, entryIF>>

(* Mutant of UnlockRead: local_irq_restore moved above the store that    *)
(* clears lock->val (the order spec.md 4.1 forbids).                     *)
UnlockRead_restore_first(x) ==
    /\ Step(x, "u_read", "u_clear")
    /\ rflags' = [rflags EXCEPT ![x] = lockRflags]
    /\ SetIF(x, lockRflags)
    /\ UNCHANGED <<val, lockRflags, inIrq, entryIF>>

(* spin_unlock, line 140: rflags = lock->rflags, read while still held.  *)
UnlockRead(x) ==
    /\ Step(x, "u_read", "u_clear")
    /\ rflags' = [rflags EXCEPT ![x] = lockRflags]
    /\ UNCHANGED <<val, lockRflags, intr, inIrq, entryIF>>

(* spin_unlock, line 142: lock->val = _SPIN_UNLOCKED.                     *)
UnlockClear(x) ==
    /\ Step(x, "u_clear", "u_restore")
    /\ val' = UNLOCKED
    /\ UNCHANGED <<lockRflags, intr, inIrq, rflags, entryIF>>

(* spin_unlock, line 144: local_irq_restore(rflags), after the clear.    *)
UnlockRestore(x) ==
    /\ Step(x, "u_restore", Done(x))
    /\ SetIF(x, rflags[x])
    /\ UNCHANGED <<val, lockRflags, inIrq, rflags, entryIF>>

-----------------------------------------------------------------------------
(* The environment of the lock functions.                                *)

(* Kernel code of the thread calls spin_lock or spin_trylock.            *)
ThreadCall(c) ==
    /\ pc[Thread(c)] = "idle"
    /\ ~inIrq[c]
    /\ \E f \in {"l_save", "t_save"} : pc' = [pc EXCEPT ![Thread(c)] = f]
    /\ UNCHANGED <<val, lockRflags, intr, inIrq, rflags, entryIF>>

(* Kernel code of the thread outside the lock functions executes cli or  *)
(* sti, so spin_lock is entered with interrupts either on or off.        *)
ThreadSetIF(c) ==
    /\ pc[Thread(c)] = "idle"
    /\ ~inIrq[c]
    /\ intr' = [intr EXCEPT ![c] = ~intr[c]]
    /\ UNCHANGED <<val, lockRflags, inIrq, pc, rflags, entryIF>>

(* A maskable interrupt is delivered only while IF is set; the interrupt *)
(* gate clears IF and the handler calls spin_lock or spin_trylock.       *)
IrqEnter(c) ==
    /\ intr[c]
    /\ ~inIrq[c]
    /\ inIrq' = [inIrq EXCEPT ![c] = TRUE]
    /\ intr' = [intr EXCEPT ![c] = FALSE]
    /\ \E f \in {"l_save", "t_save"} : pc' = [pc EXCEPT ![Irq(c)] = f]
    /\ UNCHANGED <<val, lockRflags, rflags, entryIF>>

(* iret restores the interrupted intr, which was set when the IRQ came.    *)
IrqReturn(c) ==
    /\ inIrq[c]
    /\ pc[Irq(c)] = "iret"
    /\ inIrq' = [inIrq EXCEPT ![c] = FALSE]
    /\ intr' = [intr EXCEPT ![c] = TRUE]
    /\ pc' = [pc EXCEPT ![Irq(c)] = "idle"]
    /\ UNCHANGED <<val, lockRflags, rflags, entryIF>>

(* The steps a context takes inside the lock functions.                  *)
LockStep(x) ==
    \/ LockSave(x) \/ LockTAS(x) \/ LockRestore(x) \/ LockSpin(x)
    \/ LockDisable(x) \/ LockStore(x)
    \/ TrySave(x) \/ TryTAS(x) \/ TryRestore(x) \/ TryStore(x)
    \/ LeaveCS(x) \/ UnlockRead(x) \/ UnlockClear(x) \/ UnlockRestore(x)

Next ==
    \/ \E x \in Ctx : LockStep(x)
    \/ \E c \in CPUs : ThreadCall(c) \/ ThreadSetIF(c) \/ IrqEnter(c)
                       \/ IrqReturn(c)

(* Every CPU keeps executing the instructions of the context it runs:    *)
(* weak fairness for each lock step and for iret.  Calls, cli/sti and    *)
(* interrupt delivery are up to the rest of the kernel and the devices.  *)
Fairness ==
    /\ \A x \in Ctx : WF_vars(LockStep(x))
    /\ \A c \in CPUs : WF_vars(IrqReturn(c))

Spec == Init /\ [][Next]_vars

FairSpec == Spec /\ Fairness

-----------------------------------------------------------------------------
(* Properties.                                                           *)

TypeOK ==
    /\ val \in {UNLOCKED, LOCKED}
    /\ lockRflags \in BOOLEAN
    /\ intr \in [CPUs -> BOOLEAN]
    /\ inIrq \in [CPUs -> BOOLEAN]
    /\ pc \in [Ctx -> PCs]
    /\ rflags \in [Ctx -> BOOLEAN]
    /\ entryIF \in [Ctx -> BOOLEAN]

(* Mutual exclusion of the test-and-set loop: no two contexts, of the    *)
(* same CPU or of different CPUs, hold the lock at once.                 *)
MutualExclusion ==
    \A x, y \in Ctx : Holds(x) /\ Holds(y) => x = y

(* The self-deadlock of NOTE2 in spinlock.c never arises: an interrupt   *)
(* handler never runs on a CPU whose thread context holds the lock (the  *)
(* handler could spin forever on a lock its own CPU can never release).  *)
NoSelfDeadlock ==
    \A c \in CPUs : inIrq[c] => ~Holds(Thread(c))

(* spin_unlock, and spin_trylock when it fails, return to the caller     *)
(* with the interrupt flag it had when it entered spin_lock/trylock: the *)
(* rflags saved in lock->rflags is the holder's own.                     *)
IrqStateRestored ==
    [][\A x \in Ctx :
         (pc[x] \in {"u_restore", "t_restore"} /\ pc'[x] = Done(x))
            => intr'[CpuOf(x)] = entryIF[x]]_vars

(* The lock is never left free while a caller waits for it: once a      *)
(* context is inside spin_lock and the lock word is clear, some context  *)
(* eventually holds the lock (the busy-wait loop of lines 93-100 retries *)
(* the test-and-set, and an interrupt that arrives while it spins with   *)
(* interrupts re-enabled does not make the lock get lost).              *)
InSpinLock(x) == pc[x] \in {"l_tas", "l_restore", "l_spin", "l_disable"}

FreeLockIsTaken ==
    \A x \in Ctx : (InSpinLock(x) /\ val = UNLOCKED) ~> \E y \in Ctx : Holds(y)

=============================================================================
