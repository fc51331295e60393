---------------------------- MODULE SpinlockProofs ----------------------------
(***************************************************************************)
(* Proofs, for any finite non-empty set of CPUs, that the spinlock of     *)
(* spinlock.c is type-correct, gives mutual exclusion, never lets an     *)
(* interrupt handler run over its own CPU's lock holder, and returns to   *)
(* the caller the interrupt flag it entered with.                         *)
(*                                                                         *)
(* Neither property is inductive alone.  Mutual exclusion needs the lock   *)
(* word to be set while anyone holds the lock.  The absence of self-       *)
(* deadlock needs the interrupt discipline of spin_lock: from the          *)
(* local_irq_disable_save() of line 91 until the local_irq_restore() of    *)
(* line 144, a context runs with IF clear, except in the busy-wait of      *)
(* lines 94-99, where it holds nothing.                                   *)
(***************************************************************************)
EXTENDS Spinlock, TLAPS

(* Locations where the context has cleared IF and not restored it.       *)
IrqOffPCs == {"l_tas", "l_restore", "l_store", "t_tas", "t_restore",
              "t_store", "cs", "u_read", "u_clear", "u_restore"}

(* The lock word is set whenever some context holds the lock.            *)
LockedIfHeld == \A x \in Ctx : Holds(x) => val = LOCKED

(* The context a CPU executes has IF clear inside the lock functions.    *)
IrqOffInside ==
    \A c \in CPUs :
        /\ ~inIrq[c] /\ pc[Thread(c)] \in IrqOffPCs => ~intr[c]
        /\ inIrq[c] /\ pc[Irq(c)] \in IrqOffPCs => ~intr[c]

(* An interrupt never arrives over a thread inside the lock functions,   *)
(* and the handler context is idle when no interrupt is being served.    *)
IrqOnlyOutside ==
    \A c \in CPUs :
        /\ inIrq[c] => pc[Thread(c)] \notin IrqOffPCs
        /\ ~inIrq[c] => pc[Irq(c)] = "idle"

IInv ==
    /\ TypeOK
    /\ LockedIfHeld
    /\ MutualExclusion
    /\ IrqOffInside
    /\ IrqOnlyOutside

-----------------------------------------------------------------------------
LEMMA CtxFacts ==
    /\ \A c \in CPUs : Thread(c) \in Ctx /\ Irq(c) \in Ctx
    /\ \A c \in CPUs : CpuOf(Thread(c)) = c /\ CpuOf(Irq(c)) = c
    /\ \A c \in CPUs : Thread(c) # Irq(c)
    /\ \A c, d \in CPUs : c # d => Thread(c) # Thread(d) /\ Irq(c) # Irq(d)
                                   /\ Thread(c) # Irq(d)
    /\ \A x \in Ctx : x = Thread(CpuOf(x)) \/ x = Irq(CpuOf(x))
    /\ \A x \in Ctx : CpuOf(x) \in CPUs
    /\ \A x \in Ctx : x = Irq(CpuOf(x)) <=> x[2] = "irq"
BY DEF Ctx, Kinds, Thread, Irq, CpuOf

THEOREM InitIInv == Init => IInv
BY CtxFacts DEF Init, IInv, TypeOK, LockedIfHeld, MutualExclusion,
               IrqOffInside, IrqOnlyOutside, Holds, IrqOffPCs, PCs,
               UNLOCKED, LOCKED

(* Each step of Next preserves IInv: one case per action.                *)
THEOREM NextIInv == IInv /\ [Next]_vars => IInv'
<1> SUFFICES ASSUME IInv, [Next]_vars PROVE IInv'
    OBVIOUS
<1> USE CtxFacts
<1>1. ASSUME NEW x \in Ctx, LockSave(x) PROVE IInv'
    BY <1>1 DEF LockSave, Step, Running, SetIF, Done, IInv, TypeOK, LockedIfHeld, MutualExclusion, IrqOffInside, IrqOnlyOutside, Holds, IrqOffPCs, PCs, UNLOCKED, LOCKED
<1>2. ASSUME NEW x \in Ctx, LockTAS(x) PROVE IInv'
    BY <1>2 DEF LockTAS, Step, Running, SetIF, Done, IInv, TypeOK, LockedIfHeld, MutualExclusion, IrqOffInside, IrqOnlyOutside, Holds, IrqOffPCs, PCs, UNLOCKED, LOCKED
<1>3. ASSUME NEW x \in Ctx, LockRestore(x) PROVE IInv'
    BY <1>3 DEF LockRestore, Step, Running, SetIF, Done, IInv, TypeOK, LockedIfHeld, MutualExclusion, IrqOffInside, IrqOnlyOutside, Holds, IrqOffPCs, PCs, UNLOCKED, LOCKED
<1>4. ASSUME NEW x \in Ctx, LockSpin(x) PROVE IInv'
    BY <1>4 DEF LockSpin, Step, Running, SetIF, Done, IInv, TypeOK, LockedIfHeld, MutualExclusion, IrqOffInside, IrqOnlyOutside, Holds, IrqOffPCs, PCs, UNLOCKED, LOCKED
<1>5. ASSUME NEW x \in Ctx, LockDisable(x) PROVE IInv'
    BY <1>5 DEF LockDisable, Step, Running, SetIF, Done, IInv, TypeOK, LockedIfHeld, MutualExclusion, IrqOffInside, IrqOnlyOutside, Holds, IrqOffPCs, PCs, UNLOCKED, LOCKED
<1>6. ASSUME NEW x \in Ctx, LockStore(x) PROVE IInv'
    BY <1>6 DEF LockStore, Step, Running, SetIF, Done, IInv, TypeOK, LockedIfHeld, MutualExclusion, IrqOffInside, IrqOnlyOutside, Holds, IrqOffPCs, PCs, UNLOCKED, LOCKED
<1>7. ASSUME NEW x \in Ctx, TrySave(x) PROVE IInv'
    BY <1>7 DEF TrySave, Step, Running, SetIF, Done, IInv, TypeOK, LockedIfHeld, MutualExclusion, IrqOffInside, IrqOnlyOutside, Holds, IrqOffPCs, PCs, UNLOCKED, LOCKED
<1>8. ASSUME NEW x \in Ctx, TryTAS(x) PROVE IInv'
    BY <1>8 DEF TryTAS, Step, Running, SetIF, Done, IInv, TypeOK, LockedIfHeld, MutualExclusion, IrqOffInside, IrqOnlyOutside, Holds, IrqOffPCs, PCs, UNLOCKED, LOCKED
<1>9. ASSUME NEW x \in Ctx, TryRestore(x) PROVE IInv'
    BY <1>9 DEF TryRestore, Step, Running, SetIF, Done, IInv, TypeOK, LockedIfHeld, MutualExclusion, IrqOffInside, IrqOnlyOutside, Holds, IrqOffPCs, PCs, UNLOCKED, LOCKED
<1>10. ASSUME NEW x \in Ctx, TryStore(x) PROVE IInv'
    BY <1>10 DEF TryStore, Step, Running, SetIF, Done, IInv, TypeOK, LockedIfHeld, MutualExclusion, IrqOffInside, IrqOnlyOutside, Holds, IrqOffPCs, PCs, UNLOCKED, LOCKED
<1>11. ASSUME NEW x \in Ctx, LeaveCS(x) PROVE IInv'
    BY <1>11 DEF LeaveCS, Step, Running, SetIF, Done, IInv, TypeOK, LockedIfHeld, MutualExclusion, IrqOffInside, IrqOnlyOutside, Holds, IrqOffPCs, PCs, UNLOCKED, LOCKED
<1>12. ASSUME NEW x \in Ctx, UnlockRead(x) PROVE IInv'
    BY <1>12 DEF UnlockRead, Step, Running, SetIF, Done, IInv, TypeOK, LockedIfHeld, MutualExclusion, IrqOffInside, IrqOnlyOutside, Holds, IrqOffPCs, PCs, UNLOCKED, LOCKED
<1>13. ASSUME NEW x \in Ctx, UnlockClear(x) PROVE IInv'
    BY <1>13 DEF UnlockClear, Step, Running, SetIF, Done, IInv, TypeOK, LockedIfHeld, MutualExclusion, IrqOffInside, IrqOnlyOutside, Holds, IrqOffPCs, PCs, UNLOCKED, LOCKED
<1>14. ASSUME NEW x \in Ctx, UnlockRestore(x) PROVE IInv'
    BY <1>14 DEF UnlockRestore, Step, Running, SetIF, Done, IInv, TypeOK, LockedIfHeld, MutualExclusion, IrqOffInside, IrqOnlyOutside, Holds, IrqOffPCs, PCs, UNLOCKED, LOCKED
<1>15. ASSUME NEW c \in CPUs, ThreadCall(c) PROVE IInv'
    BY <1>15 DEF ThreadCall, IInv, TypeOK, LockedIfHeld, MutualExclusion, IrqOffInside, IrqOnlyOutside, Holds, IrqOffPCs, PCs, UNLOCKED, LOCKED
<1>16. ASSUME NEW c \in CPUs, ThreadSetIF(c) PROVE IInv'
    BY <1>16 DEF ThreadSetIF, IInv, TypeOK, LockedIfHeld, MutualExclusion, IrqOffInside, IrqOnlyOutside, Holds, IrqOffPCs, PCs, UNLOCKED, LOCKED
<1>17. ASSUME NEW c \in CPUs, IrqEnter(c) PROVE IInv'
    BY <1>17 DEF IrqEnter, IInv, TypeOK, LockedIfHeld, MutualExclusion, IrqOffInside, IrqOnlyOutside, Holds, IrqOffPCs, PCs, UNLOCKED, LOCKED
<1>18. ASSUME NEW c \in CPUs, IrqReturn(c) PROVE IInv'
    BY <1>18 DEF IrqReturn, IInv, TypeOK, LockedIfHeld, MutualExclusion, IrqOffInside, IrqOnlyOutside, Holds, IrqOffPCs, PCs, UNLOCKED, LOCKED
<1>19. CASE UNCHANGED vars
    BY <1>19 DEF vars, IInv, TypeOK, LockedIfHeld, MutualExclusion, IrqOffInside, IrqOnlyOutside, Holds, IrqOffPCs, PCs, UNLOCKED, LOCKED
<1>20. QED
    BY <1>1, <1>2, <1>3, <1>4, <1>5, <1>6, <1>7, <1>8, <1>9, <1>10, <1>11, <1>12, <1>13, <1>14, <1>15, <1>16, <1>17, <1>18, <1>19 DEF Next, LockStep

(* The inductive invariant holds in every reachable state.              *)
THEOREM IInvInvariant == Spec => []IInv
BY InitIInv, NextIInv, PTL DEF Spec

(* Type correctness of the spinlock model.                               *)
THEOREM TypeCorrect == Spec => []TypeOK
BY IInvInvariant, PTL DEF IInv

(* No two contexts hold the lock at once, for any number of CPUs.       *)
THEOREM MutualExclusionHolds == Spec => []MutualExclusion
BY IInvInvariant, PTL DEF IInv

(* An interrupt handler never runs over its own CPU's lock holder, for  *)
(* any number of CPUs.                                                   *)
THEOREM NoSelfDeadlockHolds == Spec => []NoSelfDeadlock
<1>1. IInv => NoSelfDeadlock
    BY CtxFacts DEF IInv, IrqOnlyOutside, NoSelfDeadlock, Holds, IrqOffPCs
<1>2. QED
    BY <1>1, IInvInvariant, PTL

-----------------------------------------------------------------------------
(* Where the caller's interrupt flag is kept between the entry to         *)
(* spin_lock or spin_trylock and the return from spin_unlock or a failed  *)
(* spin_trylock: in the local rflags until the lock is taken, in          *)
(* lock->rflags while it is held, and in the local rflags again from the  *)
(* read of line 140 until the restore of line 144.                        *)
SavedPCs == {"l_tas", "l_restore", "l_spin", "l_disable", "l_store",
             "t_tas", "t_restore", "t_store", "u_clear", "u_restore"}

RflagsSaved ==
    \A x \in Ctx :
        /\ pc[x] \in SavedPCs => rflags[x] = entryIF[x]
        /\ pc[x] \in {"cs", "u_read", "u_clear"} => lockRflags = entryIF[x]

LEMMA InitRflagsSaved == Init => RflagsSaved
BY DEF Init, RflagsSaved, SavedPCs

(* Only the holder writes lock->rflags, so mutual exclusion keeps a       *)
(* holder's saved flag from being overwritten by another context.        *)
LEMMA NextRflagsSaved == IInv /\ RflagsSaved /\ [Next]_vars => RflagsSaved'
<1> SUFFICES ASSUME IInv, RflagsSaved, [Next]_vars PROVE RflagsSaved'
    OBVIOUS
<1> USE CtxFacts
<1>1. ASSUME NEW x \in Ctx, LockSave(x) PROVE RflagsSaved'
    BY <1>1 DEF LockSave, Step, Running, SetIF, Done, IInv, TypeOK, MutualExclusion, Holds, RflagsSaved, SavedPCs, PCs
<1>2. ASSUME NEW x \in Ctx, LockTAS(x) PROVE RflagsSaved'
    BY <1>2 DEF LockTAS, Step, Running, SetIF, Done, IInv, TypeOK, MutualExclusion, Holds, RflagsSaved, SavedPCs, PCs
<1>3. ASSUME NEW x \in Ctx, LockRestore(x) PROVE RflagsSaved'
    BY <1>3 DEF LockRestore, Step, Running, SetIF, Done, IInv, TypeOK, MutualExclusion, Holds, RflagsSaved, SavedPCs, PCs
<1>4. ASSUME NEW x \in Ctx, LockSpin(x) PROVE RflagsSaved'
    BY <1>4 DEF LockSpin, Step, Running, SetIF, Done, IInv, TypeOK, MutualExclusion, Holds, RflagsSaved, SavedPCs, PCs
<1>5. ASSUME NEW x \in Ctx, LockDisable(x) PROVE RflagsSaved'
    BY <1>5 DEF LockDisable, Step, Running, SetIF, Done, IInv, TypeOK, MutualExclusion, Holds, RflagsSaved, SavedPCs, PCs
<1>6. ASSUME NEW x \in Ctx, LockStore(x) PROVE RflagsSaved'
    BY <1>6 DEF LockStore, Step, Running, SetIF, Done, IInv, TypeOK, MutualExclusion, Holds, RflagsSaved, SavedPCs, PCs
<1>7. ASSUME NEW x \in Ctx, TrySave(x) PROVE RflagsSaved'
    BY <1>7 DEF TrySave, Step, Running, SetIF, Done, IInv, TypeOK, MutualExclusion, Holds, RflagsSaved, SavedPCs, PCs
<1>8. ASSUME NEW x \in Ctx, TryTAS(x) PROVE RflagsSaved'
    BY <1>8 DEF TryTAS, Step, Running, SetIF, Done, IInv, TypeOK, MutualExclusion, Holds, RflagsSaved, SavedPCs, PCs
<1>9. ASSUME NEW x \in Ctx, TryRestore(x) PROVE RflagsSaved'
    BY <1>9 DEF TryRestore, Step, Running, SetIF, Done, IInv, TypeOK, MutualExclusion, Holds, RflagsSaved, SavedPCs, PCs
<1>10. ASSUME NEW x \in Ctx, TryStore(x) PROVE RflagsSaved'
    BY <1>10 DEF TryStore, Step, Running, SetIF, Done, IInv, TypeOK, MutualExclusion, Holds, RflagsSaved, SavedPCs, PCs
<1>11. ASSUME NEW x \in Ctx, LeaveCS(x) PROVE RflagsSaved'
    BY <1>11 DEF LeaveCS, Step, Running, SetIF, Done, IInv, TypeOK, MutualExclusion, Holds, RflagsSaved, SavedPCs, PCs
<1>12. ASSUME NEW x \in Ctx, UnlockRead(x) PROVE RflagsSaved'
    BY <1>12 DEF UnlockRead, Step, Running, SetIF, Done, IInv, TypeOK, MutualExclusion, Holds, RflagsSaved, SavedPCs, PCs
<1>13. ASSUME NEW x \in Ctx, UnlockClear(x) PROVE RflagsSaved'
    BY <1>13 DEF UnlockClear, Step, Running, SetIF, Done, IInv, TypeOK, MutualExclusion, Holds, RflagsSaved, SavedPCs, PCs
<1>14. ASSUME NEW x \in Ctx, UnlockRestore(x) PROVE RflagsSaved'
    BY <1>14 DEF UnlockRestore, Step, Running, SetIF, Done, IInv, TypeOK, MutualExclusion, Holds, RflagsSaved, SavedPCs, PCs
<1>15. ASSUME NEW c \in CPUs, ThreadCall(c) PROVE RflagsSaved'
    BY <1>15 DEF ThreadCall, IInv, TypeOK, RflagsSaved, SavedPCs, PCs
<1>16. ASSUME NEW c \in CPUs, ThreadSetIF(c) PROVE RflagsSaved'
    BY <1>16 DEF ThreadSetIF, IInv, TypeOK, RflagsSaved, SavedPCs, PCs
<1>17. ASSUME NEW c \in CPUs, IrqEnter(c) PROVE RflagsSaved'
    BY <1>17 DEF IrqEnter, IInv, TypeOK, RflagsSaved, SavedPCs, PCs
<1>18. ASSUME NEW c \in CPUs, IrqReturn(c) PROVE RflagsSaved'
    BY <1>18 DEF IrqReturn, IInv, TypeOK, RflagsSaved, SavedPCs, PCs
<1>19. CASE UNCHANGED vars
    BY <1>19 DEF vars, RflagsSaved
<1>20. QED
    BY <1>1, <1>2, <1>3, <1>4, <1>5, <1>6, <1>7, <1>8, <1>9, <1>10, <1>11, <1>12, <1>13, <1>14, <1>15, <1>16, <1>17, <1>18, <1>19 DEF Next, LockStep

LEMMA RflagsSavedInvariant == Spec => [](IInv /\ RflagsSaved)
BY InitIInv, NextIInv, InitRflagsSaved, NextRflagsSaved, PTL DEF Spec

(* spin_unlock, and a spin_trylock that fails, return with the interrupt *)
(* flag their caller had on entry to spin_lock or spin_trylock, for any  *)
(* number of CPUs and any nesting of interrupt handlers over threads.    *)
THEOREM IrqStateRestoredHolds == Spec => IrqStateRestored
<1>1. IInv /\ RflagsSaved /\ [Next]_vars =>
        [\A x \in Ctx :
            (pc[x] \in {"u_restore", "t_restore"} /\ pc'[x] = Done(x))
               => intr'[CpuOf(x)] = entryIF[x]]_vars
  <2> SUFFICES ASSUME IInv, RflagsSaved, [Next]_vars, NEW x \in Ctx,
                      pc[x] \in {"u_restore", "t_restore"}, pc'[x] = Done(x)
               PROVE  intr'[CpuOf(x)] = entryIF[x]
    OBVIOUS
  <2>1. rflags[x] = entryIF[x]
    BY DEF RflagsSaved, SavedPCs
  <2>2. UnlockRestore(x) \/ TryRestore(x)
    <3>1. pc' # pc
      BY DEF Done
    <3>2. pc'[x] # pc[x]
      BY DEF Done
    <3>3. ASSUME NEW y \in Ctx, LockStep(y) PROVE y = x
      <4>1. \E to : pc' = [pc EXCEPT ![y] = to]
        BY <3>3, Zenon DEF LockStep, LockSave, LockTAS, LockRestore, LockSpin,
              LockDisable, LockStore, TrySave, TryTAS, TryRestore, TryStore,
              LeaveCS, UnlockRead, UnlockClear, UnlockRestore, Step
      <4>. QED BY <4>1, <3>2 DEF IInv, TypeOK
    <3>4. ASSUME NEW c \in CPUs,
                 ThreadCall(c) \/ ThreadSetIF(c) \/ IrqEnter(c) \/ IrqReturn(c)
          PROVE  FALSE
      <4>1. CASE ThreadCall(c)
        BY <4>1, <3>2, CtxFacts DEF ThreadCall, IInv, TypeOK
      <4>2. CASE ThreadSetIF(c)
        BY <4>2, <3>2 DEF ThreadSetIF
      <4>3. CASE IrqEnter(c)
        <5>1. pc[Irq(c)] = "idle"
          BY <4>3, CtxFacts DEF IrqEnter, IInv, IrqOnlyOutside
        <5>. QED BY <4>3, <5>1, <3>2, CtxFacts DEF IrqEnter, IInv, TypeOK
      <4>4. CASE IrqReturn(c)
        BY <4>4, <3>2, CtxFacts DEF IrqReturn, IInv, TypeOK
      <4>. QED BY <3>4, <4>1, <4>2, <4>3, <4>4
    <3>5. LockStep(x)
      BY <3>1, <3>3, <3>4 DEF Next, vars
    <3>. QED
      BY <3>5, Zenon DEF LockStep, LockSave, LockTAS, LockRestore, LockSpin,
            LockDisable, LockStore, TrySave, TryTAS, TryStore, LeaveCS,
            UnlockRead, UnlockClear, Step
  <2>. QED
    BY <2>1, <2>2, CtxFacts DEF UnlockRestore, TryRestore, SetIF, IInv, TypeOK
<1>. QED
  BY <1>1, RflagsSavedInvariant, PTL DEF Spec, IrqStateRestored

=============================================================================
