----------------------------- MODULE MCSpinlock -----------------------------
(* Two CPUs, each with a thread and an interrupt-handler context, share  *)
(* one spinlock.                                                         *)
EXTENDS Spinlock

CONSTANTS c1, c2

MCCPUs == {c1, c2}

=============================================================================
