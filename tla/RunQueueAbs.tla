----------------------------- MODULE RunQueueAbs -----------------------------
(***************************************************************************)
(* What the O(1) run-queue promises (spec.md 4.2): one FIFO sequence of   *)
(* threads per priority; enqueue_tail appends, enqueue_head prepends,     *)
(* dequeue removes, pick_next returns the first thread of the lowest      *)
(* numbered non-empty priority, or no thread.  RunQueue.tla implements it *)
(* with the pointer-linked lists of src/unnamed/part_011 (kernel/queue/o1.c). *)
(***************************************************************************)
EXTENDS Naturals, Sequences

CONSTANTS Threads, NR_PRIORITIES, Priority, NULL

Prio == 0 .. NR_PRIORITIES - 1

VARIABLES rq, picked

absVars == <<rq, picked>>

Queued == {t \in Threads : \E i \in 1 .. Len(rq[Priority[t]]) :
                               rq[Priority[t]][i] = t}

InitAbs ==
    /\ rq = [p \in Prio |-> <<>>]
    /\ picked = NULL

EnqueueTailAbs(t) ==
    /\ t \notin Queued
    /\ rq' = [rq EXCEPT ![Priority[t]] = Append(@, t)]
    /\ UNCHANGED picked

EnqueueHeadAbs(t) ==
    /\ t \notin Queued
    /\ rq' = [rq EXCEPT ![Priority[t]] = <<t>> \o @]
    /\ UNCHANGED picked

DequeueAbs(t) ==
    /\ t \in Queued
    /\ rq' = [rq EXCEPT ![Priority[t]] = SelectSeq(@, LAMBDA u : u # t)]
    /\ UNCHANGED picked

(* The most urgent non-empty priority, if any.                           *)
Busy == {p \in Prio : rq[p] # <<>>}

PickNextAbs ==
    /\ picked' = IF Busy = {} THEN NULL
                 ELSE Head(rq[CHOOSE p \in Busy : \A q \in Busy : p <= q])
    /\ UNCHANGED rq

NextAbs ==
    \/ \E t \in Threads : EnqueueTailAbs(t) \/ EnqueueHeadAbs(t) \/ DequeueAbs(t)
    \/ PickNextAbs

SpecAbs == InitAbs /\ [][NextAbs]_absVars

=============================================================================
