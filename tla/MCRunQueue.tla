----------------------------- MODULE MCRunQueue -----------------------------
(* The run-queue of spec.md section 8's scenario: four priorities, with  *)
(* three threads at priority 2 (FIFO and head insertion are visible), one *)
(* at the most urgent priority 0, and priorities 1 and 3 empty.          *)
(* RunQueue is checked to implement RunQueueAbs: the pointer lists read  *)
(* from memory are the abstract FIFO sequences.                          *)
EXTENDS RunQueue, TLC

CONSTANTS t1, t2, t3, t4

MCThreads == {t1, t2, t3, t4}

MCPriority == (t1 :> 2) @@ (t2 :> 0) @@ (t3 :> 2) @@ (t4 :> 2)

Abs == INSTANCE RunQueueAbs WITH rq <- [p \in Prio |-> List(p)]

(* The pointer implementation refines the abstract run-queue: FIFO order *)
(* for enqueue_rq_queue, head jump for enqueue_rq_queue_head, exact      *)
(* removal for dequeue_rq_queue, and pick_next_task returning the first  *)
(* thread of the most urgent non-empty list.                             *)
AbsSpec == Abs!SpecAbs

=============================================================================
