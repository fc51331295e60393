------------------------------ MODULE RunQueue ------------------------------
(***************************************************************************)
(* The O(1) run-queue of src/unnamed/part_011 (kernel/queue/o1.c): one    *)
(* circular doubly-linked list per priority, threaded through the        *)
(* sentinel head rq->array[p] and the next/prev fields of the thread      *)
(* descriptors, and a priority bitmap.                                    *)
(*                                                                         *)
(* The links are modelled as they are in memory: next and prev are        *)
(* functions over all nodes, the NR_PRIORITIES sentinel heads and the      *)
(* thread descriptors.  The sentinel head of priority p is the node p.    *)
(* The bitmap is the set of priorities whose bit is set.                  *)
(*                                                                         *)
(* Every operation runs with the run-queue's spinlock held (spec.md 4.2), *)
(* so each C function is one atomic step; its assignments are applied in  *)
(* the order the C code makes them.                                       *)
(***************************************************************************)
EXTENDS Naturals, Sequences, FiniteSets

CONSTANTS
    Threads,        \* thread descriptors (struct thread_struct)
    NR_PRIORITIES,  \* number of priority levels
    Priority,       \* th->priority, fixed for each thread
    NULL            \* the NULL thread pointer returned by pick_next_task

ASSUME RunQueueAssumption ==
    /\ NR_PRIORITIES \in Nat \ {0}
    /\ IsFiniteSet(Threads)
    /\ Priority \in [Threads -> 0 .. NR_PRIORITIES - 1]
    /\ NULL \notin Threads
    /\ Threads \cap Nat = {}

Prio  == 0 .. NR_PRIORITIES - 1
Node  == Prio \cup Threads

VARIABLES
    next,    \* next[n]: the `next` link of node n
    prev,    \* prev[n]: the `prev` link of node n
    bitmap,  \* rq->bitmap, as the set of its set bits
    bindex,  \* bindex[cpu], the last find_first_bit result
    picked   \* the value pick_next_task last returned

vars == <<next, prev, bitmap, bindex, picked>>

-----------------------------------------------------------------------------
(* The list of priority p read from memory: follow next from the head    *)
(* until the head comes back.  A well-formed list has at most            *)
(* Cardinality(Threads) elements, so the walk is cut there.              *)
NT == Cardinality(Threads)

Chain(h) == LET f[i \in 0 .. NT] == IF i = 0 THEN next[h] ELSE next[f[i - 1]]
            IN  f

Closes(h) == \E i \in 0 .. NT : Chain(h)[i] = h

ListLen(h) == CHOOSE i \in 0 .. NT :
                /\ Chain(h)[i] = h
                /\ \A j \in 0 .. i - 1 : Chain(h)[j] # h

List(h) == IF Closes(h) THEN [i \in 1 .. ListLen(h) |-> Chain(h)[i - 1]]
           ELSE <<>>

(* The threads linked in some run-queue list.                            *)
Queued == {t \in Threads : \E p \in Prio, i \in 1 .. NT :
                              i <= Len(List(p)) /\ List(p)[i] = t}

-----------------------------------------------------------------------------
(* init_rq (lines 65-71): every head points to itself.  The bitmap is    *)
(* part of the zero-initialised global run_tq[] and init_rq leaves it.   *)
(* A thread descriptor's links are not read before the thread's first    *)
(* enqueue writes them; they start pointing to the thread itself.        *)
Init ==
    /\ next = [n \in Node |-> n]
    /\ prev = [n \in Node |-> n]
    /\ bitmap = {}
    /\ bindex = NR_PRIORITIES
    /\ picked = NULL

(* Mutant of enqueue_rq_queue_head: line 18 moved above lines 15-16.     *)
enqueue_rq_queue_head_reordered(t) ==
    LET h == Priority[t] IN
    /\ bitmap' = bitmap \cup {h}
    /\ prev' = [prev EXCEPT ![t] = t, ![t] = h]
    /\ next' = [next EXCEPT ![h] = t, ![t] = t]
    /\ UNCHANGED <<bindex, picked>>

(* enqueue_rq_queue_head (lines 10-19).                                  *)
enqueue_rq_queue_head(t) ==
    LET h == Priority[t] IN
    /\ bitmap' = bitmap \cup {h}                            \* set_bit
    /\ prev' = [prev EXCEPT ![next[h]] = t, ![t] = h]       \* lines 15, 17
    /\ next' = [next EXCEPT ![t] = next[h], ![h] = t]       \* lines 16, 18
    /\ UNCHANGED <<bindex, picked>>

(* enqueue_rq_queue (lines 22-31): insert before the head, at the tail.  *)
enqueue_rq_queue(t) ==
    LET h == Priority[t] IN
    /\ bitmap' = bitmap \cup {h}                            \* set_bit
    /\ next' = [next EXCEPT ![prev[h]] = t, ![t] = h]       \* lines 27, 29
    /\ prev' = [prev EXCEPT ![t] = prev[h], ![h] = t]       \* lines 28, 30
    /\ UNCHANGED <<bindex, picked>>

(* Mutant of dequeue_rq_queue: the bit is cleared when the tail is       *)
(* removed, not when the list becomes empty.                             *)
dequeue_rq_queue_tailcheck(t) ==
    LET h == Priority[t]
        next1 == IF next[h] = t THEN [next EXCEPT ![h] = next[t]]
                 ELSE [next EXCEPT ![prev[t]] = next[t]]
    IN
    /\ next' = next1
    /\ prev' = [prev EXCEPT ![next1[t]] = prev[t]]
    /\ bitmap' = IF next[t] = h THEN bitmap \ {h} ELSE bitmap
    /\ UNCHANGED <<bindex, picked>>

(* Mutant of dequeue_rq_queue: the unlinked node's links are poisoned    *)
(* with NULL.                                                            *)
dequeue_rq_queue_poison(t) ==
    LET h == Priority[t]
        next1 == IF next[h] = t THEN [next EXCEPT ![h] = next[t]]
                 ELSE [next EXCEPT ![prev[t]] = next[t]]
    IN
    /\ next' = [next1 EXCEPT ![t] = NULL]
    /\ prev' = [prev EXCEPT ![next1[t]] = prev[t], ![t] = NULL]
    /\ bitmap' = IF next1[h] = h THEN bitmap \ {h} ELSE bitmap
    /\ UNCHANGED <<bindex, picked>>

(* dequeue_rq_queue (lines 35-48).  The thread's own links are left as   *)
(* they were.                                                            *)
dequeue_rq_queue(t) ==
    LET h == Priority[t]
        next1 == IF next[h] = t THEN [next EXCEPT ![h] = next[t]]      \* 38-39
                 ELSE [next EXCEPT ![prev[t]] = next[t]]               \* 41
    IN
    /\ next' = next1
    /\ prev' = [prev EXCEPT ![next1[t]] = prev[t]]                     \* 44
    /\ bitmap' = IF next1[h] = h THEN bitmap \ {h} ELSE bitmap         \* 45-46
    /\ UNCHANGED <<bindex, picked>>

(* find_first_bit over the bitmap: the lowest set bit, or the size when  *)
(* no bit is set.                                                        *)
FindFirstBit(bm) == IF bm = {} THEN NR_PRIORITIES
                    ELSE CHOOSE p \in bm : \A q \in bm : p <= q

(* Mutant of pick_next_task: the list tail (array[bindex].prev) is taken. *)
pick_next_task_tail ==
    /\ bindex' = FindFirstBit(bitmap)
    /\ picked' = IF bindex' # NR_PRIORITIES THEN prev[bindex'] ELSE NULL
    /\ UNCHANGED <<next, prev, bitmap>>

(* pick_next_task (lines 50-61): the first thread of the most urgent     *)
(* non-empty list, left in the list.                                     *)
pick_next_task ==
    /\ bindex' = FindFirstBit(bitmap)
    /\ picked' = IF bindex' # NR_PRIORITIES THEN next[bindex'] ELSE NULL
    /\ UNCHANGED <<next, prev, bitmap>>

-----------------------------------------------------------------------------
(* Callers keep the contract of spec.md 4.2: a thread is enqueued only   *)
(* when it is in no list and dequeued only when it is in one.            *)
Next ==
    \/ \E t \in Threads \ Queued : enqueue_rq_queue(t) \/ enqueue_rq_queue_head(t)
    \/ \E t \in Queued : dequeue_rq_queue(t)
    \/ pick_next_task

Spec == Init /\ [][Next]_vars

(* Callers that break the contract: double enqueue, dequeue of a thread  *)
(* that is not queued.                                                   *)
MisuseNext ==
    \/ \E t \in Threads : enqueue_rq_queue(t) \/ enqueue_rq_queue_head(t)
                          \/ dequeue_rq_queue(t)
    \/ pick_next_task

MisuseSpec == Init /\ [][MisuseNext]_vars

-----------------------------------------------------------------------------
TypeOK ==
    /\ next \in [Node -> Node]
    /\ prev \in [Node -> Node]
    /\ bitmap \subseteq Prio
    /\ bindex \in 0 .. NR_PRIORITIES
    /\ picked \in Threads \cup Prio \cup {NULL}

(* Bitmap/list consistency (spec.md section 8): bit p of the bitmap is   *)
(* set exactly when the list of priority p is not empty, after every     *)
(* enqueue and dequeue, whichever element dequeue_rq_queue unlinks.      *)
BitmapConsistent ==
    \A p \in Prio : p \in bitmap <=> next[p] # p

(* Every list is intact: following next from a head returns to it, each  *)
(* element is a thread of that priority, and every prev link is the      *)
(* mirror of a next link (what dequeue_rq_queue relies on when it        *)
(* unlinks through th->prev and th->next).                               *)
ListsWellFormed ==
    \A p \in Prio :
        LET L == List(p) IN
        /\ Closes(p)
        /\ \A i \in 1 .. Len(L) : L[i] \in Threads /\ Priority[L[i]] = p
        /\ prev[p] = IF L = <<>> THEN p ELSE L[Len(L)]
        /\ \A i \in 1 .. Len(L) : prev[L[i]] = IF i = 1 THEN p ELSE L[i - 1]

=============================================================================
