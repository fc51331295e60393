--------------------------------- MODULE DList ---------------------------------
(***************************************************************************)
(* The type-generic doubly-linked lists of src/include/mcube/list.h:      *)
(* list_init, list_empty, list_add, list_add_tail and list_del over a set  *)
(* of list_node objects, heads and embedded nodes alike.  Each node is its *)
(* next and prev pointers; each operation is the sequence of its pointer   *)
(* writes, later reads seeing earlier writes, so that aliasing (a node    *)
(* added after its own neighbour, a list of one) is what the C does.      *)
(*                                                                         *)
(* A caller adds only a node that is on no list (list_empty) after a node  *)
(* other than itself: the header gives no other use of list_add.  The     *)
(* assertions of list_empty and list_del are recorded in `failed' rather  *)
(* than stopping the model.                                                *)
(***************************************************************************)

CONSTANT Nodes

VARIABLES
    next,    \* node->next
    prev,    \* node->prev
    failed   \* an assertion of list_empty or list_del has failed

vars == <<next, prev, failed>>

(* LIST_NODE / LIST_INIT (lines 64-74) and list_init (lines 79-83): every *)
(* node starts linked to itself.                                           *)
Init ==
    /\ next = [n \in Nodes |-> n]
    /\ prev = [n \in Nodes |-> n]
    /\ failed = FALSE

(* list_empty's answer and its assertions (lines 88-97).                   *)
ListEmpty(n) == next[n] = n
EmptyAsserts(n) == IF next[n] = n THEN prev[n] = n ELSE prev[n] # n

list_empty ==
    /\ \E n \in Nodes : failed' = (failed \/ ~EmptyAsserts(n))
    /\ UNCHANGED <<next, prev>>

(* list_add (lines 102-109): new goes right after node.                     *)
list_add ==
    \E node, new \in Nodes :
        /\ new # node /\ ListEmpty(new)
        /\ LET next1 == [next EXCEPT ![new] = next[node]]
               prev1 == [prev EXCEPT ![next1[new]] = new]
           IN  /\ next' = [next1 EXCEPT ![node] = new]
               /\ prev' = [prev1 EXCEPT ![new] = node]
        /\ UNCHANGED failed

(* list_add_tail (lines 114-121): new goes right before node.              *)
list_add_tail ==
    \E node, new \in Nodes :
        /\ new # node /\ ListEmpty(new)
        /\ LET prev1 == [prev EXCEPT ![new] = prev[node]]
               next1 == [next EXCEPT ![prev1[new]] = new]
           IN  /\ prev' = [prev1 EXCEPT ![node] = new]
               /\ next' = [next1 EXCEPT ![new] = node]
        /\ UNCHANGED failed

(* list_del (lines 173-191): the neighbours are joined and node is left    *)
(* linked to itself, after the assertions that they point back at it.    *)
DelAsserts(n) == next[prev[n]] = n /\ prev[next[n]] = n

list_del ==
    \E node \in Nodes :
        LET prevn == prev[node]
            nextn == next[node]
            next1 == [next EXCEPT ![prevn] = next[node]]
            prev1 == [prev EXCEPT ![nextn] = prev[node]]
        IN  /\ next' = [next1 EXCEPT ![node] = node]
            /\ prev' = [prev1 EXCEPT ![node] = node]
            /\ failed' = (failed \/ ~DelAsserts(node))

Next == list_empty \/ list_add \/ list_add_tail \/ list_del

Spec == Init /\ [][Next]_vars

-----------------------------------------------------------------------------
TypeOK ==
    /\ next \in [Nodes -> Nodes]
    /\ prev \in [Nodes -> Nodes]
    /\ failed \in BOOLEAN

(* prev undoes next everywhere: what list_empty and list_del assert of the *)
(* node they are given, and what makes every node lie on one ring.         *)
Linked == \A n \in Nodes : prev[next[n]] = n /\ next[prev[n]] = n

(* No sequence of list_add, list_add_tail and list_del calls that keeps    *)
(* to the header's contract makes an assertion of list_empty or list_del *)
(* fail.                                                                   *)
NoAssertFails == ~failed

================================================================================
