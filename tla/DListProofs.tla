------------------------------ MODULE DListProofs ------------------------------
(***************************************************************************)
(* Proofs about the list.h model, for every set of nodes: the pointer      *)
(* writes of list_add, list_add_tail and list_del keep prev the inverse of *)
(* next, so the assertions of list_empty and list_del never fail.          *)
(***************************************************************************)
EXTENDS DList, TLAPS

(* Linked, for any pair of pointer functions.                              *)
LinkedOf(nx, pv) == \A n \in Nodes : pv[nx[n]] = n /\ nx[pv[n]] = n

IInv == TypeOK /\ Linked /\ ~failed

-----------------------------------------------------------------------------
(* list_add's four writes keep the pointers inverse when new is on no      *)
(* list and is not node.                                                   *)
LEMMA AddKeepsLinked ==
    ASSUME NEW nx \in [Nodes -> Nodes], NEW pv \in [Nodes -> Nodes],
           LinkedOf(nx, pv),
           NEW node \in Nodes, NEW new \in Nodes, new # node, nx[new] = new
    PROVE  LET next1 == [nx EXCEPT ![new] = nx[node]]
               prev1 == [pv EXCEPT ![next1[new]] = new]
               next2 == [next1 EXCEPT ![node] = new]
               prev2 == [prev1 EXCEPT ![new] = node]
           IN  /\ next2 \in [Nodes -> Nodes] /\ prev2 \in [Nodes -> Nodes]
               /\ LinkedOf(next2, prev2)
<1>1. pv[new] = new
  BY DEF LinkedOf
<1> DEFINE a == nx[node]
<1>2. a \in Nodes /\ pv[a] = node /\ a # new
  BY <1>1 DEF LinkedOf
<1>. QED BY <1>1, <1>2 DEF LinkedOf

(* list_del's four writes, for any node.                                   *)
LEMMA DelKeepsLinked ==
    ASSUME NEW nx \in [Nodes -> Nodes], NEW pv \in [Nodes -> Nodes],
           LinkedOf(nx, pv), NEW node \in Nodes
    PROVE  LET prevn == pv[node]
               nextn == nx[node]
               next1 == [nx EXCEPT ![prevn] = nx[node]]
               prev1 == [pv EXCEPT ![nextn] = pv[node]]
               next2 == [next1 EXCEPT ![node] = node]
               prev2 == [prev1 EXCEPT ![node] = node]
           IN  /\ next2 \in [Nodes -> Nodes] /\ prev2 \in [Nodes -> Nodes]
               /\ LinkedOf(next2, prev2)
BY DEF LinkedOf

-----------------------------------------------------------------------------
LEMMA InitIInv == Init => IInv
BY DEF Init, IInv, TypeOK, Linked

LEMMA NextIInv == IInv /\ [Next]_vars => IInv'
<1> SUFFICES ASSUME IInv, [Next]_vars PROVE IInv'
  OBVIOUS
<1>1. /\ next \in [Nodes -> Nodes] /\ prev \in [Nodes -> Nodes]
      /\ LinkedOf(next, prev) /\ ~failed
  BY DEF IInv, TypeOK, Linked, LinkedOf
<1>2. CASE list_empty
  <2>1. PICK n \in Nodes : failed' = (failed \/ ~EmptyAsserts(n))
    BY <1>2 DEF list_empty
  <2>2. EmptyAsserts(n)
    BY <1>1 DEF LinkedOf, EmptyAsserts
  <2>. QED BY <1>1, <1>2, <2>1, <2>2 DEF list_empty, IInv, TypeOK, Linked, LinkedOf
<1>3. CASE list_add
  <2>1. PICK node \in Nodes, new \in Nodes :
          /\ new # node /\ ListEmpty(new)
          /\ LET next1 == [next EXCEPT ![new] = next[node]]
                 prev1 == [prev EXCEPT ![next1[new]] = new]
             IN  /\ next' = [next1 EXCEPT ![node] = new]
                 /\ prev' = [prev1 EXCEPT ![new] = node]
          /\ UNCHANGED failed
    BY <1>3 DEF list_add
  <2>2. /\ next' \in [Nodes -> Nodes] /\ prev' \in [Nodes -> Nodes]
        /\ LinkedOf(next', prev')
    BY <1>1, <2>1, AddKeepsLinked DEF ListEmpty
  <2>. QED BY <1>1, <2>1, <2>2 DEF IInv, TypeOK, Linked, LinkedOf
<1>4. CASE list_add_tail
  <2>1. PICK node \in Nodes, new \in Nodes :
          /\ new # node /\ ListEmpty(new)
          /\ LET prev1 == [prev EXCEPT ![new] = prev[node]]
                 next1 == [next EXCEPT ![prev1[new]] = new]
             IN  /\ prev' = [prev1 EXCEPT ![node] = new]
                 /\ next' = [next1 EXCEPT ![new] = node]
          /\ UNCHANGED failed
    BY <1>4 DEF list_add_tail
  <2>2. /\ next' \in [Nodes -> Nodes] /\ prev' \in [Nodes -> Nodes]
        /\ LinkedOf(next', prev')
    <3>1. next[new] = new /\ prev[new] = new
      BY <1>1, <2>1 DEF ListEmpty, LinkedOf
    <3>2. prev[node] \in Nodes /\ next[prev[node]] = node /\ prev[node] # new
      BY <1>1, <2>1, <3>1 DEF LinkedOf
    <3>. QED BY <1>1, <2>1, <3>1, <3>2 DEF LinkedOf
  <2>. QED BY <1>1, <2>1, <2>2 DEF IInv, TypeOK, Linked, LinkedOf
<1>5. CASE list_del
  <2>1. PICK node \in Nodes :
          LET prevn == prev[node]
              nextn == next[node]
              next1 == [next EXCEPT ![prevn] = next[node]]
              prev1 == [prev EXCEPT ![nextn] = prev[node]]
          IN  /\ next' = [next1 EXCEPT ![node] = node]
              /\ prev' = [prev1 EXCEPT ![node] = node]
              /\ failed' = (failed \/ ~DelAsserts(node))
    BY <1>5 DEF list_del
  <2>2. DelAsserts(node)
    BY <1>1 DEF LinkedOf, DelAsserts
  <2>3. /\ next' \in [Nodes -> Nodes] /\ prev' \in [Nodes -> Nodes]
        /\ LinkedOf(next', prev')
    BY <1>1, <2>1, DelKeepsLinked
  <2>. QED BY <1>1, <2>1, <2>2, <2>3 DEF IInv, TypeOK, Linked, LinkedOf
<1>6. CASE UNCHANGED vars
  BY <1>1, <1>6 DEF vars, IInv, TypeOK, Linked, LinkedOf
<1>. QED BY <1>2, <1>3, <1>4, <1>5, <1>6 DEF Next

LEMMA IInvInvariant == Spec => []IInv
BY InitIInv, NextIInv, PTL DEF Spec

-----------------------------------------------------------------------------
(* Whatever a caller keeping to the contract does with list_add,          *)
(* list_add_tail and list_del, prev stays the inverse of next: every node *)
(* lies on exactly one ring, walked the same way in both directions.       *)
THEOREM LinkedHolds == Spec => []Linked
BY IInvInvariant, PTL DEF IInv

(* The assertions of list_empty (lines 91 and 95) and list_del (lines     *)
(* 181-184) never fail, for any number of nodes.                           *)
THEOREM NoAssertFailsHolds == Spec => []NoAssertFails
BY IInvInvariant, PTL DEF IInv, NoAssertFails

================================================================================
