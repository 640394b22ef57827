----------------------------- MODULE Allreduce ------------------------------
(***************************************************************************)
(* What an allreduce promises its callers (include/micro_ccl/collectives/  *)
(* allreduce_ring.hpp and allreduce_recursive_doubling.hpp): a rank leaves *)
(* its k-th call with the reduction of everybody's k-th contribution, and  *)
(* so not before everybody has entered that call; entering the next call   *)
(* gives the buffer back.  An allreduce of no elements synchronises        *)
(* nothing.                                                                *)
(***************************************************************************)
EXTENDS Naturals

CONSTANTS
  Rank,               \* the ranks
  MaxRounds,          \* calls each of them makes
  Reduction(_, _, _)  \* Reduction(n, k, e): of element e of n in round k

VARIABLES
  count,    \* elements reduced in every call
  entered,  \* entered[r]: calls rank r has made
  left,     \* left[r]: calls that have returned
  result    \* result[r]: the data rank r was handed and still owns

vars == <<count, entered, left, result>>

Init ==
  /\ count \in Nat
  /\ entered = [r \in Rank |-> 0]
  /\ left = [r \in Rank |-> 0]
  /\ result = [r \in Rank |-> <<>>]

Reduced(k) == [e \in 0 .. count - 1 |-> Reduction(count, k, e)]

Enter(r) ==
  /\ left[r] = entered[r] /\ entered[r] < MaxRounds
  /\ entered' = [entered EXCEPT ![r] = @ + 1]
  /\ result' = [result EXCEPT ![r] = <<>>]
  /\ UNCHANGED <<count, left>>

Leave(r) ==
  /\ left[r] < entered[r]
  /\ count > 0 => \A s \in Rank : entered[s] >= entered[r]
  /\ left' = [left EXCEPT ![r] = entered[r]]
  /\ result' = [result EXCEPT ![r] = Reduced(entered[r])]
  /\ UNCHANGED <<count, entered>>

Next == \E r \in Rank : Enter(r) \/ Leave(r)

(* Whatever the ranks pass, and when they all pass the same: everyone that *)
(* has entered is let out again.                                           *)
Safe == Init /\ [][Next]_vars

Fairness == \A r \in Rank : WF_vars(Leave(r)) /\ WF_vars(Enter(r))

Spec == Safe /\ Fairness
=============================================================================
