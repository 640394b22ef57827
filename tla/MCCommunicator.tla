--------------------------- MODULE MCCommunicator ---------------------------
(***************************************************************************)
(* Communicator for TLC: an InfiniBand and a RoCE cluster whose ports      *)
(* differ in number, MTU and tables of GIDs, one machine that all ranks    *)
(* share, clusters in which one rank has no usable device, and two draws   *)
(* of the sequence numbers: all equal, so that packets could stray, and    *)
(* all different, with bytes on the wire that matter.                      *)
(***************************************************************************)
EXTENDS CommunicatorInv, FiniteSets

(* A GID is in the table of its port twice, first as RoCE v1.              *)
Gids(r) ==
  [i \in {0, 1 + r, 2 + r} |->
     [type |-> IF i = 2 + r THEN "RoCE v2" ELSE "IB/RoCE v1",
      gid |-> IF i = 0 THEN 90 + r ELSE 7 + r]]

ActivePort(ib, r) ==
  [state |-> "ACTIVE", link_layer |-> IF ib THEN "InfiniBand" ELSE "Ethernet",
   active_mtu |-> 3 + (r % 2), lid |-> IF ib THEN 300 + r ELSE 0,
   gids |-> IF ib THEN <<>> ELSE Gids(r)]

Down(port) == [port EXCEPT !.state = "DOWN"]

(* Odd ranks have a port that is down before the active one.               *)
Machine(ib, r) ==
  LET port == ActivePort(ib, r)
  IN  <<[name |-> "rxe0", ports |-> IF r % 2 = 0 THEN <<port>> ELSE <<Down(port), port>>]>>

Cluster(ib) == [r \in Proc |-> Machine(ib, r)]
OneHost == [r \in Proc |-> Machine(FALSE, 1)]

(* Numbers start from 1 on every adapter, so that those of two machines    *)
(* coincide; ranks on one host take theirs one after the other.            *)
MCQpNumber(c, r, p) ==
  (IF p < r THEN p + 1 ELSE p) + (P - 1) * Cardinality({q \in 0 .. r - 1 : c[q] = c[r]})

(* Rank q has no adapter, no active port, or no GID of the right type.     *)
Unusable(q) ==
  LET port == ActivePort(FALSE, q)
      with(p) == <<[name |-> "rxe0", ports |-> <<p>>]>>
  IN  {<<>>, with(Down(port)), with([port EXCEPT !.gids = [i \in {0} |-> @[0]]])}

MCClusters ==
  {OneHost} \cup {Cluster(ib) : ib \in BOOLEAN} \cup
  UNION {{[Cluster(FALSE) EXCEPT ![q] = m] : m \in Unusable(q)} : q \in {0, 1}}

(* The second adapter of rank 1 has the active port.                       *)
TwoAdapters ==
  {[Cluster(FALSE) EXCEPT ![1] = <<[name |-> "rxe0", ports |-> <<Down(@[1].ports[1])>>],
                                   [name |-> "rxe1", ports |-> @[1].ports]>>]}

AllEqual == [r \in Proc |-> [p \in Proc |-> 5]]
AllDifferent == [r \in Proc |-> [p \in Proc |-> 2 ^ 24 - 1 - 257 * ((P * r + p + 8) % 9)]]

TwoDraws == {AllEqual, AllDifferent}
=============================================================================
