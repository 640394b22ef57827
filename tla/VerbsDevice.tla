---------------------------- MODULE VerbsDevice -----------------------------
(***************************************************************************)
(* The constructor of Device (src/verbs/device.cc): which adapter, port    *)
(* and GID of a machine a process uses.                                    *)
(*                                                                         *)
(* A machine is the list ibv_get_device_list returns.  An adapter has a    *)
(* name and a sequence of ports; a port has a state, a link layer, an MTU, *)
(* a LID and the table of its GIDs, a function on a sparse set of indices  *)
(* below 256 whose entries are a type and a value.                         *)
(***************************************************************************)
EXTENDS Integers, Sequences

None == -1
first(S) == IF S = {} THEN None ELSE CHOOSE i \in S : \A j \in S : i <= j

target(list, dev_name) ==
  IF dev_name = "" THEN IF list = <<>> THEN None ELSE 1
  ELSE first({i \in 1 .. Len(list) : list[i].name = dev_name})

find_active_port(adapter) ==
  first({n \in 1 .. Len(adapter.ports) : adapter.ports[n].state = "ACTIVE"})

(* Bug: the first entry of the table is taken for RoCE v2.                 *)
find_roce_v2_gid_index_First(port) == first(DOMAIN port.gids)

find_roce_v2_gid_index(port) ==
  first({i \in DOMAIN port.gids : port.gids[i].type = "RoCE v2"})

is_infiniband(port) == port.link_layer = "InfiniBand"

(* What a Device knows once it is constructed; without one the constructor *)
(* has thrown.                                                             *)
NoDevice == [adapter |-> None]

open_device(list, dev_name) ==
  LET t == target(list, dev_name)
      n == find_active_port(list[t])
      port == list[t].ports[n]
      i == IF is_infiniband(port) THEN None ELSE find_roce_v2_gid_index(port)
  IN  IF t = None \/ n = None \/ (~is_infiniband(port) /\ i = None) THEN NoDevice
      ELSE [adapter |-> t, is_infiniband |-> is_infiniband(port), port_num |-> n,
            active_mtu |-> port.active_mtu, lid |-> port.lid, gid_index |-> i,
            gid |-> IF i = None THEN 0 ELSE port.gids[i].gid]
=============================================================================
