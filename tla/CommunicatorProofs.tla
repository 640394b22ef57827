------------------------- MODULE CommunicatorProofs -------------------------
(***************************************************************************)
(* What the construction of a Communicator achieves, for every number of   *)
(* ranks, every fabric and every draw of the sequence numbers: CommInv is  *)
(* inductive, and the properties of Communicator follow from it.           *)
(***************************************************************************)
EXTENDS CommunicatorInv, SequenceTheorems, WellFoundedInduction, TLAPS

-----------------------------------------------------------------------------
(* The wire format.                                                        *)

(***************************************************************************)
(* The integer types of an endpoint info, as bounds.                       *)
(***************************************************************************)
LEMMA Widths ==
  /\ \A v : v \in uint8_t <=> v \in Int /\ 0 <= v /\ v < 256
  /\ \A v : v \in uint16_t <=> v \in Int /\ 0 <= v /\ v < 256 * 256
  /\ \A v : v \in Psn <=> v \in Int /\ 0 <= v /\ v < 256 * 256 * 256
<1>1. ASSUME NEW k \in Int, NEW v
      PROVE  v \in 0 .. k - 1 <=> v \in Int /\ 0 <= v /\ v < k
  OBVIOUS
<1>2. 256 \in Int /\ 256 - 1 = 255 /\ 256 * 256 \in Int /\ 256 * 256 * 256 \in Int
  OBVIOUS
<1>3. \A v : v \in uint8_t <=> v \in Int /\ 0 <= v /\ v < 256
  <2> DEFINE k == 256
  <2>1. uint8_t = 0 .. k - 1 /\ k \in Int
    <3>1. uint8_t = 0 .. 255
      BY Zenon DEF uint8_t
    <3> QED BY <1>2, <3>1, Zenon
  <2> HIDE DEF k
  <2>2. \A v : v \in uint8_t <=> v \in Int /\ 0 <= v /\ v < k
    BY <1>1, <2>1
  <2> QED BY <2>2, Zenon DEF k
<1>4. \A v : v \in uint16_t <=> v \in Int /\ 0 <= v /\ v < 256 * 256
  <2> DEFINE k == 256 * 256
  <2>1. uint16_t = 0 .. k - 1 /\ k \in Int
    BY <1>2, Zenon DEF uint16_t
  <2> HIDE DEF k
  <2>2. \A v : v \in uint16_t <=> v \in Int /\ 0 <= v /\ v < k
    BY <1>1, <2>1
  <2> QED BY <2>2, Zenon DEF k
<1>5. \A v : v \in Psn <=> v \in Int /\ 0 <= v /\ v < 256 * 256 * 256
  <2> DEFINE k == 256 * 256 * 256
  <2>1. Psn = 0 .. k - 1 /\ k \in Int
    BY <1>2, Zenon DEF Psn
  <2> HIDE DEF k
  <2>2. \A v : v \in Psn <=> v \in Int /\ 0 <= v /\ v < k
    BY <1>1, <2>1
  <2> QED BY <2>2, Zenon DEF k
<1> QED
  BY <1>3, <1>4, <1>5, Zenon

(***************************************************************************)
(* Dividing by 256 splits off the lowest byte.                             *)
(***************************************************************************)
LEMMA Byte ==
  ASSUME NEW v \in Nat
  PROVE  /\ v \div 256 \in Nat /\ v % 256 \in Nat /\ v % 256 < 256
         /\ (v \div 256) * 256 + (v % 256) = v
OBVIOUS

(***************************************************************************)
(* A byte is its own lowest byte.                                          *)
(***************************************************************************)
LEMMA OneByte ==
  ASSUME NEW v \in Nat, v < 256
  PROVE  v % 256 = v /\ v \div 256 = 0
OBVIOUS

(***************************************************************************)
(* A shift by two bytes is two shifts by one.                              *)
(***************************************************************************)
LEMMA ShiftTwice ==
  ASSUME NEW v \in Nat
  PROVE  v \div (256 * 256) = (v \div 256) \div 256
OBVIOUS

(***************************************************************************)
(* get_u16 reads what put_u16 has written.                                 *)
(***************************************************************************)
LEMMA TwoBytes ==
  ASSUME NEW v \in uint16_t
  PROVE  ((v \div 256) % 256) * 256 + (v % 256) = v
<1> DEFINE q == v \div 256
           m == v % 256
<1>1. v \in Nat /\ v < 256 * 256
  BY Widths
<1>2. q \in Nat /\ m \in Nat /\ m < 256 /\ q * 256 + m = v
  BY <1>1, Byte
<1> HIDE DEF q, m
<1>3. q < 256
  BY <1>1, <1>2
<1>4. q % 256 = q
  BY <1>2, <1>3, OneByte
<1>5. (q % 256) * 256 + m = v
  BY <1>2, <1>4
<1> QED
  BY <1>5 DEF q, m

(***************************************************************************)
(* get_u32 reads what put_u32 has written, for the 24-bit values that are  *)
(* sent.                                                                   *)
(***************************************************************************)
LEMMA FourBytes ==
  ASSUME NEW v \in Psn
  PROVE  ((((v \div (256 * 256)) \div 256) % 256) * 256 + ((v \div (256 * 256)) % 256))
           * (256 * 256) + (((v \div 256) % 256) * 256 + (v % 256)) = v
<1>1. v \in Nat /\ v < 256 * 256 * 256
  BY Widths
<1> DEFINE q == v \div 256
           m == v % 256
           h == q \div 256
           n == q % 256
           u == v \div (256 * 256)
<1>2. q \in Nat /\ m \in Nat /\ m < 256 /\ q * 256 + m = v
  BY <1>1, Byte
<1>3. u = h
  BY <1>1, ShiftTwice
<1> SUFFICES (((u \div 256) % 256) * 256 + (u % 256)) * (256 * 256) + (n * 256 + m) = v
  OBVIOUS
<1> HIDE DEF u
<1> HIDE DEF q, m
<1>5. h \in Nat /\ n \in Nat /\ n < 256 /\ h * 256 + n = q
  BY <1>2, Byte
<1> HIDE DEF h, n
<1>6. h < 256
  BY <1>1, <1>2, <1>5
<1>7. h % 256 = h /\ (h \div 256) % 256 = 0
  BY <1>5, <1>6, OneByte
<1> QED
  BY <1>2, <1>3, <1>5, <1>6, <1>7

(***************************************************************************)
(* decode_endpoint_info gives back what encode_endpoint_info was given.    *)
(***************************************************************************)
LEMMA DecodeEncode ==
  ASSUME NEW x, NEW qpn \in Psn, NEW psn \in Psn,
         NEW lid \in uint16_t, NEW mtu \in uint8_t,
         x.qp_num = qpn, x.psn = psn, x.lid = lid, x.mtu = mtu
  PROVE  LET y == decode_endpoint_info(encode_endpoint_info(x))
         IN  y.qp_num = qpn /\ y.psn = psn /\ y.lid = lid /\ y.mtu = mtu /\ y.gid = x.gid
<1> DEFINE in == encode_endpoint_info(x)
           hi(v) == ((v \div (256 * 256)) \div 256) % 256
           mh(v) == (v \div (256 * 256)) % 256
           ml(v) == (v \div 256) % 256
           lo(v) == v % 256
<1>2. /\ in[5] = hi(qpn) /\ in[6] = mh(qpn) /\ in[7] = ml(qpn) /\ in[8] = lo(qpn)
      /\ in[9] = hi(psn) /\ in[10] = mh(psn) /\ in[11] = ml(psn) /\ in[12] = lo(psn)
      /\ in[13] = ml(lid) /\ in[14] = lo(lid) /\ in[16] = lo(mtu) /\ in[18] = x.gid
  <2>1. in[5] = hi(qpn)
    BY DEF encode_endpoint_info, put_u8, put_u16, put_u32
  <2>2. in[6] = mh(qpn)
    BY DEF encode_endpoint_info, put_u8, put_u16, put_u32
  <2>3. in[7] = ml(qpn)
    BY DEF encode_endpoint_info, put_u8, put_u16, put_u32
  <2>4. in[8] = lo(qpn)
    BY DEF encode_endpoint_info, put_u8, put_u16, put_u32
  <2>5. in[9] = hi(psn)
    BY DEF encode_endpoint_info, put_u8, put_u16, put_u32
  <2>6. in[10] = mh(psn)
    BY DEF encode_endpoint_info, put_u8, put_u16, put_u32
  <2>7. in[11] = ml(psn)
    BY DEF encode_endpoint_info, put_u8, put_u16, put_u32
  <2>8. in[12] = lo(psn)
    BY DEF encode_endpoint_info, put_u8, put_u16, put_u32
  <2>9. in[13] = ml(lid)
    BY DEF encode_endpoint_info, put_u8, put_u16, put_u32
  <2>10. in[14] = lo(lid)
    BY DEF encode_endpoint_info, put_u8, put_u16, put_u32
  <2>11. in[16] = lo(mtu)
    BY DEF encode_endpoint_info, put_u8, put_u16, put_u32
  <2>12. in[18] = x.gid
    BY DEF encode_endpoint_info, put_u8, put_u16, put_u32
  <2> QED
    BY <2>1, <2>2, <2>3, <2>4, <2>5, <2>6, <2>7, <2>8, <2>9, <2>10, <2>11, <2>12
<1> HIDE DEF in
<1>3. get_u32(in, 5) = qpn
  <2>1. get_u32(in, 5) = (in[5] * 256 + in[6]) * (256 * 256) + (in[7] * 256 + in[8])
    BY DEF get_u32, get_u16
  <2>2. (hi(qpn) * 256 + mh(qpn)) * (256 * 256) + (ml(qpn) * 256 + lo(qpn)) = qpn
    BY FourBytes
  <2> HIDE DEF hi, mh, ml, lo
  <2> QED BY <1>2, <2>1, <2>2
<1>4. get_u32(in, 9) = psn
  <2>1. get_u32(in, 9) = (in[9] * 256 + in[10]) * (256 * 256) + (in[11] * 256 + in[12])
    BY DEF get_u32, get_u16
  <2>2. (hi(psn) * 256 + mh(psn)) * (256 * 256) + (ml(psn) * 256 + lo(psn)) = psn
    BY FourBytes
  <2> HIDE DEF hi, mh, ml, lo
  <2> QED BY <1>2, <2>1, <2>2
<1>5. get_u16(in, 13) = lid
  <2>1. get_u16(in, 13) = in[13] * 256 + in[14]
    BY DEF get_u16
  <2>2. ml(lid) * 256 + lo(lid) = lid
    BY TwoBytes
  <2> HIDE DEF hi, mh, ml, lo
  <2> QED BY <1>2, <2>1, <2>2
<1>6. in[16] = mtu
  <2>1. mtu \in Nat /\ mtu < 256
    BY Widths
  <2> QED BY <1>2, <2>1, OneByte
<1> QED
  BY <1>2, <1>3, <1>4, <1>5, <1>6 DEF decode_endpoint_info, get_u8, in

-----------------------------------------------------------------------------
(* The devices.                                                            *)

(***************************************************************************)
(* A set of indices has a lowest one.                                      *)
(***************************************************************************)
LEMMA Least ==
  ASSUME NEW S, S \subseteq Nat, S # {}
  PROVE  \E x \in S : \A y \in S : x <= y
<1> DEFINE R == {ss \in Nat \X Nat : ss[1] < ss[2]}
<1>1. R = OpToRel(<, Nat)
  BY Zenon DEF OpToRel
<1>2. IsWellFoundedOn(R, Nat)
  BY <1>1, NatLessThanWellFounded, Zenon
<1> HIDE DEF R
<1>3. PICK x \in S : \A y \in S : ~(<<y, x>> \in R)
  BY <1>2, WFMin, Zenon
<1>4. ASSUME NEW y \in S PROVE x <= y
  <2>1. ~(<<y, x>> \in R) /\ x \in Nat /\ y \in Nat
    BY <1>3, <1>4
  <2>2. <<y, x>> \in Nat \X Nat /\ <<y, x>>[1] = y /\ <<y, x>>[2] = x
    BY <2>1
  <2>3. ~(y < x)
    BY <2>1, <2>2 DEF R
  <2> QED BY <2>1, <2>3
<1> QED
  BY <1>4

(***************************************************************************)
(* The searches of device.cc find an index if there is one.                *)
(***************************************************************************)
LEMMA FirstIndex ==
  ASSUME NEW S, S \subseteq Nat
  PROVE  IF S = {} THEN first(S) = None ELSE first(S) \in S
BY Least DEF first

(***************************************************************************)
(* A machine has sequences of adapters and ports, and what its ports       *)
(* report is well formed.                                                  *)
(***************************************************************************)
LEMMA Fabric ==
  ASSUME NEW c \in Clusters, NEW r \in Proc
  PROVE  /\ List(c[r])
         /\ \A i \in 1 .. Len(c[r]) : List(c[r][i].ports)
         /\ \A x \in ports(c, r) : WellFormed(x)
BY FabricAssumption, Zenon

(***************************************************************************)
(* Lists have lengths.                                                     *)
(***************************************************************************)
LEMMA ListLength ==
  ASSUME NEW s, List(s)
  PROVE  Len(s) \in Nat /\ (s # <<>> => 1 \in 1 .. Len(s))
<1> DEFINE S == {s[k] : k \in DOMAIN s}
<1>1. s \in Seq(S)
  BY DEF List
<1> HIDE DEF S
<1>2. Len(s) \in Nat
  BY <1>1
<1>3. ASSUME Len(s) = 0 PROVE s = <<>>
  BY <1>1, <1>3
<1> QED BY <1>2, <1>3

(***************************************************************************)
(* find_active_port finds an active port, if it finds one.                 *)
(***************************************************************************)
LEMMA FindActivePort ==
  ASSUME NEW a, List(a.ports), find_active_port(a) # None
  PROVE  /\ find_active_port(a) \in 1 .. Len(a.ports)
         /\ a.ports[find_active_port(a)].state = "ACTIVE"
<1> DEFINE m == Len(a.ports)
           active(k) == a.ports[k].state = "ACTIVE"
           here == {k \in 1 .. m : active(k)}
<1>1. m \in Nat
  BY ListLength
<1>2. find_active_port(a) = first(here)
  BY Zenon DEF find_active_port
<1> HIDE DEF m, active
<1>3. here \subseteq Nat
  BY <1>1
<1> HIDE DEF here
<1>4. find_active_port(a) \in here
  BY <1>2, <1>3, FirstIndex
<1> QED
  BY <1>4, Zenon DEF here, m, active

(***************************************************************************)
(* find_roce_v2_gid_index finds a RoCE v2 entry, if it finds one.          *)
(***************************************************************************)
LEMMA FindGid ==
  ASSUME NEW x, WellFormed(x), find_roce_v2_gid_index(x) # None
  PROVE  /\ find_roce_v2_gid_index(x) \in DOMAIN x.gids
         /\ x.gids[find_roce_v2_gid_index(x)].type = "RoCE v2"
<1> DEFINE D == DOMAIN x.gids
           v2 == {k \in D : x.gids[k].type = "RoCE v2"}
<1>1. D \subseteq uint8_t
  BY Zenon DEF WellFormed
<1>2. find_roce_v2_gid_index(x) = first(v2)
  BY Zenon DEF find_roce_v2_gid_index
<1> HIDE DEF D
<1>0. D \subseteq Nat
  BY <1>1, Widths
<1>3. v2 \subseteq Nat
  BY <1>0, Zenon
<1>4. find_roce_v2_gid_index(x) \in v2
  <2> HIDE DEF v2
  <2> QED BY <1>2, <1>3, FirstIndex
<1> QED
  BY <1>4, Zenon DEF D

(* The port a device is on.                                                *)
PortOf(c, r, d) == c[r][d.adapter].ports[d.port_num]

(* It is an active port of the machine, and on Ethernet the GID of the     *)
(* device is a RoCE v2 entry of its table.                                 *)
OnPort(c, r, d) ==
  LET port == PortOf(c, r, d)
  IN  /\ port \in ports(c, r) /\ port.state = "ACTIVE"
      /\ d.is_infiniband = is_infiniband(port)
      /\ d.active_mtu = port.active_mtu /\ d.lid = port.lid
      /\ ~d.is_infiniband =>
           /\ d.gid_index \in DOMAIN port.gids
           /\ port.gids[d.gid_index].type = "RoCE v2"
           /\ d.gid = port.gids[d.gid_index].gid

(***************************************************************************)
(* A Device that was opened knows the port it is on.                       *)
(***************************************************************************)
LEMMA Opened ==
  ASSUME NEW c \in Clusters, NEW r \in Proc, NEW d, d = open_device(c[r], ""), d # NoDevice
  PROVE  OnPort(c, r, d)
<1> DEFINE list == c[r]
           t == target(list, "")
           n == find_active_port(list[t])
           port == list[t].ports[n]
           i == IF is_infiniband(port) THEN None ELSE find_roce_v2_gid_index(port)
<1>1. /\ t # None /\ n # None /\ (is_infiniband(port) \/ i # None)
      /\ d = [adapter |-> t, is_infiniband |-> is_infiniband(port), port_num |-> n,
              active_mtu |-> port.active_mtu, lid |-> port.lid, gid_index |-> i,
              gid |-> IF i = None THEN 0 ELSE port.gids[i].gid]
  BY Zenon DEF open_device
<1>2. t = 1 /\ list # <<>>
  BY <1>1, Zenon DEF target
<1>3. List(list) /\ \A k \in 1 .. Len(list) : List(list[k].ports)
  BY Fabric, Zenon
<1>5. 1 \in 1 .. Len(list)
  BY <1>2, <1>3, ListLength, Zenon
<1>6. n \in 1 .. Len(list[t].ports) /\ port.state = "ACTIVE"
  <2>1. List(list[t].ports)
    BY <1>2, <1>3, <1>5, Zenon
  <2> QED BY <1>1, <2>1, FindActivePort, Zenon
<1>7. port \in ports(c, r)
  <2>1. list[1].ports[n] \in {list[1].ports[k] : k \in 1 .. Len(list[1].ports)}
    BY <1>2, <1>6, Zenon
  <2>2. list[1].ports[n] \in ports(c, r)
    BY <1>5, <2>1, Zenon DEF ports
  <2> QED BY <1>2, <2>2, Zenon
<1> HIDE DEF port, n, t
<1>8. WellFormed(port)
  BY <1>7, Fabric, Zenon
<1>9. ASSUME ~is_infiniband(port)
      PROVE  i # None /\ i \in DOMAIN port.gids /\ port.gids[i].type = "RoCE v2"
  BY <1>1, <1>8, <1>9, FindGid
<1> DEFINE b == is_infiniband(port)
           m == port.active_mtu
           l == port.lid
           g == IF i = None THEN 0 ELSE port.gids[i].gid
           rec == [adapter |-> t, is_infiniband |-> b, port_num |-> n, active_mtu |-> m,
                   lid |-> l, gid_index |-> i, gid |-> g]
<1>0. d = rec
  BY <1>1, Zenon
<1> HIDE DEF i, list, b, m, l, g
<1>b. /\ rec.adapter = t /\ rec.is_infiniband = b /\ rec.port_num = n /\ rec.active_mtu = m
      /\ rec.lid = l /\ rec.gid_index = i /\ rec.gid = g
  OBVIOUS
<1> HIDE DEF rec
<1>a. /\ d.adapter = t /\ d.is_infiniband = b /\ d.port_num = n /\ d.active_mtu = m
      /\ d.lid = l /\ d.gid_index = i /\ d.gid = g
  BY <1>0, <1>b, Zenon
<1>10. PortOf(c, r, d) = port
  BY <1>a, Zenon DEF port, list, PortOf
<1>11. /\ d.is_infiniband = is_infiniband(port) /\ d.active_mtu = port.active_mtu
       /\ d.lid = port.lid /\ d.gid_index = i
       /\ d.gid = IF i = None THEN 0 ELSE port.gids[i].gid
  BY <1>a, Zenon DEF b, m, l, g
<1>13. ASSUME ~d.is_infiniband
       PROVE  /\ d.gid_index \in DOMAIN port.gids /\ port.gids[d.gid_index].type = "RoCE v2"
              /\ d.gid = port.gids[d.gid_index].gid
  BY <1>9, <1>11, <1>13, Zenon
<1> QED
  BY <1>6, <1>7, <1>10, <1>11, <1>13, Zenon DEF OnPort

(***************************************************************************)
(* The MTU and the LID of a device fit their fields on the wire.           *)
(***************************************************************************)
LEMMA DeviceRanges ==
  ASSUME NEW c \in Clusters, NEW r \in Proc, NEW d, d = open_device(c[r], ""), d # NoDevice
  PROVE  /\ d.active_mtu \in 1 .. 5 /\ d.lid \in uint16_t
         /\ d.is_infiniband \in BOOLEAN
<1> DEFINE port == PortOf(c, r, d)
<1>1. /\ port \in ports(c, r) /\ d.is_infiniband = is_infiniband(port)
      /\ d.active_mtu = port.active_mtu /\ d.lid = port.lid
  BY Opened DEF OnPort
<1> HIDE DEF port
<1>2. WellFormed(port)
  BY <1>1, Fabric, Zenon
<1>3. port.active_mtu \in 1 .. 5 /\ port.lid \in uint16_t
  BY <1>2 DEF WellFormed
<1>4. is_infiniband(port) \in BOOLEAN
  BY Zenon DEF is_infiniband
<1> QED
  BY <1>1, <1>3, <1>4, Zenon

(* On one fabric, with different addresses or different numbers.           *)
Apart(c, r, p, d, e) ==
  /\ d.is_infiniband = e.is_infiniband
  /\ \/ DifferentNumbers(c, r, p)
     \/ /\ d.is_infiniband => d.lid # e.lid
        /\ ~d.is_infiniband => d.gid # e.gid

(***************************************************************************)
(* Two ranks are on one fabric, and their devices have different addresses *)
(* or their queue pairs different numbers.                                 *)
(***************************************************************************)
LEMMA TwoDevices ==
  ASSUME NEW c \in Clusters, NEW r \in Proc, NEW p \in Proc, r # p,
         NEW d, d = open_device(c[r], ""), d # NoDevice,
         NEW e, e = open_device(c[p], ""), e # NoDevice
  PROVE  Apart(c, r, p, d, e)
<1> DEFINE x == PortOf(c, r, d)
           y == PortOf(c, p, e)
<1>1. /\ x \in ports(c, r) /\ d.is_infiniband = is_infiniband(x) /\ d.lid = x.lid
      /\ ~d.is_infiniband => d.gid_index \in DOMAIN x.gids /\ d.gid = x.gids[d.gid_index].gid
  <2>1. OnPort(c, r, d)
    BY Opened, Zenon
  <2> QED BY <2>1, Zenon DEF OnPort
<1>2. /\ y \in ports(c, p) /\ e.is_infiniband = is_infiniband(y) /\ e.lid = y.lid
      /\ ~e.is_infiniband => e.gid_index \in DOMAIN y.gids /\ e.gid = y.gids[e.gid_index].gid
  <2>1. OnPort(c, p, e)
    BY Opened, Zenon
  <2> QED BY <2>1, Zenon DEF OnPort
<1> HIDE DEF x, y
<1>3. PICK link \in {"InfiniBand", "Ethernet"} : \A q \in Proc :
        /\ List(c[q])
        /\ \A i \in 1 .. Len(c[q]) : List(c[q][i].ports) /\ Len(c[q][i].ports) \in uint8_t
        /\ \A v \in ports(c, q) : WellFormed(v) /\ v.link_layer = link
        /\ \A s \in Peers(q) : DifferentAddresses(c, link, q, s) \/ DifferentNumbers(c, q, s)
  BY FabricAssumption
<1>4. p \in Peers(r)
  BY Zenon DEF Peers
<1>5. x.link_layer = link /\ y.link_layer = link
  BY <1>1, <1>2, <1>3, Zenon
<1>6. \/ DifferentNumbers(c, r, p)
      \/ IF link = "InfiniBand" THEN x.lid # y.lid
         ELSE \A i \in DOMAIN x.gids, j \in DOMAIN y.gids : x.gids[i].gid # y.gids[j].gid
  BY <1>1, <1>2, <1>3, <1>4, Zenon DEF DifferentAddresses
<1>7. d.is_infiniband = (link = "InfiniBand") /\ e.is_infiniband = (link = "InfiniBand")
  BY <1>1, <1>2, <1>5, Zenon DEF is_infiniband
<1> QED
  BY <1>1, <1>2, <1>6, <1>7, Zenon DEF Apart

-----------------------------------------------------------------------------
(* The numbers of the queue pairs.                                         *)

(***************************************************************************)
(* The numbers fit 24 bits, and those of one rank differ.                  *)
(***************************************************************************)
LEMMA QpNumbers ==
  ASSUME host \in Clusters, NEW r \in Proc, NEW p \in Peers(r)
  PROVE  /\ qp_num(r, p) \in Psn
         /\ \A u \in Peers(r) : qp_num(r, u) = qp_num(r, p) => u = p
BY NumberAssumption DEF qp_num

(* An info whose members fit their fields on the wire.                     *)
Fits(x) ==
  /\ x.qp_num \in Psn /\ x.psn \in Psn /\ x.lid \in uint16_t /\ x.mtu \in uint8_t

(***************************************************************************)
(* What a rank reads from the bytes of another one connects its queue pair *)
(* as the original would have done.                                        *)
(***************************************************************************)
LEMMA Received ==
  ASSUME NEW x, Fits(x), NEW qp, NEW dev
  PROVE  modify_to_rtr(qp, dev, decode_endpoint_info(encode_endpoint_info(x)))
           = modify_to_rtr(qp, dev, x)
<1> DEFINE y == decode_endpoint_info(encode_endpoint_info(x))
<1>1. y.qp_num = x.qp_num /\ y.psn = x.psn /\ y.lid = x.lid /\ y.mtu = x.mtu /\ y.gid = x.gid
  BY DecodeEncode DEF Fits
<1> HIDE DEF y
<1>2. modify_to_rtr(qp, dev, y) = modify_to_rtr(qp, dev, x)
  BY <1>1, Zenon DEF modify_to_rtr
<1> QED
  BY <1>2 DEF y

-----------------------------------------------------------------------------
(* What every rank holds.                                                  *)

(***************************************************************************)
(* No LID, and any MTU, fit the wire.                                      *)
(***************************************************************************)
LEMMA SmallValues ==
  0 \in uint16_t /\ \A m \in 1 .. 5 : m \in uint8_t
BY Widths

(***************************************************************************)
(* The members of the info a rank sends.                                   *)
(***************************************************************************)
LEMMA InfoMembers ==
  ASSUME draw \in Draws, host \in Clusters, NEW p \in Proc, NEW r \in Peers(p),
         device[p] = open_device(host[p], ""), device[p] # NoDevice
  PROVE  LET x == info(p, r)
         IN  /\ Fits(x) /\ x.qp_num = qp_num(p, r) /\ x.psn = draw[p][r]
             /\ x.mtu = device[p].active_mtu /\ x.mtu \in 1 .. 5
             /\ device[p].is_infiniband => x.lid = device[p].lid
             /\ ~device[p].is_infiniband => x.gid = device[p].gid
<1> DEFINE d == device[p]
           l == IF d.is_infiniband THEN d.lid ELSE 0
           i == IF d.is_infiniband THEN 0 ELSE d.gid_index
           g == IF d.is_infiniband THEN 0 ELSE d.gid
           n == d.port_num
           m == d.active_mtu
           k == qp_num(p, r)
           s == draw[p][r]
           x == [rank |-> p, qp_num |-> k, psn |-> s, port_num |-> n, mtu |-> m,
                 lid |-> l, gid_index |-> i, gid |-> g]
<1>1. info(p, r) = x
  BY Zenon DEF info, local_info
<1>2. m \in 1 .. 5 /\ d.lid \in uint16_t
  BY DeviceRanges
<1>3. 0 \in uint16_t
  BY SmallValues, Zenon
<1>4. l \in uint16_t
  BY <1>2, <1>3, Zenon
<1>5. k \in Psn
  BY QpNumbers
<1>6. s \in Psn
  <2>1. draw \in [Proc -> [Proc -> Psn]]
    BY CommunicatorAssumption
  <2>2. r \in Proc
    BY DEF Peers
  <2> QED BY <2>1, <2>2
<1>7. (d.is_infiniband => l = d.lid) /\ (~d.is_infiniband => g = d.gid)
  BY Zenon
<1> HIDE DEF l, i, g, n, m, k, s
<1>8. /\ x.qp_num = k /\ x.psn = s /\ x.mtu = m /\ x.lid = l /\ x.gid = g
  OBVIOUS
<1> HIDE DEF x
<1>9. m \in uint8_t
  BY <1>2, SmallValues, Zenon
<1> QED
  BY <1>1, <1>2, <1>4, <1>5, <1>6, <1>7, <1>8, <1>9, Zenon DEF k, s, m, d, Fits

(***************************************************************************)
(* The info of a rank changes only when it opens its device.               *)
(***************************************************************************)
LEMMA InfoStable ==
  ASSUME NEW p \in Proc, device'[p] = device[p], draw' = draw, host' = host
  PROVE  /\ \A r \in Proc : info(p, r)' = info(p, r)
         /\ infos(p)' = infos(p)
<1>1. ASSUME NEW r \in Proc PROVE info(p, r)' = info(p, r)
  BY Zenon DEF info, local_info, qp_num
<1>2. Peers(p) \subseteq Proc
  BY DEF Peers
<1>3. infos(p)' = infos(p)
  BY <1>1, <1>2 DEF infos
<1> QED
  BY <1>1, <1>3

(***************************************************************************)
(* So does what it makes of its queue pairs.                               *)
(***************************************************************************)
LEMMA QpStable ==
  ASSUME NEW r \in Proc, NEW p \in Proc, device'[r] = device[r], device'[p] = device[p], draw' = draw,
         host' = host
  PROVE  initial(r, p)' = initial(r, p) /\ connected(r, p)' = connected(r, p)
<1>1. info(p, r)' = info(p, r)
  BY InfoStable
<1> QED
  BY <1>1, Zenon DEF initial, connected, modify_to_init, modify_to_rtr, NoQp

(***************************************************************************)
(* The connecting loop goes from p to the next peer, and returns when      *)
(* there is none.                                                          *)
(***************************************************************************)
LEMMA AdvanceGoesOn ==
  ASSUME NEW r \in Proc, NEW p \in Nat, DOMAIN pc = Proc, DOMAIN at = Proc, Advance(r, p)
  PROVE  /\ DOMAIN pc' = Proc /\ DOMAIN at' = Proc
         /\ \A q \in Proc : q # r => pc'[q] = pc[q] /\ at'[q] = at[q]
         /\ \/ pc'[r] = "ready" /\ \A q \in Peers(r) : q < p
            \/ /\ pc'[r] = "rtr" /\ at'[r] \in Peers(r) /\ p <= at'[r]
               /\ \A q \in Peers(r) : p <= q => at'[r] <= q
<1> DEFINE S == peers_from(r, p)
<1>1. S \subseteq Nat /\ \A q \in Peers(r) : q \in Nat /\ (q \in S <=> p <= q)
  BY DEF peers_from, Peers, Proc
<1>2. \A q \in S : q \in Peers(r) /\ p <= q
  BY DEF peers_from
<1> HIDE DEF S
<1>3. CASE S = {}
  <2>1. pc' = [pc EXCEPT ![r] = "ready"] /\ at' = at
    BY <1>3 DEF Advance, S
  <2>2. \A q \in Peers(r) : q < p
    BY <1>1, <1>3
  <2> QED BY <2>1, <2>2
<1>4. CASE S # {}
  <2> DEFINE x == CHOOSE q \in S : \A s \in S : q <= s
  <2>1. x \in S /\ \A s \in S : x <= s
    BY <1>1, <1>4, Least
  <2>2. pc' = [pc EXCEPT ![r] = "rtr"] /\ at' = [at EXCEPT ![r] = x]
    BY <1>4 DEF Advance, S
  <2> HIDE DEF x
  <2>3. at'[r] = x /\ pc'[r] = "rtr"
    BY <2>2
  <2>4. DOMAIN pc' = Proc /\ DOMAIN at' = Proc
    BY <2>2
  <2>5. \A q \in Proc : q # r => pc'[q] = pc[q] /\ at'[q] = at[q]
    BY <2>2
  <2>6. \A q \in Peers(r) : p <= q => x <= q
    BY <1>1, <2>1
  <2> QED BY <1>2, <2>1, <2>3, <2>4, <2>5, <2>6
<1> QED
  BY <1>3, <1>4

-----------------------------------------------------------------------------
(* CommInv holds initially.                                                *)

(***************************************************************************)
(* No rank has done anything yet.                                          *)
(***************************************************************************)
LEMMA InitInv == Init => CommInv
<1> SUFFICES ASSUME Init PROVE CommInv
  OBVIOUS
<1>1. Control
  BY Zenon DEF Init, ExchangeInit, Control, ControlOf
<1>2. Devices
  BY Zenon DEF Init, Devices, DeviceOf
<1>3. Exchanges
  <2>1. \A r \in Proc : submitted[r] = <<>> /\ left[r] = 0 /\ pc[r] = "main"
    BY Zenon DEF Init, ExchangeInit
  <2>2. Len(<<>>) = 0
    OBVIOUS
  <2> QED BY <2>1, <2>2 DEF Exchanges, SubmittedOf, GivenOf
<1>4. Qps
  BY Zenon DEF Init, Qps, QpsOf, Unmade, Untouched, HalfWay, Passed
<1>5. Messages
  BY DEF Init, NoMessage, Messages, MsgOf
<1> QED
  BY <1>1, <1>2, <1>3, <1>4, <1>5 DEF CommInv

-----------------------------------------------------------------------------
(* Every step keeps Control and Devices.                                   *)

(***************************************************************************)
(* The places a rank can be at.                                            *)
(***************************************************************************)
LEMMA ControlStep == ASSUME CommInv, [Next]_vars PROVE Control'
<1>1. /\ draw \in Draws /\ host \in Clusters /\ rank_of = [p \in Proc |-> p]
      /\ DOMAIN pc = Proc /\ DOMAIN at = Proc /\ DOMAIN device = Proc /\ DOMAIN qps_ = Proc
      /\ DOMAIN msg = Proc /\ DOMAIN submitted = Proc /\ DOMAIN left = Proc
      /\ DOMAIN result = Proc /\ \A r \in Proc : ControlOf(r)
  BY DEF CommInv, Control
<1> DEFINE Shape == /\ draw' \in Draws /\ host' \in Clusters /\ rank_of' = [p \in Proc |-> p]
                    /\ DOMAIN device' = Proc /\ DOMAIN qps_' = Proc /\ DOMAIN msg' = Proc
                    /\ DOMAIN submitted' = Proc /\ DOMAIN left' = Proc /\ DOMAIN result' = Proc
           Places == DOMAIN pc' = Proc /\ DOMAIN at' = Proc /\ \A r \in Proc : ControlOf(r)'
<1> SUFFICES Shape /\ Places
  BY DEF Control
<1> SUFFICES ASSUME ~UNCHANGED vars PROVE Shape /\ Places
  BY <1>1 DEF vars, exchange, ControlOf
<1>2. PICK r \in Proc : Step(r) \/ Arrive(r) \/ Dropped(r)
  BY DEF Next, Terminating
<1>3. CASE OpenDevice(r)
  BY <1>1, <1>3 DEF OpenDevice, exchange, ControlOf
<1>4. CASE Construct(r)
  BY <1>1, <1>4 DEF Construct, Enter, ControlOf
<1>5. CASE Exchanged(r)
  <2>1. Shape
    BY <1>1, <1>5 DEF Exchanged, Leave
  <2>2. Places
    BY <1>1, <1>5, AdvanceGoesOn DEF Exchanged, ControlOf
  <2> QED BY <2>1, <2>2
<1>6. CASE ConnectRtr(r)
  BY <1>1, <1>6 DEF ConnectRtr, exchange, ControlOf
<1>7. CASE ConnectRts(r)
  <2>1. Shape
    BY <1>1, <1>7 DEF ConnectRts, exchange
  <2>2. at[r] + 1 \in Nat
    BY <1>1, <1>7 DEF ConnectRts, ControlOf, Peers, Proc
  <2>3. Places
    BY <1>1, <1>7, <2>2, AdvanceGoesOn DEF ConnectRts, ControlOf
  <2> QED BY <2>1, <2>3
<1>8. CASE Barrier(r)
  BY <1>1, <1>8 DEF Barrier, Enter, ControlOf
<1>9. CASE BarrierReturns(r)
  BY <1>1, <1>9 DEF BarrierReturns, Leave, ControlOf
<1>10. CASE Sent(r)
  BY <1>1, <1>10 DEF Sent, exchange, ControlOf
<1>11. CASE Throw(r)
  BY <1>1, <1>11 DEF Throw, exchange, ControlOf
<1>12. CASE \E p \in Peers(r) : Send(r, p)
  BY <1>1, <1>12 DEF Send, exchange, ControlOf
<1>13. CASE Arrive(r)
  BY <1>1, <1>13 DEF Arrive, exchange, ControlOf
<1>14. CASE Dropped(r)
  BY <1>1, <1>14 DEF Dropped, exchange, ControlOf
<1> QED
  BY <1>2, <1>3, <1>4, <1>5, <1>6, <1>7, <1>8, <1>9, <1>10, <1>11, <1>12, <1>13, <1>14 DEF Step

(***************************************************************************)
(* Only OpenDevice takes a rank out of main, with a device or without; its *)
(* failure is for good.                                                    *)
(***************************************************************************)
LEMMA DeviceStep ==
  ASSUME CommInv, [Next]_vars
  PROVE  /\ Devices' /\ draw' = draw /\ host' = host
         /\ \A q \in Proc : pc[q] # "main" => device'[q] = device[q] /\ pc'[q] # "main"
         /\ \A q \in Proc : pc[q] = "failed" => pc'[q] = "failed"
<1>1. /\ DOMAIN pc = Proc /\ DOMAIN at = Proc /\ DOMAIN device = Proc
      /\ \A r \in Proc : ControlOf(r) /\ DeviceOf(r)
  BY DEF CommInv, Control, Devices
<1> DEFINE Keeps == /\ draw' = draw /\ host' = host /\ device' = device
                    /\ \A q \in Proc :
                         \/ pc'[q] = pc[q]
                         \/ /\ pc[q] \notin {"main", "no_device", "failed"}
                            /\ pc'[q] \notin {"main", "no_device"}
<1>2. ASSUME Keeps
      PROVE  /\ Devices' /\ draw' = draw /\ host' = host
             /\ \A q \in Proc : pc[q] # "main" => device'[q] = device[q] /\ pc'[q] # "main"
             /\ \A q \in Proc : pc[q] = "failed" => pc'[q] = "failed"
  BY <1>1, <1>2 DEF Devices, DeviceOf
<1>3. CASE UNCHANGED vars
  <2>1. Keeps
    BY <1>3 DEF vars
  <2> QED BY <1>2, <2>1
<1>4. CASE Next /\ ~UNCHANGED vars
  <2>2. PICK r \in Proc : Step(r) \/ Arrive(r) \/ Dropped(r)
    BY <1>4 DEF Next, Terminating
  <2>3. CASE OpenDevice(r)
    <3>1. draw' = draw /\ host' = host /\ pc[r] = "main"
      BY <2>3 DEF OpenDevice
    <3>2. \A q \in Proc : q # r => pc'[q] = pc[q] /\ device'[q] = device[q]
      BY <1>1, <2>3 DEF OpenDevice
    <3>3. device'[r] = open_device(host[r], "") /\ pc'[r] \in {"no_device", "start"}
      BY <1>1, <2>3 DEF OpenDevice
    <3>4. pc'[r] = "start" => device'[r] # NoDevice
      BY <1>1, <2>3 DEF OpenDevice
    <3>5. Devices'
      BY <1>1, <3>1, <3>2, <3>3, <3>4 DEF Devices, DeviceOf
    <3> QED BY <3>1, <3>2, <3>3, <3>5
  <2>4. CASE Construct(r)
    BY <1>1, <1>2, <2>4 DEF Construct
  <2>5. CASE Exchanged(r)
    <3>1. Keeps
      BY <1>1, <2>5, AdvanceGoesOn DEF Exchanged
    <3> QED BY <1>2, <3>1
  <2>6. CASE ConnectRtr(r)
    BY <1>1, <1>2, <2>6 DEF ConnectRtr
  <2>7. CASE ConnectRts(r)
    <3>1. at[r] + 1 \in Nat
      BY <1>1, <2>7 DEF ConnectRts, ControlOf, Peers, Proc
    <3>2. Keeps
      BY <1>1, <2>7, <3>1, AdvanceGoesOn DEF ConnectRts
    <3> QED BY <1>2, <3>2
  <2>8. CASE Barrier(r)
    BY <1>1, <1>2, <2>8 DEF Barrier
  <2>9. CASE BarrierReturns(r)
    BY <1>1, <1>2, <2>9 DEF BarrierReturns
  <2>10. CASE Sent(r)
    BY <1>1, <1>2, <2>10 DEF Sent
  <2>11. CASE Throw(r)
    <3>1. pc[r] \in {"start", "exchange", "rtr", "rts", "barrier", "wait"}
      BY <2>11, Zenon DEF Throw, ExchangeFails
    <3>2. Keeps
      BY <1>1, <2>11, <3>1 DEF Throw
    <3> QED BY <1>2, <3>2
  <2>12. CASE \E p \in Peers(r) : Send(r, p)
    BY <1>1, <1>2, <2>12 DEF Send
  <2>13. CASE Arrive(r)
    BY <1>1, <1>2, <2>13 DEF Arrive
  <2>14. CASE Dropped(r)
    BY <1>1, <1>2, <2>14 DEF Dropped
  <2> QED
    BY <2>2, <2>3, <2>4, <2>5, <2>6, <2>7, <2>8, <2>9, <2>10, <2>11, <2>12, <2>13, <2>14 DEF Step
<1> QED
  BY <1>3, <1>4

-----------------------------------------------------------------------------
(* Every step keeps Exchanges.                                             *)

(***************************************************************************)
(* A sequence of one element and another one.                              *)
(***************************************************************************)
LEMMA AppendOne ==
  ASSUME NEW x, NEW y
  PROVE  Append(<<x>>, y) = <<x, y>>
<1> DEFINE T == {x, y}
           s == <<x>>
           u == <<x, y>>
           a == Append(s, y)
<1>1. s \in Seq(T) /\ y \in T /\ Len(s) = 1 /\ s[1] = x
  OBVIOUS
<1>2. u \in Seq(T) /\ Len(u) = 2 /\ u[1] = x /\ u[2] = y
  OBVIOUS
<1> HIDE DEF s, u, T
<1>3. a \in Seq(T) /\ Len(a) = Len(s) + 1 /\ (\A i \in 1 .. Len(s) : a[i] = s[i]) /\ a[Len(s) + 1] = y
  <2>1. a \in Seq(T)
    BY <1>1, AppendProperties, Zenon
  <2>2. Len(a) = Len(s) + 1
    BY <1>1, AppendProperties, Zenon
  <2>3. \A i \in 1 .. Len(s) : a[i] = s[i]
    BY <1>1
  <2>4. a[Len(s) + 1] = y
    BY <1>1, AppendProperties, Zenon
  <2> QED BY <2>1, <2>2, <2>3, <2>4, Zenon
<1> HIDE DEF a
<1>4. Len(a) = 2 /\ a[1] = x /\ a[2] = y
  BY <1>1, <1>3
<1>5. Len(a) = Len(u) /\ \A i \in 1 .. Len(a) : a[i] = u[i]
  BY <1>2, <1>4
<1>6. a = u
  BY <1>2, <1>3, <1>5, SeqEqual, Zenon
<1> QED BY <1>6 DEF s, u, a

(***************************************************************************)
(* What a rank has submitted, by its length.                               *)
(***************************************************************************)
LEMMA SubmittedLength ==
  ASSUME NEW s, NEW x, s = <<>> \/ s \in {<<x>>, <<x, <<>>>>}
  PROVE  /\ Len(s) \in {0, 1, 2}
         /\ Len(s) = 0 => s = <<>> /\ Append(s, x) = <<x>>
         /\ Len(s) = 1 => s = <<x>> /\ Append(s, <<>>) = <<x, <<>>>>
         /\ Len(s) # 0 => s[1] = x
         /\ Len(<<x>>) = 1 /\ Len(<<x, <<>>>>) = 2
<1> DEFINE e == <<>>
           t == <<x>>
           u == <<x, e>>
<1>1. /\ Len(e) = 0 /\ Len(t) = 1 /\ Len(u) = 2 /\ t[1] = x /\ u[1] = x
  OBVIOUS
<1>2. Append(e, x) = t
  OBVIOUS
<1>3. s \in {e, t, u} /\ Append(t, e) = u
  BY AppendOne, Zenon
<1> HIDE DEF e, t, u
<1>4. /\ Len(s) \in {0, 1, 2}
      /\ Len(s) = 0 => s = e /\ Append(s, x) = t
      /\ Len(s) = 1 => s = t /\ Append(s, e) = u
      /\ Len(s) # 0 => s[1] = x
      /\ Len(t) = 1 /\ Len(u) = 2
  BY <1>1, <1>2, <1>3
<1> QED
  BY <1>4 DEF e, t, u

(***************************************************************************)
(* Facts about the exchanges in every state.                               *)
(***************************************************************************)
LEMMA ExchangeFacts ==
  ASSUME CommInv, NEW q \in Proc
  PROVE  /\ Len(submitted[q]) \in {0, 1, 2} /\ left[q] \in {0, 1, 2}
         /\ left[q] <= Len(submitted[q])
         /\ Len(submitted[q]) = 0 => submitted[q] = <<>>
         /\ Len(submitted[q]) # 0 =>
              /\ submitted[q][1] = infos(q)
              /\ pc[q] \notin {"main", "no_device", "start"}
         /\ Len(submitted[q]) = 2 => pc[q] \in {"ready", "barrier", "wait", "failed"}
         /\ \A p \in Proc : left[q] <= Len(submitted[p])
<1>1. SubmittedOf(q) /\ GivenOf(q) /\ ControlOf(q)
  BY DEF CommInv, Exchanges, Control
<1>2. /\ Len(submitted[q]) \in {0, 1, 2}
      /\ Len(submitted[q]) = 0 => submitted[q] = <<>>
      /\ Len(submitted[q]) # 0 => submitted[q][1] = infos(q)
  <2>1. submitted[q] = <<>> \/ submitted[q] \in {<<infos(q)>>, <<infos(q), <<>>>>}
    BY <1>1, Zenon DEF SubmittedOf
  <2> DEFINE s == submitted[q]
             x == infos(q)
  <2>2. s = <<>> \/ s \in {<<x>>, <<x, <<>>>>}
    BY <2>1
  <2> HIDE DEF s, x
  <2>3. Len(s) \in {0, 1, 2} /\ (Len(s) = 0 => s = <<>>) /\ (Len(s) # 0 => s[1] = x)
    BY <2>2, SubmittedLength
  <2> QED BY <2>3, Zenon DEF s, x
<1>3. left[q] \in {0, 1, 2} /\ left[q] <= Len(submitted[q])
  <2> DEFINE n == Len(submitted[q])
             k == left[q]
  <2>1. n \in {0, 1, 2} /\ k \in 0 .. n
    BY <1>1, <1>2, Zenon DEF SubmittedOf
  <2> HIDE DEF n, k
  <2>2. k \in {0, 1, 2} /\ k <= n
    BY <2>1
  <2> QED BY <2>2 DEF n, k
<1>4. Len(submitted[q]) # 0 => pc[q] \notin {"main", "no_device", "start"}
  <2>1. Len(<<>>) = 0
    OBVIOUS
  <2> QED BY <1>1, <2>1, Zenon DEF SubmittedOf
<1>5. Len(submitted[q]) = 2 => pc[q] \in {"ready", "barrier", "wait", "failed"}
  <2> DEFINE n == Len(submitted[q])
  <2>1. n # 0 => pc[q] \notin {"main", "no_device", "start"}
    BY <1>4
  <2>2. pc[q] \in {"exchange", "rtr", "rts"} => n = 1
    BY <1>1, Zenon DEF SubmittedOf
  <2> HIDE DEF n
  <2>3. n = 2 => pc[q] \in {"ready", "barrier", "wait", "failed"}
    BY <1>1, <2>1, <2>2 DEF ControlOf
  <2> QED BY <2>3 DEF n
<1> QED
  BY <1>1, <1>2, <1>3, <1>4, <1>5, Zenon DEF GivenOf

(***************************************************************************)
(* The infos of a rank that has submitted them do not change any more.     *)
(***************************************************************************)
LEMMA InfosKept ==
  ASSUME CommInv, [Next]_vars, NEW q \in Proc, pc[q] # "main"
  PROVE  infos(q)' = infos(q)
<1>1. device'[q] = device[q] /\ draw' = draw /\ host' = host
  BY DeviceStep
<1> QED
  BY <1>1, InfoStable

(***************************************************************************)
(* A rank that made no exchange in this step.                              *)
(***************************************************************************)
LEMMA SubmittedKept ==
  ASSUME CommInv, [Next]_vars, NEW q \in Proc,
         submitted'[q] = submitted[q], left'[q] = left[q],
         \/ pc'[q] = pc[q]
         \/ pc[q] \in {"main"} /\ pc'[q] \in {"no_device", "start"}
         \/ pc[q] \in {"rtr", "rts"} /\ pc'[q] \in {"rtr", "rts", "ready"}
         \/ pc[q] \in {"ready", "wait"} /\ pc'[q] \in {"ready", "wait"}
         \/ pc[q] # "main" /\ pc'[q] = "failed"
  PROVE  SubmittedOf(q)'
<1> DEFINE n == Len(submitted[q])
           k == left[q]
<1>1. /\ pc[q] \in {"main", "no_device", "start"} => submitted[q] = <<>>
      /\ k \in 0 .. n
      /\ pc[q] = "exchange" => n = 1 /\ k = 0
      /\ pc[q] \in {"rtr", "rts"} => n = 1 /\ k = 1
      /\ pc[q] \in {"ready", "wait"} => k = n /\ k >= 1
      /\ pc[q] = "barrier" => n = 2 /\ k = 1
      /\ submitted[q] = <<>> \/ submitted[q] \in {<<infos(q)>>, <<infos(q), <<>>>>}
  BY Zenon DEF CommInv, Exchanges, SubmittedOf
<1>2. submitted'[q] = <<>> \/ submitted'[q] \in {<<infos(q)'>>, <<infos(q)', <<>>>>}
  <2>1. CASE pc[q] = "main"
    BY <1>1, <2>1
  <2>2. CASE pc[q] # "main"
    <3>1. infos(q)' = infos(q)
      BY <2>2, InfosKept
    <3> QED BY <1>1, <3>1
  <2> QED BY <2>1, <2>2
<1>3. Len(submitted'[q]) = n /\ left'[q] = k
  OBVIOUS
<1> HIDE DEF n, k
<1>4. k = 1 /\ n = 1 => k = n /\ k >= 1
  OBVIOUS
<1>5. pc'[q] \in {"main", "no_device", "start"} => submitted'[q] = <<>>
  BY <1>1
<1>6. pc'[q] = "exchange" => Len(submitted'[q]) = 1 /\ left'[q] = 0
  BY <1>1, <1>3
<1>7. pc'[q] \in {"rtr", "rts"} => Len(submitted'[q]) = 1 /\ left'[q] = 1
  BY <1>1, <1>3
<1>8. pc'[q] \in {"ready", "wait"} => left'[q] = Len(submitted'[q]) /\ left'[q] >= 1
  BY <1>1, <1>3, <1>4
<1>9. pc'[q] = "barrier" => Len(submitted'[q]) = 2 /\ left'[q] = 1
  BY <1>1, <1>3
<1> QED
  BY <1>1, <1>2, <1>3, <1>5, <1>6, <1>7, <1>8, <1>9, Zenon DEF SubmittedOf

(***************************************************************************)
(* A rank that left no exchange in this step keeps what it was given,      *)
(* whatever the others have submitted since.                               *)
(***************************************************************************)
LEMMA GivenKept ==
  ASSUME CommInv, [Next]_vars, NEW q \in Proc, result'[q] = result[q], left'[q] = left[q],
         \A p \in Proc : Len(submitted'[p]) \in Nat /\ Len(submitted[p]) <= Len(submitted'[p])
  PROVE  GivenOf(q)'
<1>1. GivenOf(q)
  BY DEF CommInv, Exchanges
<1>2. \A p \in Proc : left'[q] <= Len(submitted'[p])
  <2> TAKE p \in Proc
  <2> DEFINE k == left[q]
             m == Len(submitted[p])
             n == Len(submitted'[p])
  <2>1. k \in {0, 1, 2} /\ m \in {0, 1, 2} /\ k <= m
    BY ExchangeFacts
  <2>2. n \in Nat /\ m <= n
    OBVIOUS
  <2> HIDE DEF k, m, n
  <2>3. k <= n
    BY <2>1, <2>2
  <2> QED BY <2>3 DEF k, n
<1>3. ASSUME left'[q] = 1 PROVE result'[q] = [p \in Peers(q) |-> infos(p)'[q]]
  <2>1. result[q] = [p \in Peers(q) |-> infos(p)[q]]
    BY <1>1, <1>3 DEF GivenOf
  <2>2. ASSUME NEW p \in Peers(q) PROVE infos(p)' = infos(p)
    <3>1. p \in Proc
      BY <2>2 DEF Peers
    <3>2. Len(submitted[p]) # 0
      <4>1. left[q] = 1 /\ left[q] <= Len(submitted[p]) /\ Len(submitted[p]) \in {0, 1, 2}
        BY <1>3, <3>1, ExchangeFacts
      <4> QED BY <4>1
    <3>3. pc[p] # "main"
      BY <3>1, <3>2, ExchangeFacts
    <3> QED BY <3>1, <3>3, InfosKept
  <2>3. [p \in Peers(q) |-> infos(p)[q]] = [p \in Peers(q) |-> infos(p)'[q]]
    BY <2>2
  <2> QED BY <2>1, <2>3
<1> QED
  BY <1>2, <1>3, Zenon DEF GivenOf, Peers

(***************************************************************************)
(* The first exchange gives a rank, under the rank of every peer, what     *)
(* that peer has submitted for it.                                         *)
(***************************************************************************)
LEMMA FirstExchange ==
  ASSUME CommInv, NEW r \in Proc, \A q \in Proc : Len(submitted[q]) # 0
  PROVE  Addressed(r, 1) = [p \in Peers(r) |-> infos(p)[r]]
<1>1. \A q \in Proc : rank_of[q] = q
  BY DEF CommInv, Control
<1>2. \A q \in Proc : submitted[q][1] = infos(q) /\ DOMAIN submitted[q][1] = Peers(q)
  <2> TAKE q \in Proc
  <2>1. submitted[q][1] = infos(q)
    BY ExchangeFacts
  <2> QED BY <2>1 DEF infos
<1> DEFINE to_r == {q \in Proc : rank_of[r] \in DOMAIN submitted[q][1]}
<1>3. to_r = Peers(r)
  BY <1>1, <1>2 DEF Peers
<1>4. {rank_of[q] : q \in to_r} = Peers(r)
  BY <1>1, <1>3 DEF Peers
<1>5. ASSUME NEW p \in Peers(r)
      PROVE  submitted[CHOOSE q \in to_r : rank_of[q] = p][1][rank_of[r]] = infos(p)[r]
  <2>1. p \in Proc /\ p \in to_r
    BY <1>3 DEF Peers
  <2>2. (CHOOSE q \in to_r : rank_of[q] = p) = p
    BY <1>1, <2>1
  <2> QED BY <1>1, <1>2, <2>1, <2>2
<1>6. Addressed(r, 1) = [src \in {rank_of[q] : q \in to_r} |->
                           submitted[CHOOSE q \in to_r : rank_of[q] = src][1][rank_of[r]]]
  BY DEF Addressed
<1> DEFINE given(p) == submitted[CHOOSE q \in to_r : rank_of[q] = p][1][rank_of[r]]
           R == {rank_of[q] : q \in to_r}
<1>7. Addressed(r, 1) = [src \in R |-> given(src)] /\ R = Peers(r)
  BY <1>4, <1>6
<1>8. \A p \in Peers(r) : given(p) = infos(p)[r]
  BY <1>5
<1> HIDE DEF to_r, given, R
<1> QED
  BY <1>7, <1>8

(***************************************************************************)
(* Every step keeps Exchanges.                                             *)
(***************************************************************************)
LEMMA ExchangesStep == ASSUME CommInv, [Next]_vars PROVE Exchanges'
<1>1. /\ DOMAIN pc = Proc /\ DOMAIN at = Proc /\ DOMAIN submitted = Proc /\ DOMAIN left = Proc
      /\ DOMAIN result = Proc /\ \A r \in Proc : ControlOf(r)
  BY DEF CommInv, Control
<1> DEFINE Moved(q) == \/ pc'[q] = pc[q]
                       \/ pc[q] \in {"main"} /\ pc'[q] \in {"no_device", "start"}
                       \/ pc[q] \in {"rtr", "rts"} /\ pc'[q] \in {"rtr", "rts", "ready"}
                       \/ pc[q] \in {"ready", "wait"} /\ pc'[q] \in {"ready", "wait"}
                       \/ pc[q] # "main" /\ pc'[q] = "failed"
           Same(q) == submitted'[q] = submitted[q] /\ left'[q] = left[q]
<1>2. ASSUME NEW q \in Proc, Moved(q), Same(q) PROVE SubmittedOf(q)'
  BY <1>2, SubmittedKept
<1>3. ASSUME submitted' = submitted, left' = left, result' = result, \A q \in Proc : Moved(q)
      PROVE  Exchanges'
  <2> SUFFICES ASSUME NEW q \in Proc PROVE SubmittedOf(q)' /\ GivenOf(q)'
    BY DEF Exchanges
  <2>1. SubmittedOf(q)'
    BY <1>2, <1>3
  <2>2. \A p \in Proc : Len(submitted'[p]) \in Nat /\ Len(submitted[p]) <= Len(submitted'[p])
    <3> TAKE p \in Proc
    <3> DEFINE n == Len(submitted[p])
    <3>1. n \in {0, 1, 2} /\ n = Len(submitted'[p])
      BY <1>3, ExchangeFacts
    <3> HIDE DEF n
    <3>2. n \in Nat /\ n <= n
      BY <3>1
    <3> QED BY <3>1, <3>2 DEF n
  <2>3. GivenOf(q)'
    BY <1>3, <2>2, GivenKept
  <2> QED BY <2>1, <2>3
<1>4. CASE UNCHANGED vars
  BY <1>3, <1>4 DEF vars, exchange
<1>5. ASSUME NEW r \in Proc, OpenDevice(r) PROVE Exchanges'
  BY <1>1, <1>3, <1>5 DEF OpenDevice, exchange
<1>6. ASSUME NEW r \in Proc, ConnectRtr(r) PROVE Exchanges'
  BY <1>1, <1>3, <1>6 DEF ConnectRtr, exchange
<1>7. ASSUME NEW r \in Proc, ConnectRts(r) PROVE Exchanges'
  <2>1. at[r] + 1 \in Nat
    BY <1>1, <1>7 DEF ConnectRts, ControlOf, Peers, Proc
  <2>2. \A q \in Proc : Moved(q)
    BY <1>1, <1>7, <2>1, AdvanceGoesOn DEF ConnectRts
  <2> QED BY <1>3, <1>7, <2>2 DEF ConnectRts, exchange
<1>8. ASSUME NEW r \in Proc, Sent(r) PROVE Exchanges'
  BY <1>1, <1>3, <1>8 DEF Sent, exchange
<1>9. ASSUME NEW r \in Proc, Throw(r) PROVE Exchanges'
  <2>1. pc[r] \in {"start", "exchange", "rtr", "rts", "barrier", "wait"}
    BY <1>9, Zenon DEF Throw, ExchangeFails
  <2>2. \A q \in Proc : Moved(q)
    BY <1>1, <1>9, <2>1 DEF Throw
  <2> QED BY <1>3, <1>9, <2>2 DEF Throw, exchange
<1>10. ASSUME NEW r \in Proc, NEW p \in Peers(r), Send(r, p) PROVE Exchanges'
  BY <1>1, <1>3, <1>10 DEF Send, exchange
<1>11. ASSUME NEW r \in Proc, Arrive(r) PROVE Exchanges'
  BY <1>3, <1>11 DEF Arrive, exchange
<1>12. ASSUME NEW r \in Proc, Dropped(r) PROVE Exchanges'
  BY <1>3, <1>12 DEF Dropped, exchange
<1>13. ASSUME NEW r \in Proc, NEW out, Enter(r, out), SubmittedOf(r)',
              Len(submitted'[r]) = Len(submitted[r]) + 1, \A q \in Proc \ {r} : Moved(q)
       PROVE  Exchanges'
  <2>1. left' = left /\ result' = result /\ \A q \in Proc \ {r} : submitted'[q] = submitted[q]
    BY <1>1, <1>13 DEF Enter
  <2>2. \A p \in Proc : Len(submitted'[p]) \in Nat /\ Len(submitted[p]) <= Len(submitted'[p])
    <3> TAKE p \in Proc
    <3> DEFINE n == Len(submitted[p])
               m == Len(submitted'[p])
    <3>1. n \in {0, 1, 2} /\ m \in {n, n + 1}
      BY <1>13, <2>1, ExchangeFacts
    <3> HIDE DEF n, m
    <3>2. m \in Nat /\ n <= m
      BY <3>1
    <3> QED BY <3>2 DEF n, m
  <2> SUFFICES ASSUME NEW q \in Proc PROVE SubmittedOf(q)' /\ GivenOf(q)'
    BY DEF Exchanges
  <2>3. SubmittedOf(q)'
    BY <1>2, <1>13, <2>1
  <2>4. GivenOf(q)'
    BY <2>1, <2>2, GivenKept
  <2> QED BY <2>3, <2>4
<1>14. ASSUME NEW r \in Proc, Construct(r) PROVE Exchanges'
  <2>1. pc[r] = "start" /\ pc'[r] = "exchange" /\ \A q \in Proc \ {r} : pc'[q] = pc[q]
    BY <1>1, <1>14 DEF Construct
  <2>2. Enter(r, infos(r))
    BY <1>14, Zenon DEF Construct, infos, info, generate_psn
  <2>3. submitted[r] = <<>> /\ left[r] \in 0 .. Len(submitted[r])
    BY <2>1, Zenon DEF CommInv, Exchanges, SubmittedOf
  <2>4. submitted'[r] = <<infos(r)>> /\ Len(submitted[r]) = 0 /\ Len(submitted'[r]) = 1
    <3>1. submitted'[r] = Append(submitted[r], infos(r))
      BY <1>1, <2>2 DEF Enter
    <3> QED BY <2>3, <3>1, SubmittedLength
  <2>5. infos(r)' = infos(r)
    BY <2>1, InfosKept
  <2>6. left'[r] = 0
    <3>1. left' = left
      BY <2>2 DEF Enter
    <3> QED BY <2>3, <2>4, <3>1
  <2>7. SubmittedOf(r)'
    BY <2>1, <2>4, <2>5, <2>6 DEF SubmittedOf
  <2>8. Len(submitted'[r]) = Len(submitted[r]) + 1
    BY <2>4
  <2>9. \A q \in Proc \ {r} : Moved(q)
    BY <2>1
  <2> HIDE DEF Moved
  <2> QED BY <1>13, <2>2, <2>7, <2>8, <2>9, Zenon
<1>15. ASSUME NEW r \in Proc, Barrier(r) PROVE Exchanges'
  <2>1. /\ pc[r] = "ready" /\ pc'[r] = "barrier" /\ Len(submitted[r]) = 1 /\ Enter(r, <<>>)
        /\ \A q \in Proc \ {r} : pc'[q] = pc[q]
    BY <1>1, <1>15 DEF Barrier
  <2>2. /\ submitted[r] = <<>> \/ submitted[r] \in {<<infos(r)>>, <<infos(r), <<>>>>}
        /\ left[r] = Len(submitted[r])
    BY <2>1, Zenon DEF CommInv, Exchanges, SubmittedOf
  <2>3. submitted'[r] = <<infos(r), <<>>>> /\ Len(submitted'[r]) = 2
    <3>1. submitted'[r] = Append(submitted[r], <<>>)
      BY <1>1, <2>1 DEF Enter
    <3>2. /\ Len(submitted[r]) = 1 => Append(submitted[r], <<>>) = <<infos(r), <<>>>>
          /\ Len(<<infos(r), <<>>>>) = 2
      BY <2>2, SubmittedLength, Zenon
    <3> QED BY <2>1, <3>1, <3>2, Zenon
  <2>4. infos(r)' = infos(r)
    BY <2>1, InfosKept
  <2>5. left'[r] = 1
    BY <2>1, <2>2 DEF Enter
  <2>6. SubmittedOf(r)'
    BY <2>1, <2>3, <2>4, <2>5 DEF SubmittedOf
  <2>7. Len(submitted'[r]) = Len(submitted[r]) + 1
    BY <2>1, <2>3
  <2> QED BY <1>13, <2>1, <2>6, <2>7
<1>16. ASSUME NEW r \in Proc, Leave(r), SubmittedOf(r)', GivenOf(r)', \A q \in Proc \ {r} : Moved(q)
       PROVE  Exchanges'
  <2>1. /\ submitted' = submitted
        /\ \A q \in Proc \ {r} : left'[q] = left[q] /\ result'[q] = result[q]
    BY <1>1, <1>16 DEF Leave
  <2>2. \A p \in Proc : Len(submitted'[p]) \in Nat /\ Len(submitted[p]) <= Len(submitted'[p])
    <3> TAKE p \in Proc
    <3> DEFINE n == Len(submitted[p])
    <3>1. n \in {0, 1, 2} /\ n = Len(submitted'[p])
      BY <2>1, ExchangeFacts
    <3> HIDE DEF n
    <3>2. n \in Nat /\ n <= n
      BY <3>1
    <3> QED BY <3>1, <3>2 DEF n
  <2> SUFFICES ASSUME NEW q \in Proc \ {r} PROVE SubmittedOf(q)' /\ GivenOf(q)'
    BY <1>16 DEF Exchanges
  <2>3. SubmittedOf(q)'
    BY <1>2, <1>16, <2>1
  <2>4. GivenOf(q)'
    BY <2>1, <2>2, GivenKept
  <2> QED BY <2>3, <2>4
<1>17. ASSUME NEW r \in Proc, Exchanged(r) PROVE Exchanges'
  <2>1. pc[r] = "exchange" /\ Leave(r)
    BY <1>17 DEF Exchanged
  <2>2. pc'[r] \in {"rtr", "ready"} /\ \A q \in Proc \ {r} : pc'[q] = pc[q]
    BY <1>1, <1>17, AdvanceGoesOn DEF Exchanged
  <2>3. /\ Len(submitted[r]) = 1 /\ left[r] = 0
        /\ submitted[r] = <<>> \/ submitted[r] \in {<<infos(r)>>, <<infos(r), <<>>>>}
    BY <2>1, Zenon DEF CommInv, Exchanges, SubmittedOf
  <2>4. submitted'[r] = submitted[r] /\ left'[r] = 1 /\ result'[r] = Addressed(r, 1)
    BY <1>1, <2>1, <2>3 DEF Leave
  <2>5. \A q \in Proc : Len(submitted[q]) # 0
    <3> TAKE q \in Proc
    <3>1. 0 < Len(submitted[q]) /\ Len(submitted[q]) \in {0, 1, 2}
      BY <2>1, <2>3, ExchangeFacts DEF Leave
    <3> QED BY <3>1
  <2>6. \A p \in Proc : infos(p)' = infos(p)
    <3> TAKE p \in Proc
    <3>1. pc[p] # "main"
      BY <2>5, ExchangeFacts
    <3> QED BY <3>1, InfosKept
  <2>7. SubmittedOf(r)'
    <3>1. Len(submitted'[r]) = 1 /\ 1 \in 0 .. 1 /\ 1 >= 1
      BY <2>3, <2>4
    <3> QED BY <2>2, <2>3, <2>4, <2>6, <3>1 DEF SubmittedOf
  <2>8. GivenOf(r)'
    <3>1. result'[r] = [p \in Peers(r) |-> infos(p)[r]]
      BY <2>4, <2>5, FirstExchange
    <3>2. [p \in Peers(r) |-> infos(p)[r]] = [p \in Peers(r) |-> infos(p)'[r]]
      BY <2>6 DEF Peers
    <3>3. \A q \in Proc : 1 <= Len(submitted'[q])
      <4> TAKE q \in Proc
      <4> DEFINE n == Len(submitted[q])
      <4>1. n \in {0, 1, 2} /\ n # 0
        BY <2>5, ExchangeFacts
      <4> HIDE DEF n
      <4>2. 1 <= n
        BY <4>1
      <4>3. submitted' = submitted
        BY <2>1 DEF Leave
      <4> QED BY <4>2, <4>3 DEF n
    <3> QED BY <2>4, <3>1, <3>2, <3>3, Zenon DEF GivenOf, Peers
  <2> QED BY <1>16, <2>1, <2>2, <2>7, <2>8
<1>18. ASSUME NEW r \in Proc, BarrierReturns(r) PROVE Exchanges'
  <2>1. /\ pc[r] = "barrier" /\ pc'[r] = "ready" /\ Leave(r)
        /\ \A q \in Proc \ {r} : pc'[q] = pc[q]
    BY <1>1, <1>18 DEF BarrierReturns
  <2>2. /\ Len(submitted[r]) = 2 /\ left[r] = 1
        /\ submitted[r] = <<>> \/ submitted[r] \in {<<infos(r)>>, <<infos(r), <<>>>>}
    BY <2>1, Zenon DEF CommInv, Exchanges, SubmittedOf
  <2>3. submitted' = submitted /\ left'[r] = 2
    BY <1>1, <2>1, <2>2 DEF Leave
  <2>4. infos(r)' = infos(r)
    BY <2>1, InfosKept
  <2>5. SubmittedOf(r)'
    <3>1. Len(submitted'[r]) = 2 /\ 2 \in 0 .. 2 /\ 2 >= 1
      BY <2>2, <2>3
    <3> QED BY <2>1, <2>2, <2>3, <2>4, <3>1 DEF SubmittedOf
  <2>6. GivenOf(r)'
    <3>1. \A q \in Proc : 2 <= Len(submitted'[q])
      <4> TAKE q \in Proc
      <4> DEFINE n == Len(submitted[q])
      <4>1. n \in {0, 1, 2} /\ 1 < n
        BY <2>1, <2>2, ExchangeFacts DEF Leave
      <4> HIDE DEF n
      <4>2. 2 <= n
        BY <4>1
      <4> QED BY <2>3, <4>2 DEF n
    <3> QED BY <2>3, <3>1 DEF GivenOf
  <2> QED BY <1>16, <2>1, <2>5, <2>6
<1> QED
  BY <1>4, <1>5, <1>6, <1>7, <1>8, <1>9, <1>10, <1>11, <1>12, <1>14, <1>15, <1>17, <1>18
  DEF Next, Step, Terminating

-----------------------------------------------------------------------------
(* Every step keeps Qps.                                                   *)

(***************************************************************************)
(* A rank leaves the first exchange only after every other one has joined  *)
(* it, with its device open.                                               *)
(***************************************************************************)
LEMMA PastExchange ==
  ASSUME CommInv, NEW q \in Proc, pc[q] \in {"rtr", "rts", "ready", "barrier", "wait"}
  PROVE  /\ left[q] \in {1, 2}
         /\ \A p \in Proc : /\ pc[p] \notin {"main", "no_device", "start"}
                            /\ device[p] = open_device(host[p], "") /\ device[p] # NoDevice
<1> DEFINE k == left[q]
<1>1. k \in {0, 1, 2}
  BY ExchangeFacts
<1>2. /\ pc[q] \in {"rtr", "rts"} => k = 1
      /\ pc[q] \in {"ready", "wait"} => k >= 1
      /\ pc[q] = "barrier" => k = 1
  BY Zenon DEF CommInv, Exchanges, SubmittedOf
<1>3. \A p \in Proc : k <= Len(submitted[p])
  BY ExchangeFacts
<1> HIDE DEF k
<1>4. k \in {1, 2}
  BY <1>1, <1>2
<1>5. ASSUME NEW p \in Proc
      PROVE  /\ pc[p] \notin {"main", "no_device", "start"}
             /\ device[p] = open_device(host[p], "") /\ device[p] # NoDevice
  <2> DEFINE n == Len(submitted[p])
  <2>1. n \in {0, 1, 2} /\ k <= n
    BY <1>3, ExchangeFacts
  <2>2. n # 0 => pc[p] \notin {"main", "no_device", "start"}
    BY ExchangeFacts
  <2> HIDE DEF n
  <2>3. n # 0
    BY <1>4, <2>1
  <2> QED BY <2>2, <2>3, Zenon DEF CommInv, Devices, DeviceOf
<1> QED
  BY <1>4, <1>5 DEF k

(***************************************************************************)
(* The queue pairs a rank is connecting mean the same after the step.      *)
(***************************************************************************)
LEMMA ConnectedKept ==
  ASSUME CommInv, [Next]_vars, NEW q \in Proc, NEW p \in Peers(q)
  PROVE  /\ initial(q, p)' = initial(q, p)
         /\ pc[q] \in {"rtr", "rts", "ready", "barrier", "wait"} =>
              connected(q, p)' = connected(q, p)
<1>1. draw' = draw /\ host' = host /\ p \in Proc
  BY DeviceStep DEF Peers
<1>2. initial(q, p)' = initial(q, p)
  BY <1>1, Zenon DEF initial, modify_to_init, NoQp
<1>3. ASSUME pc[q] \in {"rtr", "rts", "ready", "barrier", "wait"}
      PROVE  connected(q, p)' = connected(q, p)
  <2>1. pc[q] # "main" /\ pc[p] # "main"
    BY <1>1, <1>3, PastExchange
  <2>2. device'[q] = device[q] /\ device'[p] = device[p]
    BY <1>1, <2>1, DeviceStep
  <2> QED BY <1>1, <2>2, QpStable
<1> QED
  BY <1>2, <1>3

(***************************************************************************)
(* A rank whose queue pairs a step leaves alone.                           *)
(***************************************************************************)
LEMMA QpsKept ==
  ASSUME CommInv, [Next]_vars, NEW q \in Proc, qps_'[q] = qps_[q],
         \A p \in Peers(q) : /\ Unmade(q)' => Unmade(q)
                             /\ Untouched(q, p)' => Untouched(q, p)
                             /\ HalfWay(q, p)' => HalfWay(q, p)
                             /\ Passed(q, p)' => Passed(q, p)
  PROVE  QpsOf(q)'
<1>1. QpsOf(q)
  BY DEF CommInv, Qps
<1>2. DOMAIN qps_'[q] = Peers(q)
  BY <1>1 DEF QpsOf
<1>3. ASSUME NEW p \in Peers(q)
      PROVE  /\ Unmade(q)' => qps_'[q][p] = NoQp
             /\ Untouched(q, p)' => qps_'[q][p] = initial(q, p)'
             /\ HalfWay(q, p)' => qps_'[q][p] = connected(q, p)'
             /\ Passed(q, p)' => qps_'[q][p] = modify_to_rts(connected(q, p)')
  <2>1. HalfWay(q, p) \/ Passed(q, p) => pc[q] \in {"rtr", "rts", "ready", "barrier", "wait"}
    BY DEF HalfWay, Passed
  <2>2. /\ initial(q, p)' = initial(q, p)
        /\ HalfWay(q, p) \/ Passed(q, p) => connected(q, p)' = connected(q, p)
    BY <2>1, ConnectedKept
  <2>3. /\ Unmade(q) => qps_[q][p] = NoQp
        /\ Untouched(q, p) => qps_[q][p] = initial(q, p)
        /\ HalfWay(q, p) => qps_[q][p] = connected(q, p)
        /\ Passed(q, p) => qps_[q][p] = modify_to_rts(connected(q, p))
    BY <1>1, Zenon DEF QpsOf
  <2> QED BY <2>2, <2>3, Zenon
<1> QED
  BY <1>2, <1>3, Zenon DEF QpsOf, NoQp, modify_to_rts, Peers

(***************************************************************************)
(* modify_to_rtr with the bytes of the peer connects to the peer.          *)
(***************************************************************************)
LEMMA RtrConnects ==
  ASSUME CommInv, NEW r \in Proc, ConnectRtr(r)
  PROVE  /\ at[r] \in Peers(r)
         /\ qps_' = [qps_ EXCEPT ![r][at[r]] = connected(r, at[r])]
<1> DEFINE p == at[r]
<1>1. pc[r] = "rtr" /\ p \in Peers(r) /\ p \in Proc
  BY DEF CommInv, Control, ControlOf, ConnectRtr, Peers
<1>2. QpsOf(r) /\ SubmittedOf(r) /\ GivenOf(r)
  BY DEF CommInv, Qps, Exchanges
<1>3. left[r] = 1
  BY <1>1, <1>2 DEF SubmittedOf
<1>4. result[r][p] = encode_endpoint_info(info(p, r))
  <2>1. result[r] = [q \in Peers(r) |-> infos(q)[r]]
    BY <1>2, <1>3 DEF GivenOf
  <2>2. r \in Peers(p)
    BY <1>1 DEF Peers
  <2>3. infos(p)[r] = encode_endpoint_info(info(p, r))
    BY <2>2 DEF infos
  <2> QED BY <1>1, <2>1, <2>3
<1>5. qps_[r][p] = initial(r, p)
  <2>1. p >= p
    BY <1>1 DEF Proc
  <2>2. Untouched(r, p)
    BY <1>1, <2>1 DEF Untouched
  <2> QED BY <1>1, <1>2, <2>2 DEF QpsOf
<1>6. modify_to_rtr(initial(r, p), device[r], decode_endpoint_info(encode_endpoint_info(info(p, r))))
        = connected(r, p)
  <2>1. device[p] = open_device(host[p], "") /\ device[p] # NoDevice
    BY <1>1, PastExchange
  <2>2. draw \in Draws /\ host \in Clusters /\ r \in Peers(p)
    BY <1>1 DEF CommInv, Control, Peers
  <2> DEFINE x == info(p, r)
  <2>3. Fits(x)
    BY <1>1, <2>1, <2>2, InfoMembers
  <2> HIDE DEF x
  <2>4. modify_to_rtr(initial(r, p), device[r], decode_endpoint_info(encode_endpoint_info(x)))
          = modify_to_rtr(initial(r, p), device[r], x)
    BY <2>3, Received
  <2> QED BY <2>4 DEF connected, x
<1>7. qps_' = [qps_ EXCEPT ![r][p] =
                 modify_to_rtr(qps_[r][p], device[r], decode_endpoint_info(result[r][p]))]
  BY DEF ConnectRtr
<1> QED
  BY <1>1, <1>4, <1>5, <1>6, <1>7

(***************************************************************************)
(* Every step keeps Qps.                                                   *)
(***************************************************************************)
LEMMA QpsStep == ASSUME CommInv, [Next]_vars PROVE Qps'
<1>1. /\ DOMAIN pc = Proc /\ DOMAIN at = Proc /\ DOMAIN qps_ = Proc
      /\ \A r \in Proc : ControlOf(r) /\ QpsOf(r)
  BY DEF CommInv, Control, Qps
<1> DEFINE Still(q) == qps_'[q] = qps_[q] /\ pc'[q] = pc[q] /\ at'[q] = at[q]
<1>2. ASSUME NEW q \in Proc, Still(q) PROVE QpsOf(q)'
  BY <1>2, QpsKept DEF Unmade, Untouched, HalfWay, Passed
<1>3. ASSUME NEW r \in Proc, \A q \in Proc \ {r} : Still(q), QpsOf(r)' PROVE Qps'
  BY <1>2, <1>3 DEF Qps
<1>4. CASE UNCHANGED vars
  BY <1>2, <1>4 DEF vars, Qps
<1>5. ASSUME NEW r \in Proc, OpenDevice(r) PROVE Qps'
  <2>1. \A q \in Proc \ {r} : Still(q)
    BY <1>1, <1>5 DEF OpenDevice
  <2>2. pc[r] = "main" /\ pc'[r] \in {"no_device", "start"} /\ qps_'[r] = qps_[r]
    BY <1>1, <1>5 DEF OpenDevice
  <2>3. QpsOf(r)'
    BY <2>2, QpsKept DEF Unmade, Untouched, HalfWay, Passed
  <2> QED BY <1>3, <2>1, <2>3
<1>6. ASSUME NEW r \in Proc, Construct(r) PROVE Qps'
  <2>1. \A q \in Proc \ {r} : Still(q)
    BY <1>1, <1>6 DEF Construct
  <2>2. pc'[r] = "exchange"
    BY <1>1, <1>6 DEF Construct
  <2>3. qps_'[r] = [p \in Peers(r) |-> initial(r, p)]
    BY <1>1, <1>6 DEF Construct, initial, generate_psn
  <2>4. \A p \in Peers(r) : initial(r, p)' = initial(r, p)
    BY ConnectedKept
  <2>5. DOMAIN qps_'[r] = Peers(r) /\ \A p \in Peers(r) : qps_'[r][p] = initial(r, p)'
    BY <2>3, <2>4
  <2>6. QpsOf(r)'
    BY <2>2, <2>5 DEF QpsOf, Unmade, Untouched, HalfWay, Passed, Peers
  <2> QED BY <1>3, <2>1, <2>6
<1>7. ASSUME NEW r \in Proc, Exchanged(r) PROVE Qps'
  <2>1. pc[r] = "exchange" /\ qps_' = qps_
    BY <1>7 DEF Exchanged
  <2>2. /\ \A q \in Proc : q # r => pc'[q] = pc[q] /\ at'[q] = at[q]
        /\ \/ pc'[r] = "ready" /\ \A q \in Peers(r) : q < 0
           \/ /\ pc'[r] = "rtr" /\ at'[r] \in Peers(r)
              /\ \A q \in Peers(r) : 0 <= q => at'[r] <= q
    BY <1>1, <1>7, AdvanceGoesOn DEF Exchanged
  <2>3. \A p \in Peers(r) : p \in Nat
    BY DEF Peers, Proc
  <2>4. ASSUME NEW p \in Peers(r) PROVE pc'[r] = "rtr" /\ at'[r] \in Nat /\ at'[r] <= p /\ p \in Nat
    BY <2>2, <2>3
  <2>5. ASSUME NEW p \in Peers(r) PROVE ~(p < at'[r])
    BY <2>4
  <2>6. ASSUME NEW p \in Peers(r)
        PROVE  Untouched(r, p) /\ ~Unmade(r)' /\ ~HalfWay(r, p)' /\ ~Passed(r, p)'
    BY <2>1, <2>4, <2>5 DEF Unmade, Untouched, HalfWay, Passed
  <2>7. QpsOf(r)'
    BY <2>1, <2>6, QpsKept
  <2> QED BY <1>3, <2>1, <2>2, <2>7
<1>8. ASSUME NEW r \in Proc, ConnectRtr(r) PROVE Qps'
  <2> DEFINE a == at[r]
  <2>1. pc[r] = "rtr" /\ pc'[r] = "rts" /\ at' = at /\ \A q \in Proc \ {r} : pc'[q] = pc[q]
    BY <1>1, <1>8 DEF ConnectRtr
  <2>2. a \in Peers(r) /\ qps_' = [qps_ EXCEPT ![r][a] = connected(r, a)]
    BY <1>8, RtrConnects
  <2>3. \A q \in Proc \ {r} : Still(q)
    BY <1>1, <2>1, <2>2
  <2>4. /\ DOMAIN qps_'[r] = Peers(r) /\ qps_'[r][a] = connected(r, a)
        /\ \A p \in Peers(r) \ {a} : qps_'[r][p] = qps_[r][p]
    BY <1>1, <2>2 DEF QpsOf
  <2>5. \A p \in Peers(r) : connected(r, p)' = connected(r, p) /\ initial(r, p)' = initial(r, p)
    BY <2>1, ConnectedKept
  <2>6. \A p \in Peers(r) : p \in Nat
    BY DEF Peers, Proc
  <2>7. ASSUME NEW p \in Peers(r) PROVE p = a \/ p < a \/ p > a
    BY <2>2, <2>6
  <2>8. ASSUME NEW p \in Peers(r), p > a PROVE qps_'[r][p] = initial(r, p)' /\ ~(p < a) /\ p # a
    <3>1. p >= a /\ p # a /\ ~(p < a)
      BY <2>2, <2>6, <2>8
    <3>2. Untouched(r, p)
      BY <2>1, <3>1 DEF Untouched
    <3>3. qps_[r][p] = initial(r, p)
      BY <1>1, <3>2 DEF QpsOf
    <3> QED BY <2>4, <2>5, <3>1, <3>3
  <2>9. ASSUME NEW p \in Peers(r), p < a
        PROVE  qps_'[r][p] = modify_to_rts(connected(r, p)') /\ ~(p > a) /\ p # a
    <3>1. p # a /\ ~(p > a)
      BY <2>2, <2>6, <2>9
    <3>2. Passed(r, p)
      BY <2>1, <2>9 DEF Passed
    <3>3. qps_[r][p] = modify_to_rts(connected(r, p))
      BY <1>1, <3>2 DEF QpsOf
    <3> QED BY <2>4, <2>5, <3>1, <3>3
  <2>10. ~(a < a) /\ ~(a > a)
    BY <2>2, <2>6
  <2>11. at'[r] = a /\ \A p \in Peers(r) : p = a => qps_'[r][p] = connected(r, p)'
    BY <2>1, <2>2, <2>4, <2>5
  <2>12. ASSUME NEW p \in Peers(r)
         PROVE  /\ Unmade(r)' => qps_'[r][p] = NoQp
                /\ Untouched(r, p)' => qps_'[r][p] = initial(r, p)'
                /\ HalfWay(r, p)' => qps_'[r][p] = connected(r, p)'
                /\ Passed(r, p)' => qps_'[r][p] = modify_to_rts(connected(r, p)')
    <3>1. /\ ~Unmade(r)' /\ (Untouched(r, p)' => p > a) /\ (HalfWay(r, p)' => p = a)
          /\ Passed(r, p)' => p < a
      BY <2>1, <2>11 DEF Unmade, Untouched, HalfWay, Passed
    <3> HIDE DEF a
    <3> QED BY <2>8, <2>9, <2>11, <3>1, Zenon
  <2>13. QpsOf(r)'
    BY <2>4, <2>12, Zenon DEF QpsOf, NoQp, modify_to_rts, Peers
  <2> QED BY <1>3, <2>3, <2>13
<1>9. ASSUME NEW r \in Proc, ConnectRts(r) PROVE Qps'
  <2> DEFINE a == at[r]
  <2>1. pc[r] = "rts" /\ a \in Peers(r) /\ a \in Nat /\ a + 1 \in Nat
    BY <1>1, <1>9 DEF ConnectRts, ControlOf, Peers, Proc
  <2>2. /\ \A q \in Proc : q # r => pc'[q] = pc[q] /\ at'[q] = at[q]
        /\ \/ pc'[r] = "ready" /\ \A q \in Peers(r) : q < a + 1
           \/ /\ pc'[r] = "rtr" /\ at'[r] \in Peers(r) /\ a + 1 <= at'[r]
              /\ \A q \in Peers(r) : a + 1 <= q => at'[r] <= q
    BY <1>1, <1>9, <2>1, AdvanceGoesOn DEF ConnectRts
  <2>3. qps_' = [qps_ EXCEPT ![r][a] = modify_to_rts(qps_[r][a])]
    BY <1>9 DEF ConnectRts
  <2>4. \A q \in Proc \ {r} : Still(q)
    BY <1>1, <2>2, <2>3
  <2>5. /\ DOMAIN qps_'[r] = Peers(r) /\ qps_'[r][a] = modify_to_rts(qps_[r][a])
        /\ \A p \in Peers(r) \ {a} : qps_'[r][p] = qps_[r][p]
    BY <1>1, <2>1, <2>3 DEF QpsOf
  <2>6. \A p \in Peers(r) : connected(r, p)' = connected(r, p) /\ initial(r, p)' = initial(r, p)
    BY <2>1, ConnectedKept
  <2>7. \A p \in Peers(r) : p \in Nat
    BY DEF Peers, Proc
  <2>8. ASSUME NEW p \in Peers(r), p > a PROVE qps_'[r][p] = initial(r, p)'
    <3>1. p # a
      BY <2>1, <2>7, <2>8
    <3>2. Untouched(r, p)
      BY <2>1, <2>8 DEF Untouched
    <3>3. qps_[r][p] = initial(r, p)
      BY <1>1, <3>2 DEF QpsOf
    <3> QED BY <2>5, <2>6, <3>1, <3>3
  <2>9. ASSUME NEW p \in Peers(r), p <= a PROVE qps_'[r][p] = modify_to_rts(connected(r, p)')
    <3>1. CASE p = a
      <4>1. HalfWay(r, p)
        BY <2>1, <3>1 DEF HalfWay
      <4>2. qps_[r][p] = connected(r, p)
        BY <1>1, <4>1 DEF QpsOf
      <4> QED BY <2>5, <2>6, <3>1, <4>2
    <3>2. CASE p < a
      <4>1. Passed(r, p) /\ p # a
        BY <2>1, <2>7, <3>2 DEF Passed
      <4>2. qps_[r][p] = modify_to_rts(connected(r, p))
        BY <1>1, <4>1 DEF QpsOf
      <4> QED BY <2>5, <2>6, <4>1, <4>2
    <3> QED BY <2>1, <2>7, <2>9, <3>1, <3>2
  <2>10. ASSUME NEW p \in Peers(r)
         PROVE  /\ ~Unmade(r)' /\ (Untouched(r, p)' => p > a) /\ ~HalfWay(r, p)'
                /\ Passed(r, p)' => p <= a
    <3>1. CASE pc'[r] = "ready"
      <4>1. p \in Nat /\ p < a + 1
        BY <2>2, <2>7, <3>1
      <4>2. p <= a
        BY <2>1, <4>1
      <4> QED BY <3>1, <4>2 DEF Unmade, Untouched, HalfWay, Passed
    <3>2. CASE pc'[r] = "rtr"
      <4> DEFINE b == at'[r]
      <4>1. b \in Nat /\ a + 1 <= b /\ (a + 1 <= p => b <= p) /\ p \in Nat
        BY <2>2, <2>7, <3>2
      <4> HIDE DEF b
      <4>2. (p >= b => p > a) /\ (p < b => p <= a)
        BY <2>1, <4>1
      <4> QED BY <3>2, <4>2 DEF Unmade, Untouched, HalfWay, Passed, b
    <3> QED BY <2>2, <3>1, <3>2
  <2>11. ASSUME NEW p \in Peers(r)
         PROVE  /\ Unmade(r)' => qps_'[r][p] = NoQp
                /\ Untouched(r, p)' => qps_'[r][p] = initial(r, p)'
                /\ HalfWay(r, p)' => qps_'[r][p] = connected(r, p)'
                /\ Passed(r, p)' => qps_'[r][p] = modify_to_rts(connected(r, p)')
    BY <2>8, <2>9, <2>10, Zenon
  <2>12. QpsOf(r)'
    BY <2>5, <2>11, Zenon DEF QpsOf, NoQp, modify_to_rts, Peers
  <2> QED BY <1>3, <2>4, <2>12
<1>10. ASSUME NEW r \in Proc, qps_' = qps_, at' = at, \A q \in Proc \ {r} : pc'[q] = pc[q],
              pc[r] \in {"ready", "barrier", "wait"}, pc'[r] \in {"ready", "barrier", "wait"}
       PROVE  Qps'
  <2>1. \A p \in Peers(r) : Passed(r, p) /\ ~Unmade(r)' /\ ~Untouched(r, p)' /\ ~HalfWay(r, p)'
    BY <1>10 DEF Unmade, Untouched, HalfWay, Passed
  <2>2. QpsOf(r)'
    BY <1>10, <2>1, QpsKept
  <2> QED BY <1>3, <1>10, <2>2
<1>11. ASSUME NEW r \in Proc, Barrier(r) PROVE Qps'
  BY <1>1, <1>10, <1>11 DEF Barrier
<1>12. ASSUME NEW r \in Proc, BarrierReturns(r) PROVE Qps'
  BY <1>1, <1>10, <1>12 DEF BarrierReturns
<1>13. ASSUME NEW r \in Proc, Sent(r) PROVE Qps'
  BY <1>1, <1>10, <1>13 DEF Sent
<1>14. ASSUME NEW r \in Proc, NEW p \in Peers(r), Send(r, p) PROVE Qps'
  BY <1>1, <1>10, <1>14 DEF Send
<1>15. ASSUME NEW r \in Proc, Throw(r) PROVE Qps'
  <2>1. pc'[r] = "failed" /\ qps_'[r] = [p \in Peers(r) |-> NoQp]
    BY <1>1, <1>15 DEF Throw
  <2>2. \A q \in Proc \ {r} : Still(q)
    BY <1>1, <1>15 DEF Throw
  <2>3. DOMAIN qps_'[r] = Peers(r) /\ \A p \in Peers(r) : qps_'[r][p] = NoQp
    BY <2>1
  <2>4. QpsOf(r)'
    BY <2>1, <2>3 DEF QpsOf, Untouched, HalfWay, Passed, NoQp, Peers
  <2> QED BY <1>3, <2>2, <2>4
<1>16. ASSUME NEW r \in Proc, Arrive(r) \/ Dropped(r) PROVE Qps'
  BY <1>2, <1>16 DEF Arrive, Dropped, Qps
<1> QED
  BY <1>4, <1>5, <1>6, <1>7, <1>8, <1>9, <1>11, <1>12, <1>13, <1>14, <1>15, <1>16
  DEF Next, Step, Terminating

-----------------------------------------------------------------------------
(* What the queue pairs hold.                                              *)

(***************************************************************************)
(* modify_to_rtr and modify_to_rts, member by member.                      *)
(***************************************************************************)
LEMMA RtrMembers ==
  ASSUME NEW psn, NEW dev, NEW remote
  PROVE  LET q == modify_to_rtr(modify_to_init(psn), dev, remote)
             s == modify_to_rts(q)
         IN  /\ q.state = "RTR" /\ q.local_psn = psn
             /\ s.state = "RTS" /\ s.local_psn = psn /\ s.sq_psn = psn
             /\ q.rq_psn = remote.psn /\ s.rq_psn = remote.psn
             /\ q.dest_qp_num = remote.qp_num /\ s.dest_qp_num = remote.qp_num
             /\ q.av = (IF dev.is_infiniband THEN <<"lid", remote.lid>> ELSE <<"gid", remote.gid>>)
             /\ s.av = q.av
             /\ q.path_mtu = (IF dev.active_mtu < remote.mtu THEN dev.active_mtu ELSE remote.mtu)
             /\ s.path_mtu = q.path_mtu
             /\ q.sgid_index = dev.gid_index /\ s.sgid_index = dev.gid_index
<1> DEFINE av == IF dev.is_infiniband THEN <<"lid", remote.lid>> ELSE <<"gid", remote.gid>>
           mtu == IF dev.active_mtu < remote.mtu THEN dev.active_mtu ELSE remote.mtu
           n == remote.qp_num
           k == remote.psn
           g == dev.gid_index
           i == modify_to_init(psn)
           q == [i EXCEPT !.state = "RTR", !.path_mtu = mtu, !.dest_qp_num = n, !.rq_psn = k,
                          !.av = av, !.sgid_index = g]
           s == [q EXCEPT !.state = "RTS", !.sq_psn = q.local_psn]
           D == {"state", "local_psn", "dest_qp_num", "rq_psn", "sq_psn", "path_mtu", "av",
                 "sgid_index"}
<1>1. modify_to_rtr(i, dev, remote) = q /\ modify_to_rts(q) = s
  BY Zenon DEF modify_to_rtr, modify_to_rts
<1>2. DOMAIN i = D /\ i.local_psn = psn
  <2>1. DOMAIN NoQp = D
    BY DEF NoQp
  <2>2. i = [NoQp EXCEPT !.state = "INIT", !.local_psn = psn]
    BY Zenon DEF modify_to_init
  <2> HIDE DEF i
  <2> QED BY <2>1, <2>2
<1> HIDE DEF av, mtu, n, k, g, i
<1>3. /\ DOMAIN q = D /\ q.state = "RTR" /\ q.local_psn = psn /\ q.rq_psn = k
      /\ q.dest_qp_num = n /\ q.av = av /\ q.path_mtu = mtu /\ q.sgid_index = g
  BY <1>2
<1> HIDE DEF q
<1>4. /\ s.state = "RTS" /\ s.local_psn = psn /\ s.sq_psn = psn /\ s.rq_psn = k
      /\ s.dest_qp_num = n /\ s.av = av /\ s.path_mtu = mtu /\ s.sgid_index = g
  BY <1>3
<1> HIDE DEF s
<1> QED
  BY <1>1, <1>3, <1>4, Zenon DEF av, mtu, n, k, g, i

(* The queue pair of r towards p names its counterpart.                    *)
Names(r, p) ==
  /\ qps_[r][p].local_psn = draw[r][p] /\ qps_[r][p].rq_psn = draw[p][r]
  /\ qps_[r][p].dest_qp_num = qp_num(p, r) /\ qps_[r][p].av = Address(p)
  /\ qps_[r][p].path_mtu = (IF device[r].active_mtu < device[p].active_mtu
                            THEN device[r].active_mtu ELSE device[p].active_mtu)
  /\ qps_[r][p].sgid_index = device[r].gid_index
  /\ qps_[r][p].state = "RTS" => qps_[r][p].sq_psn = draw[r][p]

(***************************************************************************)
(* A queue pair that is connected names its counterpart.                   *)
(***************************************************************************)
LEMMA ConnectedNames ==
  ASSUME CommInv, NEW r \in Proc, NEW p \in Peers(r), HalfWay(r, p) \/ Passed(r, p)
  PROVE  /\ Names(r, p)
         /\ HalfWay(r, p) => qps_[r][p].state = "RTR"
         /\ Passed(r, p) => qps_[r][p].state = "RTS"
<1>1. p \in Proc /\ r \in Peers(p) /\ r # p /\ draw \in Draws /\ host \in Clusters
  BY DEF Peers, CommInv, Control
<1>2. pc[r] \in {"rtr", "rts", "ready", "barrier", "wait"}
  BY DEF HalfWay, Passed
<1>3. /\ device[p] = open_device(host[p], "") /\ device[p] # NoDevice
      /\ device[r] = open_device(host[r], "") /\ device[r] # NoDevice
  BY <1>1, <1>2, PastExchange
<1>4. device[r].is_infiniband = device[p].is_infiniband
  <2>1. Apart(host, r, p, device[r], device[p])
    BY <1>1, <1>3, TwoDevices
  <2> QED BY <2>1, Zenon DEF Apart
<1> DEFINE x == info(p, r)
           c == connected(r, p)
           s == modify_to_rts(c)
<1>5. /\ x.qp_num = qp_num(p, r) /\ x.psn = draw[p][r] /\ x.mtu = device[p].active_mtu
      /\ device[p].is_infiniband => x.lid = device[p].lid
      /\ ~device[p].is_infiniband => x.gid = device[p].gid
  BY <1>1, <1>3, InfoMembers
<1>6. c = modify_to_rtr(modify_to_init(draw[r][p]), device[r], x)
  BY Zenon DEF connected, initial
<1> HIDE DEF x, c
<1>7. /\ c.state = "RTR" /\ c.local_psn = draw[r][p]
      /\ s.state = "RTS" /\ s.local_psn = draw[r][p] /\ s.sq_psn = draw[r][p]
      /\ c.rq_psn = x.psn /\ s.rq_psn = x.psn
      /\ c.dest_qp_num = x.qp_num /\ s.dest_qp_num = x.qp_num
      /\ c.av = (IF device[r].is_infiniband THEN <<"lid", x.lid>> ELSE <<"gid", x.gid>>)
      /\ s.av = c.av
      /\ c.path_mtu = (IF device[r].active_mtu < x.mtu THEN device[r].active_mtu ELSE x.mtu)
      /\ s.path_mtu = c.path_mtu
      /\ c.sgid_index = device[r].gid_index /\ s.sgid_index = device[r].gid_index
  BY <1>6, RtrMembers
<1>8. c.av = Address(p)
  BY <1>4, <1>5, <1>7, Zenon DEF Address
<1>9. QpsOf(r)
  BY DEF CommInv, Qps
<1>10. CASE HalfWay(r, p)
  <2>1. qps_[r][p] = c /\ ~Passed(r, p)
    <3>1. qps_[r][p] = c
      BY <1>9, <1>10, Zenon DEF QpsOf, c
    <3>2. ~(p < p)
      BY <1>1 DEF Proc
    <3>3. ~Passed(r, p)
      BY <1>10, <3>2 DEF HalfWay, Passed
    <3> QED BY <3>1, <3>3
  <2>2. "RTR" # "RTS"
    OBVIOUS
  <2> HIDE DEF s
  <2> QED BY <1>5, <1>7, <1>8, <1>10, <2>1, <2>2, Zenon DEF Names
<1>11. CASE Passed(r, p)
  <2>1. qps_[r][p] = s /\ ~HalfWay(r, p)
    <3>1. qps_[r][p] = s
      BY <1>9, <1>11, Zenon DEF QpsOf, c
    <3>2. ~(p < p)
      BY <1>1 DEF Proc
    <3>3. ~HalfWay(r, p)
      BY <1>11, <3>2 DEF HalfWay, Passed
    <3> QED BY <3>1, <3>3
  <2> HIDE DEF s
  <2> QED BY <1>5, <1>7, <1>8, <1>11, <2>1, Zenon DEF Names
<1> QED
  BY <1>10, <1>11

(***************************************************************************)
(* The states of a queue pair, and where its rank then stands.             *)
(***************************************************************************)
LEMMA QpStates ==
  ASSUME CommInv, NEW r \in Proc, NEW p \in Peers(r)
  PROVE  /\ qps_[r][p].state \in {"RTR", "RTS"} =>
              /\ Names(r, p)
              /\ pc[r] \in {"rtr", "rts", "ready", "barrier", "wait"}
         /\ qps_[r][p].state # "NONE" => qps_[r][p].local_psn = draw[r][p]
         /\ pc[r] \in {"ready", "barrier", "wait"} => qps_[r][p].state = "RTS"
<1>1. QpsOf(r) /\ ControlOf(r)
  BY DEF CommInv, Qps, Control
<1>2. CASE Unmade(r)
  <2>1. qps_[r][p] = NoQp
    BY <1>1, <1>2 DEF QpsOf
  <2>2. NoQp.state = "NONE"
    BY DEF NoQp
  <2> QED BY <1>2, <2>1, <2>2 DEF Unmade
<1>3. CASE Untouched(r, p)
  <2>1. qps_[r][p] = initial(r, p)
    BY <1>1, <1>3 DEF QpsOf
  <2> DEFINE s == draw[r][p]
  <2>2. modify_to_init(s).state = "INIT" /\ modify_to_init(s).local_psn = s
    <3> HIDE DEF s
    <3> QED BY DEF modify_to_init, NoQp
  <2>3. qps_[r][p].state = "INIT" /\ qps_[r][p].local_psn = draw[r][p]
    BY <2>1, <2>2 DEF initial
  <2> QED BY <1>3, <2>3 DEF Untouched
<1>4. CASE HalfWay(r, p) \/ Passed(r, p)
  <2>1. /\ Names(r, p)
        /\ HalfWay(r, p) => qps_[r][p].state = "RTR"
        /\ Passed(r, p) => qps_[r][p].state = "RTS"
    BY <1>4, ConnectedNames
  <2>2. pc[r] \in {"rtr", "rts", "ready", "barrier", "wait"}
    BY <1>4 DEF HalfWay, Passed
  <2>3. pc[r] \in {"ready", "barrier", "wait"} => Passed(r, p)
    BY DEF Passed
  <2>4. qps_[r][p].local_psn = draw[r][p]
    BY <2>1, Zenon DEF Names
  <2> QED BY <2>1, <2>2, <2>3, <2>4, Zenon
<1>5. Unmade(r) \/ Untouched(r, p) \/ HalfWay(r, p) \/ Passed(r, p)
  <2>1. p \in Nat /\ (pc[r] \in {"rtr", "rts"} => at[r] \in Nat)
    BY <1>1 DEF ControlOf, Peers, Proc
  <2>2. pc[r] \in {"rtr", "rts"} => p < at[r] \/ p = at[r] \/ p > at[r]
    BY <2>1
  <2>3. pc[r] \in {"rtr", "rts"} => (p = at[r] \/ p > at[r] => p >= at[r])
    BY <2>1
  <2> QED BY <1>1, <2>2, <2>3, Zenon DEF ControlOf, Unmade, Untouched, HalfWay, Passed
<1> QED
  BY <1>2, <1>3, <1>4, <1>5

-----------------------------------------------------------------------------
(* What follows from CommInv.                                              *)

(***************************************************************************)
(* CommInv implies Connected: both ends were connected with the numbers of *)
(* the other one.                                                          *)
(***************************************************************************)
LEMMA InvConnected == CommInv => Connected
<1> SUFFICES ASSUME CommInv, NEW r \in Proc, NEW p \in Peers(r),
                    qps_[r][p].state \in {"RTR", "RTS"}, qps_[p][r].state # "NONE"
             PROVE  /\ qps_[r][p].av = Address(p) /\ qps_[r][p].dest_qp_num = qp_num(p, r)
                    /\ qps_[r][p].rq_psn = qps_[p][r].local_psn
                    /\ qps_[r][p].path_mtu <= device[p].active_mtu
                    /\ qps_[p][r].state \in {"RTR", "RTS"} =>
                         qps_[r][p].path_mtu = qps_[p][r].path_mtu
                    /\ qps_[p][r].state = "RTS" => qps_[r][p].rq_psn = qps_[p][r].sq_psn
  BY Zenon DEF Connected
<1>1. p \in Proc /\ r \in Peers(p) /\ host \in Clusters
  BY DEF Peers, CommInv, Control
<1>2. Names(r, p) /\ pc[r] \in {"rtr", "rts", "ready", "barrier", "wait"}
  BY QpStates
<1>3. /\ qps_[p][r].local_psn = draw[p][r]
      /\ qps_[p][r].state \in {"RTR", "RTS"} => Names(p, r)
  BY <1>1, QpStates
<1> DEFINE a == device[r].active_mtu
           b == device[p].active_mtu
<1>4. a \in 1 .. 5 /\ b \in 1 .. 5
  <2>1. /\ device[r] = open_device(host[r], "") /\ device[r] # NoDevice
        /\ device[p] = open_device(host[p], "") /\ device[p] # NoDevice
    BY <1>1, <1>2, PastExchange
  <2> QED BY <1>1, <2>1, DeviceRanges
<1>5. qps_[r][p].path_mtu = (IF a < b THEN a ELSE b)
  BY <1>2, Zenon DEF Names
<1>6. qps_[p][r].state \in {"RTR", "RTS"} => qps_[p][r].path_mtu = (IF b < a THEN b ELSE a)
  BY <1>3, Zenon DEF Names
<1> HIDE DEF a, b
<1>7. (IF a < b THEN a ELSE b) = (IF b < a THEN b ELSE a) /\ (IF a < b THEN a ELSE b) <= b
  BY <1>4
<1>8. qps_[r][p].path_mtu <= b
  BY <1>5, <1>7
<1>9. qps_[p][r].state = "RTS" => qps_[p][r].sq_psn = draw[p][r]
  BY <1>3, Zenon DEF Names
<1>10. /\ qps_[r][p].av = Address(p) /\ qps_[r][p].dest_qp_num = qp_num(p, r)
       /\ qps_[r][p].rq_psn = draw[p][r]
  BY <1>2, Zenon DEF Names
<1>11. qps_[p][r].state \in {"RTR", "RTS"} => qps_[r][p].path_mtu = qps_[p][r].path_mtu
  BY <1>5, <1>6, <1>7
<1> QED
  BY <1>3, <1>8, <1>9, <1>10, <1>11, Zenon DEF b

(***************************************************************************)
(* CommInv implies BarrierConnects: who leaves the barrier has waited for  *)
(* every rank to enter it, and a rank enters it after its loop.            *)
(***************************************************************************)
LEMMA InvBarrierConnects == CommInv => BarrierConnects
<1> SUFFICES ASSUME CommInv, NEW r \in Proc, left[r] = 2, NEW q \in Proc, NEW p \in Peers(q),
                    pc[q] # "failed"
             PROVE  qps_[q][p].state = "RTS"
  BY DEF BarrierConnects
<1> DEFINE n == Len(submitted[q])
<1>1. n \in {0, 1, 2} /\ 2 <= n /\ (n = 2 => pc[q] \in {"ready", "barrier", "wait", "failed"})
  BY ExchangeFacts
<1> HIDE DEF n
<1>2. n = 2
  BY <1>1
<1>3. pc[q] \in {"ready", "barrier", "wait"}
  BY <1>1, <1>2
<1> QED
  BY <1>3, QpStates

(***************************************************************************)
(* CommInv implies SameWire.                                               *)
(***************************************************************************)
LEMMA InvSameWire == CommInv => SameWire
<1> SUFFICES ASSUME CommInv, NEW r \in Proc, NEW p \in Peers(r),
                    qps_[r][p].state \in {"RTR", "RTS"}
             PROVE  /\ port_of(r).state = "ACTIVE" /\ port_of(p).state = "ACTIVE"
                    /\ ~is_infiniband(port_of(r)) =>
                         /\ port_of(r).gids[qps_[r][p].sgid_index].type = "RoCE v2"
                         /\ \E i \in DOMAIN port_of(p).gids :
                              port_of(p).gids[i] = [type |-> "RoCE v2", gid |-> qps_[r][p].av[2]]
  BY Zenon DEF SameWire
<1>1. p \in Proc /\ r # p /\ host \in Clusters
  BY DEF Peers, CommInv, Control
<1>2. Names(r, p) /\ pc[r] \in {"rtr", "rts", "ready", "barrier", "wait"}
  BY QpStates
<1>3. /\ device[r] = open_device(host[r], "") /\ device[r] # NoDevice
      /\ device[p] = open_device(host[p], "") /\ device[p] # NoDevice
  BY <1>1, <1>2, PastExchange
<1>4. port_of(r) = PortOf(host, r, device[r]) /\ port_of(p) = PortOf(host, p, device[p])
  BY Zenon DEF port_of, PortOf
<1> DEFINE x == PortOf(host, r, device[r])
           y == PortOf(host, p, device[p])
<1>5. /\ x.state = "ACTIVE" /\ device[r].is_infiniband = is_infiniband(x)
      /\ ~device[r].is_infiniband => x.gids[device[r].gid_index].type = "RoCE v2"
  <2>1. OnPort(host, r, device[r])
    BY <1>1, <1>3, Opened
  <2> QED BY <2>1, Zenon DEF OnPort
<1>6. /\ y \in ports(host, p) /\ y.state = "ACTIVE"
      /\ ~device[p].is_infiniband =>
           /\ device[p].gid_index \in DOMAIN y.gids
           /\ y.gids[device[p].gid_index].type = "RoCE v2"
           /\ device[p].gid = y.gids[device[p].gid_index].gid
  <2>1. OnPort(host, p, device[p])
    BY <1>1, <1>3, Opened
  <2> QED BY <2>1, Zenon DEF OnPort
<1>7. WellFormed(y)
  BY <1>1, <1>6, Fabric
<1>8. device[r].is_infiniband = device[p].is_infiniband
  <2>1. Apart(host, r, p, device[r], device[p])
    BY <1>1, <1>3, TwoDevices
  <2> QED BY <2>1, Zenon DEF Apart
<1> HIDE DEF x, y
<1>9. ASSUME ~is_infiniband(x)
      PROVE  /\ x.gids[qps_[r][p].sgid_index].type = "RoCE v2"
             /\ \E i \in DOMAIN y.gids : y.gids[i] = [type |-> "RoCE v2", gid |-> qps_[r][p].av[2]]
  <2>1. ~device[r].is_infiniband /\ ~device[p].is_infiniband
    BY <1>5, <1>8, <1>9, Zenon
  <2>2. qps_[r][p].sgid_index = device[r].gid_index /\ qps_[r][p].av = Address(p)
    BY <1>2, Zenon DEF Names
  <2>3. Address(p) = <<"gid", device[p].gid>>
    BY <2>1, Zenon DEF Address
  <2>4. qps_[r][p].av[2] = device[p].gid
    BY <2>2, <2>3
  <2> DEFINE i == device[p].gid_index
             e == y.gids[i]
  <2>5. i \in DOMAIN y.gids /\ e.type = "RoCE v2" /\ device[p].gid = e.gid
    BY <1>6, <2>1, Zenon
  <2>6. e \in [type : STRING, gid : Nat]
    BY <1>7, <2>5, Zenon DEF WellFormed
  <2> DEFINE v == device[p].gid
  <2>7. e.type = "RoCE v2" /\ e.gid = v
    BY <2>5
  <2> HIDE DEF e, i, v
  <2>8. e = [type |-> "RoCE v2", gid |-> v]
    BY <2>6, <2>7
  <2>9. e = [type |-> "RoCE v2", gid |-> qps_[r][p].av[2]]
    BY <2>4, <2>8, Zenon DEF v
  <2> QED BY <1>5, <2>1, <2>2, <2>5, <2>9, Zenon DEF e
<1> QED
  BY <1>4, <1>5, <1>6, <1>9, Zenon DEF x, y

-----------------------------------------------------------------------------
(* Every step keeps Messages.                                              *)

(***************************************************************************)
(* The rank of a message that is under way waits for it.                   *)
(***************************************************************************)
LEMMA UnderWay ==
  ASSUME CommInv, NEW s \in Proc, msg[s].state = "sent"
  PROVE  LET p == msg[s].to
         IN  /\ p \in Peers(s) /\ p \in Proc /\ s \in Peers(p) /\ pc[s] = "wait"
             /\ msg[s].after = left[s] /\ left[s] \in {1, 2}
             /\ qps_[s][p].state = "RTS" /\ Names(s, p)
<1> DEFINE p == msg[s].to
<1>1. p \in Peers(s) /\ pc[s] = "wait" /\ msg[s].after = left[s]
  BY DEF CommInv, Messages, MsgOf
<1>2. p \in Proc /\ s \in Peers(p)
  BY <1>1 DEF Peers
<1>3. left[s] \in {1, 2}
  BY <1>1, PastExchange
<1> HIDE DEF p
<1>4. qps_[s][p].state = "RTS" /\ Names(s, p)
  BY <1>1, QpStates
<1> QED
  BY <1>1, <1>2, <1>3, <1>4 DEF p

(***************************************************************************)
(* A packet is taken by the queue pair it is for, or by none: a rank with  *)
(* the same address, and another queue pair of the rank, have other        *)
(* numbers.                                                                *)
(***************************************************************************)
LEMMA OnlyTheRightOne ==
  ASSUME CommInv, NEW s \in Proc, msg[s].state = "sent", NEW d \in Proc, NEW u \in Peers(d),
         Takes(d, u, s)
  PROVE  d = msg[s].to /\ u = s
<1> DEFINE p == msg[s].to
<1>1. p \in Proc /\ s \in Peers(p) /\ Names(s, p) /\ pc[s] = "wait"
  BY UnderWay
<1>2. /\ Address(d) = qps_[s][p].av /\ qp_num(d, u) = qps_[s][p].dest_qp_num
      /\ qps_[d][u].state \in {"RTR", "RTS"}
  BY Zenon DEF Takes
<1> HIDE DEF p
<1>3. Address(d) = Address(p) /\ qp_num(d, u) = qp_num(p, s)
  BY <1>1, <1>2, Zenon DEF Names
<1>4. d = p
  <2> SUFFICES ASSUME d # p PROVE FALSE
    OBVIOUS
  <2>1. /\ device[d] = open_device(host[d], "") /\ device[d] # NoDevice
        /\ device[p] = open_device(host[p], "") /\ device[p] # NoDevice
    BY <1>1, PastExchange
  <2>2. host \in Clusters
    BY DEF CommInv, Control
  <2>3. Apart(host, d, p, device[d], device[p])
    BY <1>1, <2>1, <2>2, TwoDevices
  <2>4. \A a, b : (<<"lid", a>> = <<"lid", b>> => a = b) /\ (<<"gid", a>> = <<"gid", b>> => a = b)
    OBVIOUS
  <2>5. ~DifferentNumbers(host, d, p)
    BY <1>1, <1>3 DEF DifferentNumbers, qp_num
  <2> QED BY <1>3, <2>3, <2>4, <2>5, Zenon DEF Apart, Address
<1>5. u = s
  BY <1>1, <1>3, <1>4, QpNumbers DEF CommInv, Control
<1> QED
  BY <1>4, <1>5 DEF p

(***************************************************************************)
(* A peer that has passed the barrier takes the packet.                    *)
(***************************************************************************)
LEMMA TheRightOneTakes ==
  ASSUME CommInv, NEW s \in Proc, msg[s].state = "sent", left[s] # 1,
         \A q \in Peers(s) : pc[q] # "failed"
  PROVE  \E d \in Proc : \E u \in Peers(d) : Takes(d, u, s)
<1> DEFINE p == msg[s].to
<1>1. /\ p \in Peers(s) /\ p \in Proc /\ s \in Peers(p) /\ left[s] = 2
      /\ Names(s, p) /\ qps_[s][p].state = "RTS"
  BY UnderWay
<1> HIDE DEF p
<1>2. qps_[p][s].state = "RTS"
  BY <1>1, InvBarrierConnects DEF BarrierConnects
<1>3. Names(p, s)
  BY <1>1, <1>2, QpStates
<1>4. Address(p) = qps_[s][p].av /\ qp_num(p, s) = qps_[s][p].dest_qp_num
  BY <1>1, Zenon DEF Names
<1>5. qps_[p][s].rq_psn = qps_[s][p].sq_psn
  BY <1>1, <1>3, Zenon DEF Names
<1>6. qps_[p][s].state \in {"RTR", "RTS"}
  BY <1>2
<1>7. Takes(p, s, s)
  BY <1>4, <1>5, <1>6, Zenon DEF Takes, p
<1> QED
  BY <1>1, <1>7

(***************************************************************************)
(* Every step keeps Messages.                                              *)
(***************************************************************************)
LEMMA MessagesStep == ASSUME CommInv, [Next]_vars PROVE Messages'
<1>1. /\ DOMAIN pc = Proc /\ DOMAIN at = Proc /\ DOMAIN msg = Proc /\ DOMAIN left = Proc
      /\ \A q \in Proc : ControlOf(q) /\ MsgOf(q)
  BY DEF CommInv, Control, Messages
<1>2. \A q \in Proc : pc[q] = "failed" => pc'[q] = "failed"
  BY DeviceStep
<1>3. ASSUME NEW q \in Proc, msg'[q] = msg[q],
             msg[q].state = "sent" => pc'[q] = pc[q] /\ left'[q] = left[q]
      PROVE  MsgOf(q)'
  <2>1. MsgOf(q) /\ Peers(q) \subseteq Proc
    BY <1>1 DEF Peers
  <2> QED BY <1>2, <1>3, <2>1 DEF MsgOf, Peers
<1> DEFINE Still(q) == pc'[q] = pc[q] /\ left'[q] = left[q]
<1>4. ASSUME msg' = msg, NEW r \in Proc, \A q \in Proc \ {r} : Still(q), msg[r].state # "sent"
      PROVE  Messages'
  BY <1>3, <1>4 DEF Messages
<1>5. CASE UNCHANGED vars
  BY <1>3, <1>5 DEF vars, exchange, Messages
<1>6. ASSUME NEW r \in Proc, pc[r] # "wait" PROVE msg[r].state # "sent"
  BY <1>1, <1>6 DEF MsgOf
<1>7. ASSUME NEW r \in Proc, OpenDevice(r) PROVE Messages'
  BY <1>1, <1>4, <1>6, <1>7 DEF OpenDevice, exchange
<1>8. ASSUME NEW r \in Proc, Construct(r) PROVE Messages'
  BY <1>1, <1>4, <1>6, <1>8 DEF Construct, Enter
<1>9. ASSUME NEW r \in Proc, Exchanged(r) PROVE Messages'
  <2>1. \A q \in Proc \ {r} : pc'[q] = pc[q]
    BY <1>1, <1>9, AdvanceGoesOn DEF Exchanged
  <2>2. \A q \in Proc \ {r} : left'[q] = left[q]
    BY <1>1, <1>9 DEF Exchanged, Leave
  <2>3. msg' = msg /\ pc[r] = "exchange"
    BY <1>9 DEF Exchanged
  <2> QED BY <1>4, <1>6, <2>1, <2>2, <2>3
<1>10. ASSUME NEW r \in Proc, ConnectRtr(r) PROVE Messages'
  BY <1>1, <1>4, <1>6, <1>10 DEF ConnectRtr, exchange
<1>11. ASSUME NEW r \in Proc, ConnectRts(r) PROVE Messages'
  <2>1. at[r] + 1 \in Nat
    BY <1>1, <1>11 DEF ConnectRts, ControlOf, Peers, Proc
  <2>2. \A q \in Proc \ {r} : pc'[q] = pc[q]
    BY <1>1, <1>11, <2>1, AdvanceGoesOn DEF ConnectRts
  <2>3. msg' = msg /\ pc[r] = "rts" /\ left' = left
    BY <1>11 DEF ConnectRts, exchange
  <2> QED BY <1>4, <1>6, <2>2, <2>3
<1>12. ASSUME NEW r \in Proc, Barrier(r) PROVE Messages'
  BY <1>1, <1>4, <1>6, <1>12 DEF Barrier, Enter
<1>13. ASSUME NEW r \in Proc, BarrierReturns(r) PROVE Messages'
  BY <1>1, <1>4, <1>6, <1>13 DEF BarrierReturns, Leave
<1>14. ASSUME NEW r \in Proc, Sent(r) PROVE Messages'
  BY <1>1, <1>4, <1>14 DEF Sent, exchange
<1>15. ASSUME NEW r \in Proc, Throw(r) PROVE Messages'
  <2>1. msg[r].state # "sent"
    BY <1>6, <1>15 DEF Throw, ExchangeFails
  <2> QED BY <1>1, <1>4, <1>15, <2>1 DEF Throw, exchange
<1>16. ASSUME NEW r \in Proc, NEW p \in Peers(r), Send(r, p) PROVE Messages'
  <2> DEFINE k == left[r]
  <2>1. msg' = [msg EXCEPT ![r] = [state |-> "sent", to |-> p, tries |-> 0, after |-> k]]
    BY <1>16 DEF Send
  <2>2. pc'[r] = "wait" /\ left' = left /\ \A q \in Proc \ {r} : pc'[q] = pc[q]
    BY <1>1, <1>16 DEF Send, exchange
  <2>3. \A q \in Proc \ {r} : msg'[q] = msg[q]
    BY <1>1, <2>1
  <2>4. msg'[r].state = "sent" /\ msg'[r].to = p /\ msg'[r].after = left'[r]
    BY <1>1, <2>1, <2>2
  <2>5. MsgOf(r)'
    BY <2>2, <2>4 DEF MsgOf, Peers
  <2> QED BY <1>3, <2>2, <2>3, <2>5 DEF Messages
<1>17. ASSUME NEW s \in Proc, Arrive(s) PROVE Messages'
  <2>1. msg[s].state = "sent" /\ pc' = pc /\ left' = left
    BY <1>17 DEF Arrive, exchange
  <2>2. PICK d \in Proc : \E u \in Peers(d) :
          /\ Takes(d, u, s)
          /\ msg' = [msg EXCEPT ![s].state = IF d = msg[s].to /\ u = s THEN "taken" ELSE "strayed"]
    BY <1>17 DEF Arrive
  <2>3. PICK u \in Peers(d) :
          /\ Takes(d, u, s)
          /\ msg' = [msg EXCEPT ![s].state = IF d = msg[s].to /\ u = s THEN "taken" ELSE "strayed"]
    BY <2>2
  <2>4. d = msg[s].to /\ u = s
    BY <2>1, <2>3, OnlyTheRightOne
  <2>5. msg' = [msg EXCEPT ![s].state = "taken"]
    BY <2>3, <2>4
  <2>6. \A q \in Proc \ {s} : msg'[q] = msg[q]
    BY <1>1, <2>5
  <2>7. msg'[s] = [msg[s] EXCEPT !.state = "taken"]
    BY <1>1, <2>5
  <2>8. msg'[s].state \notin {"sent", "strayed", "lost"}
    BY <2>7
  <2>9. MsgOf(s)'
    BY <2>8 DEF MsgOf
  <2> QED BY <1>3, <2>1, <2>6, <2>9 DEF Messages
<1>18. ASSUME NEW s \in Proc, Dropped(s) PROVE Messages'
  <2>1. msg[s].state = "sent" /\ pc' = pc /\ left' = left
    BY <1>18 DEF Dropped, exchange
  <2>2. \A q \in Proc \ {s} : msg'[q] = msg[q]
    BY <1>1, <1>18 DEF Dropped
  <2>3. MsgOf(s) /\ pc[s] = "wait"
    BY <1>1, <2>1 DEF MsgOf
  <2>4. CASE msg'[s] = [msg[s] EXCEPT !.state = "lost"]
    <3>1. left[s] = 1 \/ \E q \in Peers(s) : pc[q] = "failed"
      BY <1>18, <2>1, TheRightOneTakes DEF Dropped
    <3>2. msg'[s].after = left[s] /\ msg'[s].state \in {"lost", "sent"}
      BY <2>1, <2>3, <2>4 DEF MsgOf
    <3>3. msg'[s].to = msg[s].to
      BY <2>4
    <3> QED BY <1>3, <2>1, <2>2, <2>3, <3>1, <3>2, <3>3 DEF Messages, MsgOf, Peers
  <2>5. CASE msg'[s] = [msg[s] EXCEPT !.tries = msg[s].tries + 1]
    <3>1. msg'[s].state = "sent" /\ msg'[s].to = msg[s].to /\ msg'[s].after = msg[s].after
      BY <2>1, <2>5
    <3> QED BY <1>3, <2>1, <2>2, <2>3, <3>1 DEF Messages, MsgOf, Peers
  <2>6. msg' = [msg EXCEPT ![s] = IF msg[s].tries = retry_cnt
                                  THEN [msg[s] EXCEPT !.state = "lost"]
                                  ELSE [msg[s] EXCEPT !.tries = msg[s].tries + 1]]
    BY <1>18 DEF Dropped
  <2> DEFINE a == [msg[s] EXCEPT !.state = "lost"]
             b == [msg[s] EXCEPT !.tries = msg[s].tries + 1]
  <2>7. msg'[s] = a \/ msg'[s] = b
    <3>1. msg' = [msg EXCEPT ![s] = IF msg[s].tries = retry_cnt THEN a ELSE b]
      BY <2>6
    <3> HIDE DEF a, b
    <3> QED BY <1>1, <3>1
  <2> QED BY <2>4, <2>5, <2>7
<1> QED
  BY <1>5, <1>7, <1>8, <1>9, <1>10, <1>11, <1>12, <1>13, <1>14, <1>15, <1>16, <1>17, <1>18
  DEF Next, Step, Terminating

-----------------------------------------------------------------------------
(* The theorems.                                                           *)

(***************************************************************************)
(* CommInv is inductive.  At every point of the constructor, of its        *)
(* barrier and of the first message, a queue pair holds what the devices   *)
(* and random numbers of its two ranks determine, although its rank has    *)
(* seen nothing of the other one but the bytes it was given.               *)
(***************************************************************************)
THEOREM CommInvariant == Spec => []CommInv
<1>1. Init => CommInv
  BY InitInv
<1>2. CommInv /\ [Next]_vars => CommInv'
  <2> SUFFICES ASSUME CommInv, [Next]_vars PROVE CommInv'
    OBVIOUS
  <2>1. Control'
    BY ControlStep
  <2>2. Devices'
    BY DeviceStep
  <2>3. Exchanges'
    BY ExchangesStep
  <2>4. Qps'
    BY QpsStep
  <2>5. Messages'
    BY MessagesStep
  <2> QED
    BY <2>1, <2>2, <2>3, <2>4, <2>5 DEF CommInv
<1> QED
  BY <1>1, <1>2, PTL DEF Spec

(***************************************************************************)
(* The two ends of every pair of queue pairs fit each other: address,      *)
(* number, sequence numbers and path MTU, whatever the order in which the  *)
(* ranks connect (the second loop of Communicator::Communicator).          *)
(***************************************************************************)
THEOREM ConnectedTheorem == Spec => []Connected
BY CommInvariant, InvConnected, PTL

(***************************************************************************)
(* A rank that has returned from the barrier after construction finds      *)
(* every queue pair of every rank that has not failed in RTS.              *)
(***************************************************************************)
THEOREM BarrierConnectsTheorem == Spec => []BarrierConnects
BY CommInvariant, InvBarrierConnects, PTL

(***************************************************************************)
(* No message enters a queue pair of another rank or of another peer, on   *)
(* any fabric whose machines have different addresses and for any number   *)
(* of ranks that share one: address and number together name one queue     *)
(* pair, and what a rank was given names the right one.                    *)
(***************************************************************************)
THEOREM NoStrayTheorem == Spec => []NoStray
<1>1. CommInv => NoStray
  BY DEF CommInv, Messages, MsgOf, NoStray
<1> QED
  BY <1>1, CommInvariant, PTL

(***************************************************************************)
(* A message posted after the barrier is lost only if a peer has failed,   *)
(* whatever retry_cnt is.                                                  *)
(***************************************************************************)
THEOREM NotLostAfterBarrierTheorem == Spec => []NotLostAfterBarrier
<1>1. CommInv => NotLostAfterBarrier
  BY DEF CommInv, Messages, MsgOf, NotLostAfterBarrier
<1> QED
  BY <1>1, CommInvariant, PTL

(***************************************************************************)
(* The two ends are on active ports, and on Ethernet both use a RoCE v2    *)
(* GID of their own table (find_roce_v2_gid_index).                        *)
(***************************************************************************)
THEOREM SameWireTheorem == Spec => []SameWire
BY CommInvariant, InvSameWire, PTL
=============================================================================
