---------------------------- MODULE Communicator ----------------------------
(***************************************************************************)
(* The constructor of Communicator (src/communicator/communicator.cc) on   *)
(* every rank, on the Device opened before it, with the queue pairs it     *)
(* walks through RESET, INIT, RTR, RTS (src/verbs/queue_pair.cc), its      *)
(* barrier, and the first message a rank sends afterwards.                 *)
(*                                                                         *)
(* The bootstrap is its abstract specification, Exchange; what is          *)
(* exchanged is the encoded endpoint info of one queue pair per peer.      *)
(* Ranks leave the exchange at different times and connect their queue     *)
(* pairs at their own pace, so a message can reach a queue pair that is    *)
(* not ready for it.  The adapter drops it and its sender tries again,     *)
(* retry_cnt times.                                                        *)
(***************************************************************************)
EXTENDS Exchange, EndpointInfo, VerbsDevice

CONSTANTS
  Clusters,    \* the possible values of host
  Draws,       \* the possible values of draw
  QpNumber(_, _, _), \* QpNumber(c, r, p): what ibv_create_qp gives r for p on cluster c
  retry_cnt,   \* retransmissions before a sender gives up
  MaxFailures  \* bound on the ranks whose verbs calls fail

Peers(r) == Proc \ {r}

Psn == 0 .. 256 * 256 * 256 - 1

ASSUME CommunicatorAssumption ==
  /\ P \in Nat \ {0}
  /\ Draws \subseteq [Proc -> [Proc -> Psn]]
  /\ retry_cnt \in Nat /\ MaxFailures \in Nat

(* The number of a queue pair has 24 bits, like a PSN, and an adapter      *)
(* hands out none twice.                                                   *)
ASSUME NumberAssumption ==
  \A c \in Clusters : \A r \in Proc : \A p \in Peers(r) :
    /\ QpNumber(c, r, p) \in Psn
    /\ \A u \in Peers(r) : QpNumber(c, r, u) = QpNumber(c, r, p) => u = p

ports(c, r) == UNION {{c[r][i].ports[n] : n \in 1 .. Len(c[r][i].ports)} : i \in 1 .. Len(c[r])}

(* What ibv_query_port and sysfs can report of a port.                     *)
WellFormed(port) ==
  /\ port.active_mtu \in 1 .. 5 /\ port.lid \in uint16_t
  /\ DOMAIN port.gids \subseteq uint8_t
  /\ \A i \in DOMAIN port.gids : port.gids[i] \in [type : STRING, gid : Nat]

List(s) == s \in Seq({s[i] : i \in DOMAIN s})

DifferentAddresses(c, link, r, p) ==
  \A x \in ports(c, r), y \in ports(c, p) :
    IF link = "InfiniBand" THEN x.lid # y.lid
    ELSE \A i \in DOMAIN x.gids, j \in DOMAIN y.gids : x.gids[i].gid # y.gids[j].gid

DifferentNumbers(c, r, p) ==
  \A u \in Peers(r), v \in Peers(p) : QpNumber(c, r, u) # QpNumber(c, p, v)

(* The ranks are on one fabric, InfiniBand or RoCE.  Two of them are on    *)
(* different machines, which have no LID or GID in common, or share the    *)
(* adapters of one (as in integration_allreduce_4rank.cc), which number    *)
(* their queue pairs without repetition.  phys_port_cnt is a uint8_t.      *)
ASSUME FabricAssumption ==
  \A c \in Clusters : \E link \in {"InfiniBand", "Ethernet"} : \A r \in Proc :
    /\ List(c[r])
    /\ \A i \in 1 .. Len(c[r]) : List(c[r][i].ports) /\ Len(c[r][i].ports) \in uint8_t
    /\ \A x \in ports(c, r) : WellFormed(x) /\ x.link_layer = link
    /\ \A p \in Peers(r) : DifferentAddresses(c, link, r, p) \/ DifferentNumbers(c, r, p)

VARIABLES
  draw,     \* draw[r][p]: what the random generator of r gives for p
  host,     \* host[r]: the adapters of the machine of rank r
  device,   \* device[r]: the device and port it has opened
  pc,       \* pc[r]: where r stands
  at,       \* at[r]: the peer its connecting loop stands at
  qps_,     \* qps_[r][p]: the queue pair of r towards p
  msg,      \* msg[r]: the first message r sends
  failures  \* ranks that have failed on their own

vars == <<exchange, draw, host, device, pc, at, qps_, msg, failures>>

-----------------------------------------------------------------------------
(* The queue pairs.                                                        *)
qp_num(r, p) == QpNumber(host, r, p)

NoQp == [state |-> "NONE", local_psn |-> 0, dest_qp_num |-> 0, rq_psn |-> 0,
         sq_psn |-> 0, path_mtu |-> 0, av |-> <<"none", 0>>, sgid_index |-> None]

generate_psn(r, p) == draw[r][p]

modify_to_init(psn) == [NoQp EXCEPT !.state = "INIT", !.local_psn = psn]

(* Bug: the number of the first queue pair is reported for all of them.    *)
local_info_FirstQp(r, p, psn) ==
  LET d == device[r]
      first_peer == CHOOSE q \in Peers(r) : \A u \in Peers(r) : q <= u
  IN  [rank |-> r, qp_num |-> qp_num(r, first_peer), psn |-> psn, port_num |-> d.port_num,
       mtu |-> d.active_mtu, lid |-> d.lid, gid_index |-> d.gid_index, gid |-> d.gid]

(* A device has a LID or a GID; info{} leaves the other one 0.             *)
local_info(r, p, psn) ==
  LET d == device[r]
      ib(x) == IF d.is_infiniband THEN x ELSE 0
      roce(x) == IF d.is_infiniband THEN 0 ELSE x
  IN  [rank |-> r, qp_num |-> qp_num(r, p), psn |-> psn, port_num |-> d.port_num,
       mtu |-> d.active_mtu, lid |-> ib(d.lid), gid_index |-> roce(d.gid_index),
       gid |-> roce(d.gid)]

(* Bug: the path takes this side's MTU.                                    *)
modify_to_rtr_LocalMtu(qp, dev, remote) ==
  [qp EXCEPT !.state = "RTR", !.path_mtu = dev.active_mtu,
             !.dest_qp_num = remote.qp_num, !.rq_psn = remote.psn,
             !.av = IF dev.is_infiniband THEN <<"lid", remote.lid>>
                                         ELSE <<"gid", remote.gid>>,
             !.sgid_index = dev.gid_index]

modify_to_rtr(qp, dev, remote) ==
  [qp EXCEPT !.state = "RTR",
             !.path_mtu = IF dev.active_mtu < remote.mtu THEN dev.active_mtu
                                                         ELSE remote.mtu,
             !.dest_qp_num = remote.qp_num, !.rq_psn = remote.psn,
             !.av = IF dev.is_infiniband THEN <<"lid", remote.lid>>
                                         ELSE <<"gid", remote.gid>>,
             !.sgid_index = dev.gid_index]

modify_to_rts(qp) == [qp EXCEPT !.state = "RTS", !.sq_psn = qp.local_psn]

-----------------------------------------------------------------------------
(* The ranks.                                                              *)
NoMessage == [state |-> "none", to |-> 0, tries |-> 0, after |-> 0]

Init ==
  /\ draw \in Draws /\ host \in Clusters
  /\ device = [r \in Proc |-> NoDevice]
  /\ ExchangeInit([p \in Proc |-> p])
  /\ pc = [r \in Proc |-> "main"]
  /\ at = [r \in Proc |-> 0]
  /\ qps_ = [r \in Proc |-> [p \in Peers(r) |-> NoQp]]
  /\ msg = [r \in Proc |-> NoMessage]
  /\ failures = 0

(* Device device; no caller names one.  A rank without a device is gone    *)
(* before it has joined the bootstrap.                                     *)
OpenDevice(r) ==
  /\ pc[r] = "main"
  /\ device' = [device EXCEPT ![r] = open_device(host[r], "")]
  /\ pc' = [pc EXCEPT ![r] = IF device'[r] = NoDevice THEN "no_device" ELSE "start"]
  /\ UNCHANGED <<exchange, draw, host, at, qps_, msg, failures>>

(* The first loop, which nobody can observe, and the exchange is begun.    *)
Construct(r) ==
  /\ pc[r] = "start"
  /\ qps_' = [qps_ EXCEPT ![r] =
                [p \in Peers(r) |-> modify_to_init(generate_psn(r, p))]]
  /\ Enter(r, [p \in Peers(r) |->
                encode_endpoint_info(local_info(r, p, generate_psn(r, p)))])
  /\ pc' = [pc EXCEPT ![r] = "exchange"]
  /\ UNCHANGED <<draw, host, device, at, msg, failures>>

(* Bug: the loop stops before the last peer.                               *)
peers_from_OneShort(r, p) == {q \in Peers(r) : p <= q /\ q < P - 1}

(* The peers the second loop still has to connect when it stands at p.     *)
peers_from(r, p) == {q \in Peers(r) : p <= q}

(* The loop goes to its next peer, or the constructor returns.             *)
Advance(r, p) ==
  IF peers_from(r, p) = {}
  THEN pc' = [pc EXCEPT ![r] = "ready"] /\ UNCHANGED at
  ELSE /\ pc' = [pc EXCEPT ![r] = "rtr"]
       /\ at' = [at EXCEPT ![r] = CHOOSE q \in peers_from(r, p) :
                                    \A s \in peers_from(r, p) : q <= s]

Exchanged(r) ==
  /\ pc[r] = "exchange"
  /\ Leave(r)
  /\ Advance(r, 0)
  /\ UNCHANGED <<draw, host, device, qps_, msg, failures>>

ConnectRtr(r) ==
  LET p == at[r]
  IN  /\ pc[r] = "rtr"
      /\ qps_' = [qps_ EXCEPT ![r][p] =
                    modify_to_rtr(@, device[r], decode_endpoint_info(result[r][p]))]
      /\ pc' = [pc EXCEPT ![r] = "rts"]
      /\ UNCHANGED <<exchange, draw, host, device, at, msg, failures>>

ConnectRts(r) ==
  /\ pc[r] = "rts"
  /\ qps_' = [qps_ EXCEPT ![r][at[r]] = modify_to_rts(@)]
  /\ Advance(r, at[r] + 1)
  /\ UNCHANGED <<exchange, draw, host, device, msg, failures>>

(* barrier(); the model makes one of them.                                 *)
Barrier(r) ==
  /\ pc[r] = "ready" /\ Len(submitted[r]) = 1
  /\ Enter(r, <<>>)
  /\ pc' = [pc EXCEPT ![r] = "barrier"]
  /\ UNCHANGED <<draw, host, device, at, qps_, msg, failures>>

BarrierReturns(r) ==
  /\ pc[r] = "barrier"
  /\ Leave(r)
  /\ pc' = [pc EXCEPT ![r] = "ready"]
  /\ UNCHANGED <<draw, host, device, at, qps_, msg, failures>>

(* transport::send, before or after the barrier: the rank posts its first  *)
(* message and waits.                                                      *)
Send(r, p) ==
  /\ pc[r] = "ready" /\ msg[r].state = "none"
  /\ qps_[r][p].state = "RTS"
  /\ msg' = [msg EXCEPT ![r] = [state |-> "sent", to |-> p, tries |-> 0,
                                after |-> left[r]]]
  /\ pc' = [pc EXCEPT ![r] = "wait"]
  /\ UNCHANGED <<exchange, draw, host, device, at, qps_, failures>>

(* wait_completion returns or throws.                                      *)
Sent(r) ==
  /\ pc[r] = "wait" /\ msg[r].state \in {"taken", "strayed"}
  /\ pc' = [pc EXCEPT ![r] = "ready"]
  /\ UNCHANGED <<exchange, draw, host, device, at, qps_, msg, failures>>

(* Bug: the end of a connection is not an error.                           *)
ExchangeFails_Never(r) == FALSE

(* Without rank 0 nobody can join; rank 0 waits for any other rank.        *)
ExchangeFails(r) ==
  /\ pc[r] \in {"exchange", "barrier"}
  /\ pc[0] = "no_device" \/ \E q \in Proc : pc[q] = "failed"

(* A verbs call fails and check_rc throws, the exchange fails because      *)
(* another rank has gone, or the send has failed: the queue pairs are      *)
(* destroyed.                                                              *)
Throw(r) ==
  /\ \/ /\ pc[r] \in {"start", "rtr", "rts"} /\ failures < MaxFailures
        /\ failures' = failures + 1
     \/ ExchangeFails(r) /\ UNCHANGED failures
     \/ pc[r] = "wait" /\ msg[r].state = "lost" /\ UNCHANGED failures
  /\ pc' = [pc EXCEPT ![r] = "failed"]
  /\ qps_' = [qps_ EXCEPT ![r] = [p \in Peers(r) |-> NoQp]]
  /\ UNCHANGED <<exchange, draw, host, device, at, msg>>

-----------------------------------------------------------------------------
(* The adapters.  A packet goes to the queue pair its address and number   *)
(* name, which takes it when it is ready and expects its sequence number   *)
(* (for a receive it then waits without limit, see Transport).             *)
Address(r) == IF device[r].is_infiniband THEN <<"lid", device[r].lid>>
                                         ELSE <<"gid", device[r].gid>>

Takes(d, u, s) ==
  LET from == qps_[s][msg[s].to]
  IN  /\ Address(d) = from.av /\ qp_num(d, u) = from.dest_qp_num
      /\ qps_[d][u].state \in {"RTR", "RTS"}
      /\ qps_[d][u].rq_psn = from.sq_psn

Arrive(s) ==
  /\ msg[s].state = "sent"
  /\ \E d \in Proc : \E u \in Peers(d) :
       /\ Takes(d, u, s)
       /\ msg' = [msg EXCEPT ![s].state =
                    IF d = msg[s].to /\ u = s THEN "taken" ELSE "strayed"]
  /\ UNCHANGED <<exchange, draw, host, device, pc, at, qps_, failures>>

(* Nobody takes it: it is sent again, and after retry_cnt times completes  *)
(* with an error.                                                          *)
Dropped(s) ==
  /\ msg[s].state = "sent"
  /\ ~\E d \in Proc : \E u \in Peers(d) : Takes(d, u, s)
  /\ msg' = [msg EXCEPT ![s] = IF @.tries = retry_cnt
                               THEN [@ EXCEPT !.state = "lost"]
                               ELSE [@ EXCEPT !.tries = msg[s].tries + 1]]
  /\ UNCHANGED <<exchange, draw, host, device, pc, at, qps_, failures>>

Step(r) ==
  \/ OpenDevice(r) \/ Construct(r) \/ Exchanged(r) \/ ConnectRtr(r) \/ ConnectRts(r)
  \/ Barrier(r) \/ BarrierReturns(r) \/ Sent(r) \/ Throw(r)
  \/ \E p \in Peers(r) : Send(r, p)

Over(r) ==
  \/ pc[r] \in {"failed", "no_device"}
  \/ pc[r] = "ready" /\ left[r] = 2 /\ msg[r].state # "none"

Terminating == (\A r \in Proc : Over(r)) /\ UNCHANGED vars

Next == (\E r \in Proc : Step(r) \/ Arrive(r) \/ Dropped(r)) \/ Terminating

(* Every rank runs; every adapter transmits what it holds.                 *)
Fairness == \A r \in Proc : WF_vars(Step(r)) /\ WF_vars(Arrive(r) \/ Dropped(r))

Spec == Init /\ [][Next]_vars
FairSpec == Spec /\ Fairness

-----------------------------------------------------------------------------
(***************************************************************************)
(* As soon as a queue pair is in RTR it names its counterpart and expects  *)
(* exactly the sequence number the counterpart will begin with ("local_psn *)
(* must be the same value advertised to the peer", queue_pair.hpp), and    *)
(* the two ends use one path MTU that neither port exceeds, although each  *)
(* computed it alone, from bytes that passed through rank 0.               *)
(***************************************************************************)
Connected ==
  \A r \in Proc : \A p \in Peers(r) :
    LET mine == qps_[r][p]
        theirs == qps_[p][r]
    IN  mine.state \in {"RTR", "RTS"} /\ theirs.state # "NONE" =>
          /\ mine.av = Address(p) /\ mine.dest_qp_num = qp_num(p, r)
          /\ mine.rq_psn = theirs.local_psn
          /\ mine.path_mtu <= device[p].active_mtu
          /\ theirs.state \in {"RTR", "RTS"} => mine.path_mtu = theirs.path_mtu
          /\ theirs.state = "RTS" => mine.rq_psn = theirs.sq_psn

(***************************************************************************)
(* One barrier after construction is what makes the mesh usable: a rank    *)
(* that has returned from it finds every queue pair of every rank that is  *)
(* still there in RTS.                                                     *)
(***************************************************************************)
BarrierConnects ==
  \A r \in Proc : left[r] = 2 =>
    \A q \in Proc : \A p \in Peers(q) : pc[q] # "failed" => qps_[q][p].state = "RTS"

(***************************************************************************)
(* A message never enters a queue pair that belongs to another peer,       *)
(* although numbers and sequence numbers coincide between ranks.           *)
(***************************************************************************)
NoStray == \A r \in Proc : msg[r].state # "strayed"

(***************************************************************************)
(* A message posted after the barrier is not lost to a peer that is not    *)
(* ready; one posted straight after construction can be, when its peer     *)
(* takes longer than the retries to connect.                               *)
(***************************************************************************)
NotLostAfterBarrier ==
  \A r \in Proc : msg[r].state = "lost" =>
    msg[r].after = 1 \/ \E q \in Peers(r) : pc[q] = "failed"

port_of(r) == host[r][device[r].adapter].ports[device[r].port_num]

(***************************************************************************)
(* The two ends of a queue pair are on active ports and, on Ethernet, both *)
(* speak RoCE v2, wherever the tables of the two machines have their RoCE  *)
(* v2 entries: a hardcoded index "would silently break on NICs where index *)
(* 0 is an IPv6 link-local entry" (device.cc).                             *)
(***************************************************************************)
SameWire ==
  \A r \in Proc : \A p \in Peers(r) : qps_[r][p].state \in {"RTR", "RTS"} =>
    LET mine == port_of(r)
        theirs == port_of(p)
    IN  /\ mine.state = "ACTIVE" /\ theirs.state = "ACTIVE"
        /\ ~is_infiniband(mine) =>
             /\ mine.gids[qps_[r][p].sgid_index].type = "RoCE v2"
             /\ \E i \in DOMAIN theirs.gids :
                  theirs.gids[i] = [type |-> "RoCE v2", gid |-> qps_[r][p].av[2]]

(***************************************************************************)
(* Construction ends on every rank, barrier and first message included, in *)
(* an error if need be: no rank is left waiting for one that failed, but   *)
(* all wait for a rank other than 0 that has no device and never joins.    *)
(***************************************************************************)
AllOver ==
  <>(\/ \A r \in Proc : Over(r)
     \/ \E q \in Proc \ {0} : pc[q] = "no_device")

(***************************************************************************)
(* "dev_name empty => pick the first device with an active port"           *)
(* (device.hpp): where every machine has such a device, every rank opens   *)
(* one.                                                                    *)
(***************************************************************************)
PicksActiveDevice ==
  \A r \in Proc : pc[r] = "no_device" =>
    \A i \in 1 .. Len(host[r]) : find_active_port(host[r][i]) = None
=============================================================================
