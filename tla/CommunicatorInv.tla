-------------------------- MODULE CommunicatorInv ---------------------------
(***************************************************************************)
(* The inductive invariant of the construction of a Communicator.          *)
(*                                                                         *)
(* No rank ever sees the state of another one: it connects each of its     *)
(* queue pairs with the bytes the exchange gave it.  The invariant says    *)
(* what every queue pair holds at every point of the constructor, in terms *)
(* of the devices and the random numbers of the two ranks; that both ends  *)
(* fit each other follows.                                                 *)
(***************************************************************************)
EXTENDS Communicator

ControlOf(r) ==
  /\ pc[r] \in {"main", "no_device", "start", "exchange", "rtr", "rts", "ready",
                "barrier", "wait", "failed"}
  /\ pc[r] \in {"rtr", "rts"} => at[r] \in Peers(r)

Control ==
  /\ draw \in Draws /\ host \in Clusters /\ rank_of = [p \in Proc |-> p]
  /\ DOMAIN pc = Proc /\ DOMAIN at = Proc /\ DOMAIN device = Proc /\ DOMAIN qps_ = Proc
  /\ DOMAIN msg = Proc /\ DOMAIN submitted = Proc /\ DOMAIN left = Proc /\ DOMAIN result = Proc
  /\ \A r \in Proc : ControlOf(r)

(* A rank that got past opening its device has one.                        *)
DeviceOf(r) ==
  pc[r] \notin {"main", "no_device"} =>
    device[r] = open_device(host[r], "") /\ device[r] # NoDevice

Devices == \A r \in Proc : DeviceOf(r)

-----------------------------------------------------------------------------
(* The exchanges: what a rank has submitted and what it was given.         *)
info(r, p) == local_info(r, p, draw[r][p])
infos(r) == [p \in Peers(r) |-> encode_endpoint_info(info(r, p))]

SubmittedOf(r) ==
  /\ submitted[r] = <<>> \/ submitted[r] \in {<<infos(r)>>, <<infos(r), <<>>>>}
  /\ pc[r] \in {"main", "no_device", "start"} => submitted[r] = <<>>
  /\ left[r] \in 0 .. Len(submitted[r])
  /\ pc[r] = "exchange" => Len(submitted[r]) = 1 /\ left[r] = 0
  /\ pc[r] \in {"rtr", "rts"} => Len(submitted[r]) = 1 /\ left[r] = 1
  /\ pc[r] \in {"ready", "wait"} => left[r] = Len(submitted[r]) /\ left[r] >= 1
  /\ pc[r] = "barrier" => Len(submitted[r]) = 2 /\ left[r] = 1

GivenOf(r) ==
  /\ left[r] = 1 => result[r] = [p \in Peers(r) |-> infos(p)[r]]
  /\ \A q \in Proc : left[r] <= Len(submitted[q])

Exchanges == \A r \in Proc : SubmittedOf(r) /\ GivenOf(r)

-----------------------------------------------------------------------------
(* The queue pairs.  The loop of r has passed peer p, or stands at it.     *)
initial(r, p) == modify_to_init(draw[r][p])
connected(r, p) == modify_to_rtr(initial(r, p), device[r], info(p, r))

Unmade(r) == pc[r] \in {"main", "no_device", "start", "failed"}
Untouched(r, p) ==
  \/ pc[r] = "exchange"
  \/ pc[r] = "rtr" /\ p >= at[r]
  \/ pc[r] = "rts" /\ p > at[r]
HalfWay(r, p) == pc[r] = "rts" /\ p = at[r]
Passed(r, p) ==
  \/ pc[r] \in {"rtr", "rts"} /\ p < at[r]
  \/ pc[r] \in {"ready", "barrier", "wait"}

QpsOf(r) ==
  /\ DOMAIN qps_[r] = Peers(r)
  /\ \A p \in Peers(r) :
       /\ Unmade(r) => qps_[r][p] = NoQp
       /\ Untouched(r, p) => qps_[r][p] = initial(r, p)
       /\ HalfWay(r, p) => qps_[r][p] = connected(r, p)
       /\ Passed(r, p) => qps_[r][p] = modify_to_rts(connected(r, p))

Qps == \A r \in Proc : QpsOf(r)

-----------------------------------------------------------------------------
(* The first message.                                                      *)
MsgOf(r) ==
  /\ msg[r].state = "sent" =>
       pc[r] = "wait" /\ msg[r].to \in Peers(r) /\ msg[r].after = left[r]
  /\ msg[r].state # "strayed"
  /\ msg[r].state = "lost" => msg[r].after = 1 \/ \E q \in Peers(r) : pc[q] = "failed"

Messages == \A r \in Proc : MsgOf(r)

(***************************************************************************)
(* The invariant of Communicator::Communicator, its barrier and the first  *)
(* message.                                                                *)
(***************************************************************************)
CommInv == Control /\ Devices /\ Exchanges /\ Qps /\ Messages
=============================================================================
