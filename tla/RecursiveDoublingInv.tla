------------------------ MODULE RecursiveDoublingInv ------------------------
(***************************************************************************)
(* The inductive invariant behind the properties of recursive doubling.    *)
(*                                                                         *)
(* Two ranks are partners in at most one step, and in that step of a call  *)
(* each sends the other one message: what has passed between them is the   *)
(* same step of the same call on both sides (Paired).  A rank that has     *)
(* reached step k has therefore heard of the 2^k ranks that agree with it  *)
(* from bit k on, its block, and of nobody else: they have all entered     *)
(* this call with the count it passed (Heard), and what it holds is the    *)
(* tree over their contributions (Values).                                 *)
(***************************************************************************)
EXTENDS RecursiveDoubling

TypeOK ==
  /\ args \in [Rank -> Arg]
  /\ round \in [Rank -> 0 .. MaxRounds]
  /\ step \in [Rank -> Nat]
  /\ pc \in [Rank -> {"idle", "post_recv", "post_send", "wait_send", "wait_recv",
                      "threw", "exited", "finished"}]
  /\ TransportTypeOK

InCall(r) == pc[r] \in {"post_recv", "post_send", "wait_send", "wait_recv"}
Alive(r) == pc[r] = "idle" \/ InCall(r)

peer(r) == partner(r, step[r])

(* Control: a rank is in a call only with arguments that were accepted.    *)
ControlOf(r) ==
  /\ InCall(r) => P > 1 /\ step[r] < steps /\ round[r] > 0
  /\ InCall(r) \/ Returned(r) => ~bad_arguments(r)
  /\ pc[r] = "finished" => round[r] = MaxRounds

Control == \A r \in Rank : ControlOf(r)

-----------------------------------------------------------------------------
(* Queues: what the adapter holds for a rank, over all its QPs, is one     *)
(* request to its partner or the completion of it.                         *)
send_request(r) == sge("data", 0, args[r].count)
recv_request(r) == sge("scratch", 0, args[r].count)

Only(q, cq, p, wr) ==
  /\ Len(cq) <= 1
  /\ \A o \in Rank : q[o] # <<>> => o = p /\ q[o] = <<wr>> /\ cq = <<>>

Busy(q, cq) == cq # <<>> \/ \E o \in Rank : q[o] # <<>>

SendPending(r) == pc[r] = "wait_send"
RecvPending(r) == pc[r] \in {"post_send", "wait_send", "wait_recv"}

SendQueueOf(r) ==
  /\ Only(sq[r], send_cq[r], peer(r), send_request(r))
  /\ SendPending(r) <=> Busy(sq[r], send_cq[r])
  /\ \A p \in Rank : response[r][p] # "none" => sq[r][p] # <<>>

SendQueue == \A r \in Rank : SendQueueOf(r)

(* A rank that threw at the wait for its send leaves the receive behind.   *)
RecvQueueOf(r) ==
  /\ Only(rq[r], recv_cq[r], peer(r), recv_request(r))
  /\ pc[r] # "threw" => (RecvPending(r) <=> Busy(rq[r], recv_cq[r]))

RecvQueue == \A r \in Rank : RecvQueueOf(r)

Discipline == TypeOK /\ Control /\ SendQueue /\ RecvQueue

-----------------------------------------------------------------------------
(* Has the message of step k of round it left r, or reached r?             *)
Sent(r, it, k) ==
  \/ it < round[r]
  \/ it = round[r] /\ (pc[r] = "idle" \/ k < step[r])
  \/ /\ it = round[r] /\ k = step[r]
     /\ \/ pc[r] = "wait_recv"
        \/ pc[r] = "wait_send" /\ (send_cq[r] # <<>> \/ response[r][peer(r)] # "none")

Received(r, it, k) ==
  \/ it < round[r]
  \/ it = round[r] /\ (pc[r] = "idle" \/ k < step[r])
  \/ it = round[r] /\ k = step[r] /\ RecvPending(r) /\ recv_cq[r] # <<>>

Linked(s, d) == Alive(s) /\ Alive(d) /\ qp[s][d] = "RTS" /\ qp[d][s] = "RTS"

(* Partners that can still talk agree on what has passed between them.     *)
PairedOf(s) ==
  \A k \in 0 .. steps - 1 :
    Linked(s, partner(s, k)) =>
      \A it \in 1 .. MaxRounds : Sent(s, it, k) <=> Received(partner(s, k), it, k)

Paired == is_power_of_two => \A s \in Rank : PairedOf(s)

-----------------------------------------------------------------------------
Block(r, k) == {s \in Rank : s \div bit[k] = r \div bit[k]}

Landed(r) == RecvPending(r) /\ recv_cq[r] # <<>> /\ wc(recv_cq, r).status = "SUCCESS"

(* The ranks of S have entered the call r is in, with p's count.           *)
Entered(S, r, p) ==
  \A s \in S : round[s] >= round[r] /\ ~bad_arguments(s) /\ args[s].count = args[p].count

HeardOf(r) ==
  /\ InCall(r) => Entered(Block(r, step[r]), r, r)
  /\ InCall(r) /\ Landed(r) =>
       /\ Entered(Block(peer(r), step[r]), r, peer(r))
       /\ wc(recv_cq, r).byte_len = args[peer(r)].count % SgeLimit
  /\ Returned(r) => Entered(Rank, r, r)

Heard == LengthsTell => \A r \in Rank : HeardOf(r)

(* The contents of data, and of scratch where a message is in it.          *)
ValuesOf(r) ==
  \A e \in Index :
    /\ InCall(r) /\ e < args[r].count =>
         mem[r]["data"][e] = Tree(round[r], e)[step[r]][r]
    /\ InCall(r) /\ Landed(r) /\ e < wc(recv_cq, r).byte_len =>
         mem[r]["scratch"][e] = Tree(round[r], e)[step[r]][peer(r)]
    /\ Returned(r) /\ e < args[r].count =>
         mem[r]["data"][e] = TreeFold(round[r], e)[r]

Values == \A r \in Rank : ValuesOf(r)

(***************************************************************************)
(* The invariant of allreduce_recursive_doubling.                          *)
(***************************************************************************)
DoublingInv == Discipline /\ Paired /\ Heard /\ Values

-----------------------------------------------------------------------------
(* Nothing has gone wrong at a rank.                                       *)
HealthyOf(r) ==
  /\ \A p \in Rank : qp[r][p] = "RTS"
  /\ send_cq[r] # <<>> => wc(send_cq, r).status = "SUCCESS"
  /\ recv_cq[r] # <<>> => wc(recv_cq, r).status = "SUCCESS"

(* A send has failed, and the rank is about to see it.                     *)
SendFailed(r) == pc[r] = "wait_send" /\ completion_error(send_cq, r)

(***************************************************************************)
(* The invariant behind OnlyLastCallThrows: no message is refused, nothing *)
(* goes wrong before a rank has left, and afterwards only a send can fail. *)
(***************************************************************************)
Sound ==
  WellCalled => \A r \in Rank :
    /\ \A p \in Rank : response[r][p] # "nak"
    /\ Alive(r) => HealthyOf(r) \/ (SendFailed(r) /\ Left)
    /\ Alive(r) \/ Left

-----------------------------------------------------------------------------
(* A reduction that is closed on the values the ranks bring and does not   *)
(* mind which of two ranks computes it.                                    *)
Commutes(V) ==
  /\ \A r \in Rank, it \in 1 .. MaxRounds, e \in Index : Input(r, it, e) \in V
  /\ \A x, y \in V : Op(x, y) \in V /\ Op(x, y) = Op(y, x)
=============================================================================
