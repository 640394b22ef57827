----------------------------- MODULE Transport ------------------------------
(***************************************************************************)
(* The two-sided data path of micro-ccl: transport.cc (post_send,          *)
(* post_recv, wait_completion) over the reliable-connected queue pairs of  *)
(* a Communicator.                                                         *)
(*                                                                         *)
(* Every rank owns one QP per peer and ONE send and ONE receive completion *)
(* queue for all of them (communicator.hpp).  The calls only append work   *)
(* requests and take completions; the data moves in steps of the adapter   *)
(* (Deliver, Complete, ...), at any later time and in any order between    *)
(* ranks.  The adapter is not part of the repository: its actions are the  *)
(* behaviour queue_pair.cc asks of it (an RC QP, rnr_retry 7 = wait for    *)
(* ever for a receive, retry_cnt 7 = give up on a peer that is silent) and *)
(* transport.hpp relies on (a message longer than the receive never        *)
(* overruns it).  Payload is read from the sender's memory when the        *)
(* message is delivered, not when it is posted.                            *)
(*                                                                         *)
(* Lengths and offsets are in elements of the collective's dtype.          *)
(***************************************************************************)
EXTENDS Integers, Sequences

CONSTANTS
  P,         \* Communicator::size()
  Span,      \* elements of memory behind a buffer, for both buffers
  SgeLimit   \* elements in 2^32 bytes: what wraps ibv_sge.length

ASSUME PAssumption == P \in Nat \ {0}
ASSUME SpanAssumption == Span \in Nat
ASSUME SgeLimitAssumption == SgeLimit \in Nat \ {0}

Rank == 0 .. P - 1
Index == 0 .. Span - 1
Buffer == {"data", "scratch"}

VARIABLES
  mem,       \* mem[r][b][e]: element e of buffer b of rank r
  qp,        \* qp[r][p]: state of the QP of r towards p
  sq, rq,    \* sq[r][p], rq[r][p]: its outstanding work requests, in order
  response,  \* response[r][p]: the ACK or NAK on its way to the head of sq[r][p]
  send_cq, recv_cq   \* send_cq[r], recv_cq[r]: completions not yet polled

nic == <<qp, sq, rq, response, send_cq, recv_cq>>

TransportInit ==
  /\ qp = [r \in Rank |-> [p \in Rank |-> "RTS"]]
  /\ sq = [r \in Rank |-> [p \in Rank |-> <<>>]]
  /\ rq = [r \in Rank |-> [p \in Rank |-> <<>>]]
  /\ response = [r \in Rank |-> [p \in Rank |-> "none"]]
  /\ send_cq = [r \in Rank |-> <<>>]
  /\ recv_cq = [r \in Rank |-> <<>>]

-----------------------------------------------------------------------------
(* The calls.  ibv_sge.length is a uint32_t: a longer request is truncated. *)
sge(buf, off, len) == [buf |-> buf, off |-> off, len |-> len % SgeLimit]

post_send(r, p, buf, off, len) ==
  sq' = [sq EXCEPT ![r][p] = Append(@, sge(buf, off, len))]

(* Bug: the receive is one element short.                                  *)
post_recv_OneShort(r, p, buf, off, len) ==
  rq' = [rq EXCEPT ![r][p] = Append(@, sge(buf, off, len - 1))]

post_recv(r, p, buf, off, len) ==
  rq' = [rq EXCEPT ![r][p] = Append(@, sge(buf, off, len))]

(* wait_completion spins until the queue has an entry and takes the first  *)
(* one, whatever its QP or wr_id; status other than SUCCESS is an          *)
(* exception.                                                              *)
wc(cq, r) == Head(cq[r])

completed(cq, r) == cq[r] # <<>> /\ wc(cq, r).status = "SUCCESS"

completion_error(cq, r) == cq[r] # <<>> /\ wc(cq, r).status # "SUCCESS"

take(cq, r) == [cq EXCEPT ![r] = Tail(@)]

(* The destructors of a Communicator: every QP of r is destroyed with its  *)
(* outstanding requests, then the completion queues.                       *)
destroy(r) ==
  /\ qp' = [qp EXCEPT ![r] = [p \in Rank |-> "GONE"]]
  /\ sq' = [sq EXCEPT ![r] = [p \in Rank |-> <<>>]]
  /\ rq' = [rq EXCEPT ![r] = [p \in Rank |-> <<>>]]
  /\ response' = [response EXCEPT ![r] = [p \in Rank |-> "none"]]
  /\ send_cq' = [send_cq EXCEPT ![r] = <<>>]
  /\ recv_cq' = [recv_cq EXCEPT ![r] = <<>>]

-----------------------------------------------------------------------------
(* The adapters.  cqe is what ibv_poll_cq will report.                     *)
cqe(status, byte_len) == [status |-> status, byte_len |-> byte_len]

Arrived(s, d) ==
  /\ s # d
  /\ qp[s][d] = "RTS" /\ qp[d][s] = "RTS"
  /\ sq[s][d] # <<>> /\ response[s][d] = "none"
  /\ rq[d][s] # <<>>

(* The elements of snd, read now, land at the start of rcv.                *)
dma(s, snd, d, rcv) ==
  [r \in Rank |-> [b \in Buffer |-> [e \in Index |->
     IF r = d /\ b = rcv.buf /\ e \in rcv.off .. rcv.off + snd.len - 1
     THEN mem[s][snd.buf][snd.off + (e - rcv.off)]
     ELSE mem[r][b][e]]]]

Deliver(s, d) ==
  LET snd == Head(sq[s][d])
      rcv == Head(rq[d][s])
  IN  /\ Arrived(s, d)
      /\ snd.len <= rcv.len
      /\ mem' = dma(s, snd, d, rcv)
      /\ rq' = [rq EXCEPT ![d][s] = Tail(@)]
      /\ recv_cq' = [recv_cq EXCEPT ![d] = Append(@, cqe("SUCCESS", snd.len))]
      /\ response' = [response EXCEPT ![s][d] = "ack"]
      /\ UNCHANGED <<qp, sq, send_cq>>

(* A message longer than the receive posted for it is refused: the         *)
(* receiver's QP breaks, the sender is told.                               *)
LengthError(s, d) ==
  /\ Arrived(s, d)
  /\ Head(sq[s][d]).len > Head(rq[d][s]).len
  /\ rq' = [rq EXCEPT ![d][s] = Tail(@)]
  /\ recv_cq' = [recv_cq EXCEPT ![d] = Append(@, cqe("LOC_LEN_ERR", 0))]
  /\ qp' = [qp EXCEPT ![d][s] = "ERR"]
  /\ response' = [response EXCEPT ![s][d] = "nak"]
  /\ UNCHANGED <<mem, sq, send_cq>>

FinishSend(s, d, status) ==
  /\ sq' = [sq EXCEPT ![s][d] = Tail(@)]
  /\ response' = [response EXCEPT ![s][d] = "none"]
  /\ send_cq' = [send_cq EXCEPT ![s] = Append(@, cqe(status, 0))]
  /\ qp' = IF status = "SUCCESS" THEN qp ELSE [qp EXCEPT ![s][d] = "ERR"]
  /\ UNCHANGED <<mem, rq, recv_cq>>

Complete(s, d) ==
  /\ qp[s][d] = "RTS" /\ sq[s][d] # <<>>
  /\ \/ response[s][d] = "ack" /\ FinishSend(s, d, "SUCCESS")
     \/ response[s][d] = "nak" /\ FinishSend(s, d, "REM_INV_REQ_ERR")

(* The peer's QP is broken or gone and stays silent; an ACK it sent before *)
(* may have been lost.  After retry_cnt retransmissions the sender gives   *)
(* up.                                                                     *)
RetryExceeded(s, d) ==
  /\ s # d /\ qp[s][d] = "RTS" /\ qp[d][s] # "RTS"
  /\ sq[s][d] # <<>>
  /\ FinishSend(s, d, "RETRY_EXC_ERR")

(* What is outstanding on a broken QP completes in error.                  *)
FlushSend(s, d) ==
  /\ qp[s][d] = "ERR" /\ sq[s][d] # <<>>
  /\ FinishSend(s, d, "WR_FLUSH_ERR")

FlushRecv(d, s) ==
  /\ qp[d][s] = "ERR" /\ rq[d][s] # <<>>
  /\ rq' = [rq EXCEPT ![d][s] = Tail(@)]
  /\ recv_cq' = [recv_cq EXCEPT ![d] = Append(@, cqe("WR_FLUSH_ERR", 0))]
  /\ UNCHANGED <<mem, qp, sq, response, send_cq>>

AdapterStep(s, d) ==
  \/ Deliver(s, d) \/ LengthError(s, d) \/ Complete(s, d)
  \/ RetryExceeded(s, d) \/ FlushSend(s, d) \/ FlushRecv(s, d)

-----------------------------------------------------------------------------
WorkRequest == [buf : Buffer, off : Nat, len : Nat]

Status == {"SUCCESS", "LOC_LEN_ERR", "REM_INV_REQ_ERR", "RETRY_EXC_ERR",
           "WR_FLUSH_ERR"}

Completion == [status : Status, byte_len : Nat]

TransportTypeOK ==
  /\ \A r \in Rank, b \in Buffer : DOMAIN mem[r][b] = Index
  /\ qp \in [Rank -> [Rank -> {"RTS", "ERR", "GONE"}]]
  /\ sq \in [Rank -> [Rank -> Seq(WorkRequest)]]
  /\ rq \in [Rank -> [Rank -> Seq(WorkRequest)]]
  /\ response \in [Rank -> [Rank -> {"none", "ack", "nak"}]]
  /\ send_cq \in [Rank -> Seq(Completion)]
  /\ recv_cq \in [Rank -> Seq(Completion)]
=============================================================================
