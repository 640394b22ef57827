--------------------------- MODULE TransportCalls ---------------------------
(***************************************************************************)
(* The calls a rank makes on its transport, as data.  allgather, broadcast *)
(* and the ping-pong example only loop over them: what such a function     *)
(* does on a rank is a sequence of these records, computed from its        *)
(* arguments alone, which CollectiveSequence executes one by one.          *)
(***************************************************************************)
EXTENDS Transport, SequencesExt

CONSTANT SizeLimit   \* elements in 2^64 bytes: what wraps a size_t

ASSUME SizeLimitAssumption == SizeLimit \in Nat /\ SizeLimit % SgeLimit = 0

PostRecv(p, b, o, n) == [do |-> "post_recv", peer |-> p, buf |-> b, off |-> o, len |-> n]
PostSend(p, b, o, n) == [do |-> "post_send", peer |-> p, buf |-> b, off |-> o, len |-> n]
WaitSend == [do |-> "wait_send"]

(* wait_completion(recv_cq), and byte_len has to be n.                     *)
WaitRecv(n) == [do |-> "wait_recv", len |-> n]

(* transport::send and transport::recv; every caller of recv compares what *)
(* it returns with the length it asked for.                                *)
send(p, b, o, n) == <<PostSend(p, b, o, n), WaitSend>>
recv(p, b, o, n) == <<PostRecv(p, b, o, n), WaitRecv(n)>>

(* The caller writes elements o .. o + n - 1 of data, in its k-th call or  *)
(* iteration.                                                              *)
Fill(o, n, k) == [do |-> "fill", off |-> o, len |-> n, tag |-> k]

(* memcmp(send_buf, recv_buf, n)                                           *)
Memcmp(n) == [do |-> "memcmp", len |-> n]

(* Communicator::barrier                                                   *)
Meet == [do |-> "barrier"]

size_t(n) == n % SizeLimit
=============================================================================
