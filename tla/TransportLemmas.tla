-------------------------- MODULE TransportLemmas ---------------------------
(***************************************************************************)
(* What the proofs of both allreduce algorithms need of their common       *)
(* ground: a least element for proofs by least counterexample, queues of   *)
(* at most one entry, and type correctness of the adapters.                *)
(***************************************************************************)
EXTENDS Transport, SequenceTheorems, WellFoundedInduction, TLAPS

-----------------------------------------------------------------------------
(***************************************************************************)
(* A nonempty set of naturals has a least element.                         *)
(***************************************************************************)
LEMMA Least ==
  ASSUME NEW T, T \subseteq Nat, T # {}
  PROVE  \E n \in T : \A m \in T : n <= m
<1> DEFINE R == {ss \in Nat \X Nat : ss[1] < ss[2]}
<1>1. R = OpToRel(<, Nat)
  BY Zenon DEF OpToRel
<1>2. IsWellFoundedOn(R, Nat)
  BY <1>1, NatLessThanWellFounded, Zenon
<1>3. \E x \in T : \A y \in T : ~(<<y, x>> \in R)
  <2> HIDE DEF R
  <2> QED BY <1>2, WFMin, Zenon
<1>4. PICK x \in T : \A y \in T : ~(<<y, x>> \in R)
  BY <1>3
<1>5. ASSUME NEW y \in T PROVE x <= y
  <2>1. ~(<<y, x>> \in R) /\ x \in Nat /\ y \in Nat
    BY <1>4, <1>5
  <2>2. <<y, x>> \in Nat \X Nat /\ <<y, x>>[1] = y /\ <<y, x>>[2] = x
    BY <2>1
  <2>3. ~(y < x)
    BY <2>1, <2>2
  <2> QED BY <2>1, <2>3
<1> QED
  BY <1>5

(***************************************************************************)
(* A first entry is the only one.                                          *)
(***************************************************************************)
LEMMA AppendToEmpty ==
  ASSUME NEW x
  PROVE  Append(<<>>, x) = <<x>> /\ Len(Append(<<>>, x)) = 1 /\ <<x>> # <<>>
         /\ Head(<<x>>) = x /\ Tail(<<x>>) = <<>>
OBVIOUS

(***************************************************************************)
(* A queue that is bounded by one and not empty holds one entry.           *)
(***************************************************************************)
LEMMA OneEntry ==
  ASSUME NEW S, NEW s \in Seq(S), s # <<>>, Len(s) <= 1
  PROVE  Len(s) = 1
<1> DEFINE n == Len(s)
<1>1. n \in Nat \ {0}
  BY EmptySeq
<1>2. n <= 1
  OBVIOUS
<1> HIDE DEF n
<1>3. n = 1
  BY <1>1, <1>2
<1> QED
  BY <1>3 DEF n

(***************************************************************************)
(* Taking the only entry empties a queue.                                  *)
(***************************************************************************)
LEMMA TailOfOne ==
  ASSUME NEW S, NEW s \in Seq(S), Len(s) = 1
  PROVE  Tail(s) = <<>> /\ s # <<>>
<1>1. s # <<>>
  OBVIOUS
<1>2. Tail(s) \in Seq(S) /\ Len(Tail(s)) = 0
  BY <1>1, HeadTailProperties
<1> QED
  BY <1>1, <1>2, EmptySeq

-----------------------------------------------------------------------------
(* Types.                                                                  *)

(***************************************************************************)
(* A request carries a length that fits in it.                             *)
(***************************************************************************)
LEMMA SgeType ==
  ASSUME NEW buf \in Buffer, NEW off \in Nat, NEW len \in Nat
  PROVE  sge(buf, off, len) \in WorkRequest
<1>1. len % SgeLimit \in Nat
  BY SgeLimitAssumption
<1> QED
  BY <1>1 DEF sge, WorkRequest

(***************************************************************************)
(* What polling leaves in a completion queue.                              *)
(***************************************************************************)
LEMMA TakeType ==
  ASSUME NEW cq \in [Rank -> Seq(Completion)], NEW r \in Rank, cq[r] # <<>>
  PROVE  take(cq, r) \in [Rank -> Seq(Completion)]
<1>1. Tail(cq[r]) \in Seq(Completion)
  OBVIOUS
<1> QED
  BY <1>1 DEF take

(***************************************************************************)
(* What a post adds to a work queue and a completion takes from it.        *)
(***************************************************************************)
LEMMA WorkQueueType ==
  ASSUME NEW q \in [Rank -> [Rank -> Seq(WorkRequest)]], NEW a \in Rank, NEW b \in Rank
  PROVE  /\ \A x \in WorkRequest :
              [q EXCEPT ![a][b] = Append(@, x)] \in [Rank -> [Rank -> Seq(WorkRequest)]]
         /\ q[a][b] # <<>> => Head(q[a][b]) \in WorkRequest
         /\ q[a][b] # <<>> =>
              [q EXCEPT ![a][b] = Tail(@)] \in [Rank -> [Rank -> Seq(WorkRequest)]]
<1>1. q[a] \in [Rank -> Seq(WorkRequest)] /\ q[a][b] \in Seq(WorkRequest)
  OBVIOUS
<1>2. ASSUME NEW s \in Seq(WorkRequest)
      PROVE  [q EXCEPT ![a][b] = s] \in [Rank -> [Rank -> Seq(WorkRequest)]]
  <2>1. [q[a] EXCEPT ![b] = s] \in [Rank -> Seq(WorkRequest)]
    BY <1>1, <1>2
  <2> QED
    BY <2>1
<1>3. \A x \in WorkRequest : Append(q[a][b], x) \in Seq(WorkRequest)
  BY <1>1
<1>4. q[a][b] # <<>> => Head(q[a][b]) \in WorkRequest /\ Tail(q[a][b]) \in Seq(WorkRequest)
  BY <1>1
<1> QED
  BY <1>2, <1>3, <1>4

(***************************************************************************)
(* What a completion adds to a completion queue.                           *)
(***************************************************************************)
LEMMA CompletionQueueType ==
  ASSUME NEW cq \in [Rank -> Seq(Completion)], NEW r \in Rank, NEW x \in Completion
  PROVE  [cq EXCEPT ![r] = Append(@, x)] \in [Rank -> Seq(Completion)]
<1>1. Append(cq[r], x) \in Seq(Completion)
  OBVIOUS
<1> QED
  BY <1>1

(***************************************************************************)
(* Every step of an adapter keeps the types.                               *)
(***************************************************************************)
LEMMA AdapterType ==
  ASSUME TransportTypeOK, NEW a \in Rank, NEW b \in Rank, AdapterStep(a, b)
  PROVE  TransportTypeOK'
<1> USE DEF TransportTypeOK
<1>1. ASSUME NEW s \in Rank, NEW d \in Rank, Deliver(s, d) PROVE TransportTypeOK'
  <2>1. Head(sq[s][d]) \in WorkRequest
    <3>1. sq[s][d] # <<>>
      BY <1>1 DEF Deliver, Arrived
    <3> QED
      BY <3>1, WorkQueueType
  <2>2. cqe("SUCCESS", Head(sq[s][d]).len) \in Completion
    BY <2>1 DEF WorkRequest, cqe, Completion, Status
  <2>3. rq' \in [Rank -> [Rank -> Seq(WorkRequest)]]
    <3>1. rq[d][s] # <<>> /\ rq' = [rq EXCEPT ![d][s] = Tail(@)]
      BY <1>1 DEF Deliver, Arrived
    <3> QED
      BY <3>1, WorkQueueType
  <2>4. recv_cq' \in [Rank -> Seq(Completion)]
    BY <1>1, <2>2, CompletionQueueType DEF Deliver
  <2> QED
    BY <1>1, <2>3, <2>4 DEF Deliver, dma
<1>2. ASSUME NEW s \in Rank, NEW d \in Rank, LengthError(s, d) PROVE TransportTypeOK'
  <2>1. cqe("LOC_LEN_ERR", 0) \in Completion
    BY DEF cqe, Completion, Status
  <2>2. rq' \in [Rank -> [Rank -> Seq(WorkRequest)]]
    <3>1. rq[d][s] # <<>> /\ rq' = [rq EXCEPT ![d][s] = Tail(@)]
      BY <1>2 DEF LengthError, Arrived
    <3> QED
      BY <3>1, WorkQueueType
  <2>3. recv_cq' \in [Rank -> Seq(Completion)]
    BY <1>2, <2>1, CompletionQueueType DEF LengthError
  <2> QED
    BY <1>2, <2>2, <2>3 DEF LengthError
<1>3. ASSUME NEW s \in Rank, NEW d \in Rank, NEW status \in Status,
              sq[s][d] # <<>>, FinishSend(s, d, status)
       PROVE  TransportTypeOK'
  <2>1. cqe(status, 0) \in Completion
    BY DEF cqe, Completion
  <2>2. sq' \in [Rank -> [Rank -> Seq(WorkRequest)]]
    BY <1>3, WorkQueueType DEF FinishSend
  <2>3. send_cq' \in [Rank -> Seq(Completion)]
    BY <1>3, <2>1, CompletionQueueType DEF FinishSend
  <2> QED
    BY <1>3, <2>2, <2>3 DEF FinishSend
<1>4. ASSUME NEW s \in Rank, NEW d \in Rank,
              Complete(s, d) \/ RetryExceeded(s, d) \/ FlushSend(s, d)
       PROVE  TransportTypeOK'
  BY <1>3, <1>4 DEF Complete, RetryExceeded, FlushSend, Status
<1>5. ASSUME NEW s \in Rank, NEW d \in Rank, FlushRecv(d, s) PROVE TransportTypeOK'
  <2>1. cqe("WR_FLUSH_ERR", 0) \in Completion
    BY DEF cqe, Completion, Status
  <2>2. rq' \in [Rank -> [Rank -> Seq(WorkRequest)]]
    BY <1>5, WorkQueueType DEF FlushRecv
  <2>3. recv_cq' \in [Rank -> Seq(Completion)]
    BY <1>5, <2>1, CompletionQueueType DEF FlushRecv
  <2> QED
    BY <1>5, <2>2, <2>3 DEF FlushRecv
<1> QED
  BY <1>1, <1>2, <1>4, <1>5 DEF AdapterStep

(***************************************************************************)
(* Destroying a Communicator keeps the types.                              *)
(***************************************************************************)
LEMMA DestroyType ==
  ASSUME TransportTypeOK, NEW r \in Rank, destroy(r), mem' = mem
  PROVE  TransportTypeOK'
<1>1. /\ [p \in Rank |-> "GONE"] \in [Rank -> {"RTS", "ERR", "GONE"}]
      /\ [p \in Rank |-> "none"] \in [Rank -> {"none", "ack", "nak"}]
      /\ [p \in Rank |-> <<>>] \in [Rank -> Seq(WorkRequest)]
      /\ <<>> \in Seq(Completion)
  OBVIOUS
<1> QED
  BY <1>1 DEF destroy, TransportTypeOK
=============================================================================
