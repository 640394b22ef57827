------------------------ MODULE AllreduceRingValues -------------------------
(***************************************************************************)
(* allreduce_ring returns the reduction of all contributions, for every    *)
(* number of ranks, every count, every number of calls, every reduction    *)
(* operator and every order of the adapters' steps: the invariant RingInv  *)
(* is inductive and contains FullyReduced.  Then what it does to memory    *)
(* and what it promises its callers, whatever they call it with.           *)
(***************************************************************************)
EXTENDS AllreduceRingProofs

-----------------------------------------------------------------------------
(* Where a rank stands.                                                    *)

(***************************************************************************)
(* In a call the chunks of a step are the chunks of its position.          *)
(***************************************************************************)
LEMMA AtPosition ==
  ASSUME Discipline, NEW r \in Rank, InCall(r)
  PROVE  /\ P \in Nat /\ P > 1 /\ pos(r) \in Position /\ step[r] \in Nat /\ step[r] < P - 1
         /\ phase[r] = 1 => pos(r) = step[r]
         /\ phase[r] # 1 => phase[r] = 2 /\ pos(r) = P - 1 + step[r]
         /\ sends(r, pos(r)) \in Rank /\ receives(r, pos(r)) \in Rank
         /\ send_chunk(r) = chunk(r, sends(r, pos(r)))
         /\ recv_chunk(r) = chunk(r, receives(r, pos(r)))
         /\ send_chunk(r).count \in Nat /\ recv_chunk(r).count \in Nat
         /\ send_chunk(r).offset \in Nat /\ recv_chunk(r).offset \in Nat
         /\ round[r] \in 1 .. MaxRounds /\ round[r] \in Nat
<1>1. /\ phase[r] \in {1, 2} /\ step[r] \in Nat /\ step[r] < P - 1 /\ P > 1
      /\ round[r] \in 0 .. MaxRounds /\ round[r] > 0 /\ P \in Nat
  BY PAssumption DEF Discipline, TypeOK, Control, ControlOf
<1>2. /\ pos(r) \in Position
      /\ send_index(r, phase[r], step[r]) = sends(r, pos(r))
      /\ recv_index(r, phase[r], step[r]) = receives(r, pos(r))
  BY <1>1, Positions
<1>3. sends(r, pos(r)) \in Rank /\ receives(r, pos(r)) \in Rank
  BY <1>2, SameChunk
<1>4. /\ send_chunk(r) = chunk(r, sends(r, pos(r)))
      /\ recv_chunk(r) = chunk(r, receives(r, pos(r)))
  BY <1>2 DEF send_chunk, recv_chunk
<1>5. /\ send_chunk(r).count \in Nat /\ recv_chunk(r).count \in Nat
      /\ send_chunk(r).offset \in Nat /\ recv_chunk(r).offset \in Nat
  BY StepChunks DEF Discipline
<1> QED
  BY <1>1, <1>2, <1>3, <1>4, <1>5, MaxRoundsAssumption DEF pos

(***************************************************************************)
(* Ranks that agree on count agree on the chunks.                          *)
(***************************************************************************)
LEMMA AgreedChunks ==
  ASSUME SameCount, NEW r \in Rank, NEW s \in Rank, NEW c
  PROVE  chunk(r, c) = chunk(s, c)
BY DEF SameCount, chunk

(***************************************************************************)
(* A message on its way is the one its sender waits for, and goes to the   *)
(* receive its successor waits for.                                        *)
(***************************************************************************)
LEMMA OnTheWay ==
  ASSUME Discipline, NEW s \in Rank, NEW d \in Rank, Arrived(s, d)
  PROVE  /\ d = send_to(s) /\ s = recv_from(d)
         /\ SendPending(s) /\ sq[s][d] = <<send_request(s)>> /\ InCall(s)
         /\ recv_cq[d] = <<>>
         /\ Alive(d) => /\ RecvPending(d) /\ InCall(d)
                        /\ rq[d][s] = <<recv_request(d)>>
<1>1. sq[s][d] # <<>> /\ rq[d][s] # <<>>
  BY DEF Arrived
<1>2. SendQueueOf(s) /\ RecvQueueOf(d)
  BY DEF Discipline, SendQueue, RecvQueue
<1>3. d = send_to(s) /\ SendPending(s) /\ sq[s][d] = <<send_request(s)>>
  BY <1>1, <1>2 DEF SendQueueOf
<1>4. s = recv_from(d) /\ recv_cq[d] = <<>>
  BY <1>1, <1>2 DEF RecvQueueOf
<1>5. Alive(d) => RecvPending(d) /\ rq[d][s] = <<recv_request(d)>>
  BY <1>1, <1>2, <1>4 DEF RecvQueueOf
<1> QED
  BY <1>3, <1>4, <1>5 DEF SendPending, RecvPending, InCall

(***************************************************************************)
(* Ranks that agree on count, or have no empty chunk, skip the same        *)
(* positions.                                                              *)
(***************************************************************************)
LEMMA EmptyTogether ==
  ASSUME SameSkips, NEW r \in Rank, NEW s \in Rank, NEW c \in Rank, chunk(r, c).count > 0
  PROVE  chunk(s, c).count > 0
<1>1. CASE SameCount
  BY <1>1, AgreedChunks
<1>2. CASE NoEmptyChunk
  BY <1>2 DEF NoEmptyChunk
<1> QED BY <1>1, <1>2 DEF SameSkips

(***************************************************************************)
(* The heart of the argument: a message and the receive it meets belong to *)
(* the same position of the same round, so they are the same chunk if the  *)
(* ranks agree on count.                                                   *)
(***************************************************************************)
LEMMA Matched ==
  ASSUME Discipline, SameSkips, Paired,
         NEW s \in Rank, NEW d \in Rank, Arrived(s, d), Alive(d)
  PROVE  /\ round[s] = round[d] /\ pos(s) = pos(d)
         /\ sends(s, pos(s)) = receives(d, pos(d))
         /\ SameCount => send_chunk(s) = recv_chunk(d)
<1>1. /\ d = send_to(s) /\ s = recv_from(d) /\ SendPending(s) /\ InCall(s)
      /\ sq[s][d] = <<send_request(s)>> /\ recv_cq[d] = <<>>
      /\ RecvPending(d) /\ InCall(d)
  BY OnTheWay
<1>2. Linked(s, d)
  BY <1>1 DEF Linked, Alive, Arrived
<1> DEFINE Rs == round[s]
           Rd == round[d]
           Gs == pos(s)
           Gd == pos(d)
<1>3. /\ Rs \in 1 .. MaxRounds /\ Rd \in 1 .. MaxRounds
      /\ Rs \in Nat /\ Rd \in Nat
      /\ Gs \in Position /\ Gd \in Position
      /\ send_chunk(s) = chunk(s, sends(s, Gs)) /\ recv_chunk(d) = chunk(d, receives(d, Gd))
  BY <1>1, AtPosition
<1>4. /\ chunk(s, sends(s, Gs)).count > 0
      /\ receives(d, Gd) = sends(s, Gd)
      /\ chunk(s, sends(s, Gd)).count > 0
  <2>1. receives(d, Gd) = sends(s, Gd)
    BY <1>1, <1>3, SameChunk
  <2>2. chunk(d, receives(d, Gd)).count > 0
    BY <1>1, <1>3 DEF RecvPending
  <2>3. chunk(s, sends(s, Gd)).count > 0
    BY <1>3, <2>1, <2>2, SameChunk, EmptyTogether
  <2> QED
    BY <1>1, <1>3, <2>1, <2>3 DEF SendPending
<1>5. /\ Sent(s, Rs, Gs) <=> Received(d, Rs, Gs)
      /\ Sent(s, Rd, Gd) <=> Received(d, Rd, Gd)
  BY <1>1, <1>2, <1>3, <1>4 DEF Paired, PairedOf
<1>6. Gs \in Int /\ Gd \in Int
  BY <1>3 DEF Position
<1>7. pc[s] = "wait_send" /\ sq[s][d] # <<>> /\ response[s][d] = "none" /\ pc[d] # "idle"
  BY <1>1 DEF Arrived, SendPending, RecvPending
<1>8. ~Sent(s, Rs, Gs) /\ (Rd < Rs => Sent(s, Rd, Gd))
      /\ (Rd = Rs /\ Gd < Gs => Sent(s, Rd, Gd))
  BY <1>1, <1>3, <1>6, <1>7 DEF Sent
<1>9. ~Received(d, Rd, Gd) /\ (Rs < Rd => Received(d, Rs, Gs))
      /\ (Rs = Rd /\ Gs < Gd => Received(d, Rs, Gs))
  BY <1>1, <1>3, <1>6, <1>7 DEF Received
<1>10. Rs = Rd
  BY <1>3, <1>5, <1>8, <1>9
<1>11. Gs = Gd
  BY <1>5, <1>6, <1>8, <1>9, <1>10
<1> QED
  BY <1>3, <1>4, <1>10, <1>11, AgreedChunks

(***************************************************************************)
(* What the end of a loop body does: the next position, or the return from *)
(* the last one.                                                           *)
(***************************************************************************)
LEMMA NextPosition ==
  ASSUME Discipline, NEW r \in Rank, WaitRecv(r)
  PROVE  /\ InCall(r) /\ pc[r] = "wait_recv" /\ round'[r] = round[r]
         /\ \/ pc'[r] = "post_recv" /\ pos(r)' = pos(r) + 1 /\ pos(r) # 2 * P - 3
            \/ pc'[r] = "idle" /\ pos(r) = 2 * P - 3 /\ phase[r] = 2
         /\ recv_cq'[r] = <<>>
         /\ recv_chunk(r).count > 0 => Landed(r)
<1>1. /\ pc[r] = "wait_recv" /\ round' = round /\ InCall(r)
      /\ pc \in [Rank -> {"idle", "post_recv", "post_send", "wait_send",
                          "wait_recv", "threw", "exited", "finished"}]
      /\ phase \in [Rank -> {1, 2}] /\ step \in [Rank -> Nat]
      /\ recv_cq \in [Rank -> Seq(Completion)]
  BY DEF Discipline, TypeOK, TransportTypeOK, WaitRecv, InCall
<1>2. P \in Nat /\ P > 1 /\ step[r] \in Nat /\ step[r] < P - 1
  BY <1>1, AtPosition
<1>3. \/ pc'[r] = "post_recv" /\ pos(r)' = pos(r) + 1 /\ pos(r) # 2 * P - 3
      \/ pc'[r] = "idle" /\ pos(r) = 2 * P - 3 /\ phase[r] = 2
  <2> DEFINE last == step[r] + 1 = P - 1
  <2>1. /\ step'[r] = (IF last THEN 0 ELSE step[r] + 1)
        /\ phase'[r] = (IF last /\ phase[r] = 1 THEN 2 ELSE phase[r])
        /\ pc'[r] = (IF last /\ phase[r] = 2 THEN "idle" ELSE "post_recv")
    BY <1>1 DEF WaitRecv, advance
  <2>2. phase[r] \in {1, 2}
    BY <1>1
  <2>3. CASE ~last
    BY <1>2, <2>1, <2>2, <2>3 DEF pos
  <2>4. CASE last /\ phase[r] = 1
    BY <1>2, <2>1, <2>4 DEF pos
  <2>5. CASE last /\ phase[r] = 2
    BY <1>2, <2>1, <2>5 DEF pos
  <2> QED BY <2>2, <2>3, <2>4, <2>5
<1>4. /\ Alive(r) /\ RecvQueueOf(r)
      /\ RecvPending(r) <=> recv_chunk(r).count > 0
  BY <1>1 DEF Alive, Discipline, RecvQueue, RecvPending
<1>5. CASE recv_chunk(r).count > 0
  <2>1. completed(recv_cq, r) /\ recv_cq' = take(recv_cq, r)
    BY <1>5 DEF WaitRecv, received
  <2>2. recv_cq[r] # <<>> /\ Len(recv_cq[r]) = 1
    BY <1>4, <1>5, <2>1 DEF RecvQueueOf, completed
  <2>3. recv_cq'[r] = <<>>
    BY <1>1, <2>1, <2>2, TailOfOne DEF take
  <2> QED
    BY <1>1, <1>3, <1>4, <1>5, <2>1, <2>3 DEF Landed, completed
<1>6. CASE ~(recv_chunk(r).count > 0)
  <2>1. recv_cq[r] = <<>> /\ recv_cq' = recv_cq
    BY <1>4, <1>6 DEF WaitRecv, RecvQueueOf
  <2> QED
    BY <1>1, <1>3, <1>6, <2>1
<1> QED
  BY <1>5, <1>6

-----------------------------------------------------------------------------
(* Pairing.                                                                *)

(***************************************************************************)
(* A connection is never repaired, and a rank that is out stays out.       *)
(***************************************************************************)
LEMMA LinkedBefore ==
  ASSUME TypeOK, [Next]_vars, NEW s \in Rank, NEW d \in Rank, Linked(s, d)'
  PROVE  Linked(s, d)
<1>1. /\ pc \in [Rank -> {"idle", "post_recv", "post_send", "wait_send",
                          "wait_recv", "threw", "exited", "finished"}]
      /\ qp \in [Rank -> [Rank -> {"RTS", "ERR", "GONE"}]]
  BY DEF TypeOK, TransportTypeOK
<1>2. ASSUME NEW x \in Rank, Alive(x)' PROVE Alive(x)
  <2>1. CASE UNCHANGED pc
    BY <1>2, <2>1 DEF Alive, InCall
  <2>2. ASSUME NEW r \in Rank, RankStep(r) PROVE Alive(x)
    BY <1>1, <1>2, <2>2 DEF RankStep, Call, PostRecv, PostSend, WaitSend, WaitRecv, advance,
                            Throw, Exit, Finish, Alive, InCall
  <2> QED
    BY <2>1, <2>2 DEF Next, Nic, Terminating, ctl, vars
<1>3. ASSUME NEW x \in Rank, NEW y \in Rank, qp'[x][y] = "RTS" PROVE qp[x][y] = "RTS"
  <2>1. CASE UNCHANGED qp
    BY <1>3, <2>1
  <2>2. ASSUME NEW r \in Rank, destroy(r) PROVE qp[x][y] = "RTS"
    BY <1>1, <1>3, <2>2 DEF destroy
  <2>3. ASSUME NEW a \in Rank, NEW b \in Rank, qp' = [qp EXCEPT ![a][b] = "ERR"]
        PROVE  qp[x][y] = "RTS"
    BY <1>1, <1>3, <2>3
  <2>4. ASSUME NEW r \in Rank, RankStep(r) PROVE UNCHANGED qp \/ destroy(r)
    BY <2>4 DEF RankStep, Call, PostRecv, PostSend, WaitSend, WaitRecv, Throw, Exit, Finish, nic
  <2>5. ASSUME NEW a \in Rank, NEW b \in Rank, AdapterStep(a, b)
        PROVE  \/ UNCHANGED qp \/ qp' = [qp EXCEPT ![a][b] = "ERR"]
               \/ qp' = [qp EXCEPT ![b][a] = "ERR"]
    BY <2>5 DEF AdapterStep, Deliver, LengthError, Complete, RetryExceeded, FlushSend,
                FlushRecv, FinishSend
  <2> QED
    BY <2>1, <2>2, <2>3, <2>4, <2>5 DEF Next, Nic, Terminating, vars, nic
<1> QED
  BY <1>2, <1>3 DEF Linked

(* The adapter's last word on a message, unless it is a completion after   *)
(* an answer.                                                              *)
Settles(s, d) ==
  Deliver(s, d) \/ LengthError(s, d) \/ RetryExceeded(s, d) \/ FlushSend(s, d)

(***************************************************************************)
(* What is sent stays sent while its rank lives, and only the adapter's    *)
(* last word on it makes a message sent: posting and polling, the next     *)
(* position and the next round do not.                                     *)
(***************************************************************************)
LEMMA SentStep ==
  ASSUME Discipline, [Next]_vars, NEW s \in Rank, Alive(s)',
         NEW k \in 1 .. MaxRounds, NEW g \in Position, chunk(s, sends(s, g)).count > 0
  PROVE  /\ Sent(s, k, g) => Sent(s, k, g)'
         /\ Sent(s, k, g)' => Sent(s, k, g) \/ Settles(s, send_to(s))
<1> DEFINE d == send_to(s)
           Kept == Sent(s, k, g)' <=> Sent(s, k, g)
<1>1. /\ d \in Rank /\ SendQueueOf(s) /\ ControlOf(s)
      /\ pc \in [Rank -> {"idle", "post_recv", "post_send", "wait_send",
                          "wait_recv", "threw", "exited", "finished"}]
      /\ phase \in [Rank -> {1, 2}] /\ step \in [Rank -> Nat]
      /\ round \in [Rank -> 0 .. MaxRounds]
      /\ qp \in [Rank -> [Rank -> {"RTS", "ERR", "GONE"}]]
      /\ sq \in [Rank -> [Rank -> Seq(WorkRequest)]]
      /\ response \in [Rank -> [Rank -> {"none", "ack", "nak"}]]
      /\ send_cq \in [Rank -> Seq(Completion)]
  BY Neighbours DEF Discipline, SendQueue, Control, TypeOK, TransportTypeOK
<1>2. g \in Int /\ 0 <= g /\ g <= 2 * P - 3 /\ k \in Int /\ P \in Int /\ P > 1
  BY PAssumption, MaxRoundsAssumption DEF Position
<1>3. Alive(s)'
  OBVIOUS
<1>4. ASSUME pc'[s] = pc[s], phase'[s] = phase[s], step'[s] = step[s], round'[s] = round[s],
             sq'[s][d] = sq[s][d], response'[s][d] = response[s][d]
      PROVE  Kept
  BY <1>4 DEF Sent, pos
<1>5. ASSUME NEW r \in Rank, RankStep(r), r # s PROVE Kept
  <2>1. /\ pc'[s] = pc[s] /\ phase'[s] = phase[s] /\ step'[s] = step[s]
        /\ round'[s] = round[s]
    BY <1>1, <1>5 DEF RankStep, Call, PostRecv, PostSend, WaitSend, WaitRecv, advance,
                      Throw, Exit, Finish
  <2>2. sq'[s] = sq[s] /\ response'[s] = response[s]
    BY <1>1, <1>5 DEF RankStep, Call, PostRecv, PostSend, WaitSend, WaitRecv,
                      Throw, Exit, Finish, destroy, post_send, nic
  <2> QED BY <1>4, <2>1, <2>2
<1>6. CASE Call(s)
  <2>1. /\ pc[s] = "idle" /\ round'[s] = round[s] + 1 /\ pc'[s] = "post_recv"
        /\ pos(s)' = 0 /\ round[s] \in Int
    BY <1>1, <1>2, <1>3, <1>6 DEF Call, pos, Alive, InCall
  <2> QED
    BY <1>2, <2>1 DEF Sent
<1>7. CASE PostRecv(s)
  <2>1. /\ pc[s] = "post_recv" /\ pc'[s] = "post_send"
        /\ UNCHANGED <<round, phase, step>>
    BY <1>1, <1>7 DEF PostRecv
  <2> QED
    BY <2>1 DEF Sent, pos
<1>8. CASE PostSend(s)
  <2>1. /\ pc[s] = "post_send" /\ pc'[s] = "wait_send" /\ InCall(s)
        /\ UNCHANGED <<round, phase, step, response>>
    BY <1>1, <1>8 DEF PostSend, InCall
  <2>2. sq[s][d] = <<>> /\ response[s][d] = "none"
    BY <1>1, <2>1 DEF SendQueueOf, SendPending
  <2>3. g = pos(s) => sq'[s][d] # <<>>
    <3> SUFFICES ASSUME g = pos(s) PROVE sq'[s][d] # <<>>
      OBVIOUS
    <3>1. send_chunk(s).count # 0
      BY <2>1, AtPosition
    <3>2. sq' = [sq EXCEPT ![s][d] = Append(@, send_request(s))]
      BY <1>8, <3>1 DEF PostSend, post_send, send_request
    <3>3. sq'[s][d] = Append(<<>>, send_request(s))
      BY <1>1, <2>2, <3>2
    <3> QED
      BY <3>3, AppendToEmpty
  <2> QED
    BY <2>1, <2>2, <2>3 DEF Sent, pos
<1>9. CASE WaitSend(s)
  <2>1. /\ pc[s] = "wait_send" /\ pc'[s] = "wait_recv" /\ InCall(s)
        /\ UNCHANGED <<round, phase, step, response>>
    BY <1>1, <1>9 DEF WaitSend, InCall
  <2>2. g = pos(s) => sq[s][d] = <<>>
    <3> SUFFICES ASSUME g = pos(s) PROVE sq[s][d] = <<>>
      OBVIOUS
    <3>1. send_chunk(s).count > 0 /\ send_chunk(s).count # 0
      BY <2>1, AtPosition
    <3>2. send_cq[s] # <<>>
      BY <1>9, <3>1 DEF WaitSend, completed
    <3> QED
      BY <1>1, <2>1, <3>1, <3>2 DEF SendQueueOf, SendPending
  <2> QED
    BY <2>1, <2>2 DEF Sent, pos
<1>10. CASE WaitRecv(s)
  <2>1. /\ InCall(s) /\ pc[s] = "wait_recv" /\ round'[s] = round[s]
        /\ \/ pc'[s] = "post_recv" /\ pos(s)' = pos(s) + 1
           \/ pc'[s] = "idle" /\ pos(s) = 2 * P - 3
    BY <1>10, NextPosition
  <2>2. pos(s) \in Int
    BY <2>1, AtPosition DEF Position
  <2>3. CASE pc'[s] = "post_recv" /\ pos(s)' = pos(s) + 1
    BY <1>2, <2>1, <2>2, <2>3 DEF Sent
  <2>4. CASE pc'[s] = "idle" /\ pos(s) = 2 * P - 3
    BY <1>2, <2>1, <2>2, <2>4 DEF Sent
  <2> QED BY <2>1, <2>3, <2>4
<1>11. CASE Throw(s) \/ Exit(s) \/ Finish(s)
  BY <1>1, <1>3, <1>11 DEF Throw, Exit, Finish, Alive, InCall
<1>12. ASSUME NEW a \in Rank, NEW b \in Rank, AdapterStep(a, b), UNCHANGED ctl,
              ~(a = s /\ b = d)
       PROVE  Kept
  <2>1. UNCHANGED <<pc, phase, step, round>>
    BY <1>12 DEF ctl
  <2>2. CASE Deliver(a, b) \/ LengthError(a, b)
    <3>1. \E x : sq' = sq /\ response' = [response EXCEPT ![a][b] = x]
      BY <2>2 DEF Deliver, LengthError
    <3>2. sq'[s][d] = sq[s][d] /\ response'[s][d] = response[s][d]
      BY <1>1, <1>12, <3>1
    <3> QED BY <1>4, <2>1, <3>2
  <2>3. ASSUME NEW status, FinishSend(a, b, status) PROVE Kept
    BY <1>1, <1>4, <1>12, <2>1, <2>3 DEF FinishSend
  <2>4. CASE Complete(a, b) \/ RetryExceeded(a, b) \/ FlushSend(a, b)
    BY <2>3, <2>4 DEF Complete, RetryExceeded, FlushSend
  <2>5. CASE FlushRecv(a, b)
    BY <1>4, <2>1, <2>5 DEF FlushRecv
  <2> QED
    BY <1>12, <2>2, <2>4, <2>5 DEF AdapterStep
<1>13. ASSUME AdapterStep(s, d), UNCHANGED ctl
       PROVE  Kept \/ (Settles(s, d) /\ (Sent(s, k, g) => Sent(s, k, g)'))
  <2>1. UNCHANGED <<pc, phase, step, round>>
    BY <1>13 DEF ctl
  <2>2. CASE Deliver(s, d) \/ LengthError(s, d)
    <3>1. sq' = sq /\ response'[s][d] # "none"
      BY <1>1, <2>2 DEF Deliver, LengthError
    <3>2. Sent(s, k, g) => Sent(s, k, g)'
      BY <2>1, <3>1 DEF Sent, pos
    <3> QED BY <2>2, <3>2 DEF Settles
  <2>3. ASSUME NEW status, FinishSend(s, d, status), sq[s][d] # <<>>
        PROVE  pc[s] = "wait_send" /\ sq'[s][d] = <<>>
    <3>1. pc[s] = "wait_send" /\ sq[s][d] = <<send_request(s)>>
      BY <1>1, <2>3 DEF SendQueueOf, SendPending
    <3>2. sq' = [sq EXCEPT ![s][d] = Tail(@)]
      BY <2>3 DEF FinishSend
    <3> QED
      BY <1>1, <3>1, <3>2, AppendToEmpty
  <2>4. CASE Complete(s, d)
    <3>1. response[s][d] # "none" /\ pc[s] = "wait_send" /\ sq'[s][d] = <<>>
      BY <2>3, <2>4 DEF Complete
    <3> QED
      BY <2>1, <3>1 DEF Sent, pos
  <2>5. CASE RetryExceeded(s, d) \/ FlushSend(s, d)
    <3>1. pc[s] = "wait_send" /\ sq'[s][d] = <<>>
      BY <2>3, <2>5 DEF RetryExceeded, FlushSend
    <3>2. Sent(s, k, g) => Sent(s, k, g)'
      BY <2>1, <3>1 DEF Sent, pos
    <3> QED BY <2>5, <3>2 DEF Settles
  <2>6. CASE FlushRecv(s, d)
    BY <1>4, <2>1, <2>6 DEF FlushRecv
  <2> QED
    BY <1>13, <2>2, <2>4, <2>5, <2>6 DEF AdapterStep
<1>14. CASE UNCHANGED vars
  BY <1>4, <1>14 DEF vars, nic
<1>15. Kept \/ (Settles(s, d) /\ (Sent(s, k, g) => Sent(s, k, g)'))
  BY <1>5, <1>6, <1>7, <1>8, <1>9, <1>10, <1>11, <1>12, <1>13, <1>14
     DEF Next, RankStep, Nic, Terminating
<1> QED BY <1>15

(***************************************************************************)
(* Between neighbours that can talk it is a delivery that makes a message  *)
(* sent.                                                                   *)
(***************************************************************************)
LEMMA SentStable ==
  ASSUME Discipline, [Next]_vars, NEW s \in Rank, Linked(s, send_to(s))',
         ~Deliver(s, send_to(s)),
         NEW k \in 1 .. MaxRounds, NEW g \in Position, chunk(s, sends(s, g)).count > 0
  PROVE  Sent(s, k, g)' <=> Sent(s, k, g)
<1> DEFINE d == send_to(s)
<1>1. d \in Rank /\ Linked(s, d) /\ qp \in [Rank -> [Rank -> {"RTS", "ERR", "GONE"}]]
  BY Neighbours, LinkedBefore DEF Discipline, TypeOK, TransportTypeOK
<1>2. Alive(s)' /\ qp'[d][s] = "RTS" /\ qp[s][d] = "RTS" /\ qp[d][s] = "RTS"
  BY <1>1 DEF Linked
<1>3. ~LengthError(s, d)
  BY <1>1, <1>2 DEF LengthError
<1>4. ~Settles(s, d)
  BY <1>2, <1>3 DEF Settles, RetryExceeded, FlushSend
<1> QED BY <1>2, <1>4, SentStep

(***************************************************************************)
(* Only a delivery makes a message received.                               *)
(***************************************************************************)
LEMMA ReceivedStable ==
  ASSUME Discipline, [Next]_vars, NEW d \in Rank, Linked(recv_from(d), d)',
         ~Deliver(recv_from(d), d),
         NEW k \in 1 .. MaxRounds, NEW g \in Position, chunk(d, receives(d, g)).count > 0
  PROVE  Received(d, k, g)' <=> Received(d, k, g)
<1> DEFINE s == recv_from(d)
<1>1. /\ s \in Rank /\ RecvQueueOf(d) /\ ControlOf(d) /\ Linked(s, d) /\ args' = args
      /\ pc \in [Rank -> {"idle", "post_recv", "post_send", "wait_send",
                          "wait_recv", "threw", "exited", "finished"}]
      /\ phase \in [Rank -> {1, 2}] /\ step \in [Rank -> Nat]
      /\ round \in [Rank -> 0 .. MaxRounds]
      /\ qp \in [Rank -> [Rank -> {"RTS", "ERR", "GONE"}]]
      /\ rq \in [Rank -> [Rank -> Seq(WorkRequest)]]
      /\ recv_cq \in [Rank -> Seq(Completion)]
  BY Neighbours, LinkedBefore, SameArguments
     DEF Discipline, RecvQueue, Control, TypeOK, TransportTypeOK
<1>2. g \in Int /\ 0 <= g /\ g <= 2 * P - 3 /\ k \in Int /\ P \in Int /\ P > 1
  BY PAssumption, MaxRoundsAssumption DEF Position
<1>3. Alive(d)' /\ Alive(d) /\ qp'[d][s] = "RTS" /\ qp[d][s] = "RTS"
  BY <1>1 DEF Linked
<1>4. ASSUME pc'[d] = pc[d], phase'[d] = phase[d], step'[d] = step[d], round'[d] = round[d],
             recv_cq'[d] = recv_cq[d]
      PROVE  Received(d, k, g)' <=> Received(d, k, g)
  BY <1>1, <1>4 DEF Received, pos, RecvPending, recv_chunk, chunk
<1>5. ASSUME NEW r \in Rank, RankStep(r), r # d PROVE Received(d, k, g)' <=> Received(d, k, g)
  <2>1. /\ pc'[d] = pc[d] /\ phase'[d] = phase[d] /\ step'[d] = step[d]
        /\ round'[d] = round[d]
    BY <1>1, <1>5 DEF RankStep, Call, PostRecv, PostSend, WaitSend, WaitRecv, advance,
                      Throw, Exit, Finish
  <2>2. recv_cq'[d] = recv_cq[d]
    BY <1>1, <1>5 DEF RankStep, Call, PostRecv, PostSend, WaitSend, WaitRecv,
                      Throw, Exit, Finish, destroy, take, nic
  <2> QED BY <1>4, <2>1, <2>2
<1>6. CASE Call(d)
  <2>1. /\ pc[d] = "idle" /\ round'[d] = round[d] + 1 /\ pc'[d] = "post_recv"
        /\ pos(d)' = 0 /\ round[d] \in Int
    BY <1>1, <1>2, <1>3, <1>6 DEF Call, pos, Alive, InCall
  <2> QED
    BY <1>2, <2>1 DEF Received, RecvPending
<1>7. CASE PostRecv(d)
  <2>1. /\ pc[d] = "post_recv" /\ pc'[d] = "post_send"
        /\ UNCHANGED <<round, phase, step, recv_cq>>
    BY <1>1, <1>7 DEF PostRecv
  <2>2. recv_cq[d] = <<>>
    BY <1>1, <1>3, <2>1 DEF RecvQueueOf, RecvPending
  <2> QED
    BY <2>1, <2>2 DEF Received, pos
<1>8. CASE PostSend(d) \/ WaitSend(d)
  <2>1. /\ pc[d] \in {"post_send", "wait_send"} /\ pc'[d] \in {"wait_send", "wait_recv"}
        /\ UNCHANGED <<round, phase, step, recv_cq>>
    BY <1>1, <1>8 DEF PostSend, WaitSend
  <2>2. RecvPending(d)' = RecvPending(d)
    BY <1>1, <2>1 DEF RecvPending, recv_chunk, chunk
  <2> QED
    BY <2>1, <2>2 DEF Received, pos
<1>9. CASE WaitRecv(d)
  <2>1. /\ InCall(d) /\ pc[d] = "wait_recv" /\ round'[d] = round[d]
        /\ \/ pc'[d] = "post_recv" /\ pos(d)' = pos(d) + 1
           \/ pc'[d] = "idle" /\ pos(d) = 2 * P - 3
        /\ recv_chunk(d).count > 0 => Landed(d)
    BY <1>9, NextPosition
  <2>2. pos(d) \in Int /\ (g = pos(d) => recv_chunk(d).count > 0)
    BY <2>1, AtPosition DEF Position
  <2>3. g = pos(d) => RecvPending(d) /\ recv_cq[d] # <<>>
    BY <2>1, <2>2 DEF Landed
  <2>4. CASE pc'[d] = "post_recv" /\ pos(d)' = pos(d) + 1
    <3>1. ~RecvPending(d)'
      BY <2>4 DEF RecvPending
    <3> QED
      BY <1>2, <2>1, <2>2, <2>3, <2>4, <3>1 DEF Received
  <2>5. CASE pc'[d] = "idle" /\ pos(d) = 2 * P - 3
    BY <1>2, <2>1, <2>2, <2>3, <2>5 DEF Received
  <2> QED BY <2>1, <2>4, <2>5
<1>10. CASE Throw(d) \/ Exit(d) \/ Finish(d)
  BY <1>1, <1>3, <1>10 DEF Throw, Exit, Finish, Alive, InCall
<1>11. ASSUME NEW a \in Rank, NEW b \in Rank, AdapterStep(a, b), UNCHANGED ctl
       PROVE  Received(d, k, g)' <=> Received(d, k, g)
  <2>1. UNCHANGED <<pc, phase, step, round>>
    BY <1>11 DEF ctl
  <2>2. ASSUME NEW x \in Rank, NEW y \in Rank, rq[y][x] # <<>>, ~(x = s /\ y = d)
        PROVE  y # d
    BY <1>1, <2>2 DEF RecvQueueOf
  <2>3. CASE Deliver(a, b)
    <3>1. b # d
      <4>1. ~(a = s /\ b = d)
        BY <2>3
      <4> QED BY <2>2, <2>3, <4>1 DEF Deliver, Arrived
    <3> QED
      BY <1>1, <1>4, <2>1, <2>3, <3>1 DEF Deliver
  <2>4. CASE LengthError(a, b)
    <3>1. b # d
      <4>1. ~(a = s /\ b = d)
        BY <1>1, <1>3, <2>4 DEF LengthError
      <4> QED BY <2>2, <2>4, <4>1 DEF LengthError, Arrived
    <3> QED
      BY <1>1, <1>4, <2>1, <2>4, <3>1 DEF LengthError
  <2>5. CASE FlushRecv(a, b)
    <3>1. a # d
      <4>1. ~(b = s /\ a = d)
        BY <1>3, <2>5 DEF FlushRecv
      <4> QED BY <2>2, <2>5, <4>1 DEF FlushRecv
    <3> QED
      BY <1>1, <1>4, <2>1, <2>5, <3>1 DEF FlushRecv
  <2>6. CASE Complete(a, b) \/ RetryExceeded(a, b) \/ FlushSend(a, b)
    BY <1>4, <2>1, <2>6 DEF Complete, RetryExceeded, FlushSend, FinishSend
  <2> QED
    BY <1>11, <2>3, <2>4, <2>5, <2>6 DEF AdapterStep
<1>12. CASE UNCHANGED vars
  BY <1>4, <1>12 DEF vars, nic
<1> QED
  BY <1>5, <1>6, <1>7, <1>8, <1>9, <1>10, <1>11, <1>12
     DEF Next, RankStep, Nic, Terminating

(***************************************************************************)
(* The arguments do not change, and what follows from them does not.       *)
(***************************************************************************)
LEMMA SkipsStay ==
  ASSUME [Next]_vars
  PROVE  SameSkips' = SameSkips /\ NoEmptyChunk' = NoEmptyChunk
<1>1. args' = args /\ SameCount' = SameCount
  BY SameArguments
<1>2. NoEmptyChunk' = NoEmptyChunk
  BY <1>1 DEF NoEmptyChunk, chunk
<1> QED BY <1>1, <1>2 DEF SameSkips

(***************************************************************************)
(* Neighbours that can talk agree on what has passed between them.         *)
(***************************************************************************)
LEMMA PairedStep == Discipline /\ Paired /\ [Next]_vars => Paired'
<1> SUFFICES ASSUME Discipline, Paired, [Next]_vars, SameSkips', NEW s \in Rank,
                    Linked(s, send_to(s))', NEW k \in 1 .. MaxRounds, NEW g \in Position,
                    chunk(s, sends(s, g))'.count > 0
             PROVE  Sent(s, k, g)' <=> Received(send_to(s), k, g)'
  BY DEF Paired, PairedOf
<1> DEFINE d == send_to(s)
<1>1. /\ SameSkips /\ d \in Rank /\ recv_from(d) = s /\ Linked(s, d) /\ args' = args
      /\ sends(s, g) \in Rank /\ receives(d, g) = sends(s, g)
  BY SameArguments, SkipsStay, Neighbours, LinkedBefore, SameChunk DEF Discipline
<1>2. /\ chunk(s, sends(s, g)).count > 0 /\ chunk(d, receives(d, g)).count > 0
  BY <1>1, SameArguments, EmptyTogether
<1>3. Sent(s, k, g) <=> Received(d, k, g)
  BY <1>1, <1>2 DEF Paired, PairedOf
<1>4. CASE ~Deliver(s, d)
  <2>1. Sent(s, k, g)' <=> Sent(s, k, g)
    BY <1>2, <1>4, SentStable
  <2>2. Received(d, k, g)' <=> Received(d, k, g)
    BY <1>1, <1>2, <1>4, ReceivedStable
  <2> QED BY <1>3, <2>1, <2>2
<1>5. CASE Deliver(s, d)
  <2>1. Arrived(s, d) /\ Alive(d)
    BY <1>1, <1>5 DEF Deliver, Linked
  <2>2. /\ SendPending(s) /\ sq[s][d] = <<send_request(s)>> /\ InCall(s)
        /\ RecvPending(d) /\ InCall(d) /\ recv_cq[d] = <<>>
    BY <1>1, <2>1, OnTheWay
  <2>3. round[s] = round[d] /\ pos(s) = pos(d)
    BY <1>1, <2>1, Matched
  <2>4. /\ pc' = pc /\ phase' = phase /\ step' = step /\ round' = round /\ sq' = sq
    <3>1. sq' = sq /\ response'  = [response EXCEPT ![s][d] = "ack"] /\ response # response'
      <4>1. /\ sq' = sq /\ response'  = [response EXCEPT ![s][d] = "ack"]
            /\ response[s][d] = "none"
        BY <1>5 DEF Deliver, Arrived
      <4>2. response \in [Rank -> [Rank -> {"none", "ack", "nak"}]]
        BY DEF Discipline, TypeOK, TransportTypeOK
      <4>3. response'[s][d] = "ack"
        BY <1>1, <4>1, <4>2
      <4> QED BY <4>1, <4>3
    <3>2. pc[s] = "wait_send"
      BY <2>2 DEF SendPending
    <3>3. UNCHANGED response \/ UNCHANGED ctl \/ \E r \in Rank : Exit(r) \/ Finish(r)
      BY DEF Next, RankStep, Nic, Terminating, Call, PostRecv, PostSend, WaitSend,
             WaitRecv, Throw, vars, nic
    <3>4. ASSUME NEW r \in Rank, Exit(r) \/ Finish(r) PROVE FALSE
      <4>1. destroy(r)
        BY <3>4 DEF Exit, Finish
      <4>2. sq'[s][d] # <<>> /\ response'[s][d] = "ack"
        BY <2>2, <3>1, <1>1, AppendToEmpty DEF Discipline, TypeOK, TransportTypeOK
      <4>3. r # s
        BY <1>1, <4>1, <4>2 DEF destroy, Discipline, TypeOK, TransportTypeOK
      <4>4. response'[s] = response[s]
        BY <1>1, <4>1, <4>3 DEF destroy, Discipline, TypeOK, TransportTypeOK
      <4> QED
        BY <1>5, <4>2, <4>4 DEF Deliver, Arrived
    <3> QED BY <3>1, <3>3, <3>4 DEF ctl
  <2>5. response'[s][d] = "ack"
    BY <1>1, <1>5 DEF Deliver, Discipline, TypeOK, TransportTypeOK
  <2>6. recv_cq'[d] # <<>>
    <3>1. recv_cq'[d] = Append(<<>>, cqe("SUCCESS", Head(sq[s][d]).len))
      BY <1>1, <1>5, <2>2 DEF Deliver, Discipline, TypeOK, TransportTypeOK
    <3> QED BY <3>1, AppendToEmpty
  <2>7. Sent(s, k, g)' <=> Sent(s, k, g) \/ (k = round[s] /\ g = pos(s))
    BY <2>2, <2>4, <2>5 DEF Sent, SendPending, pos
  <2>8. RecvPending(d)'
    BY <1>1, <2>2, <2>4 DEF RecvPending, recv_chunk, chunk
  <2>9. Received(d, k, g)' <=> Received(d, k, g) \/ (k = round[d] /\ g = pos(d))
    BY <2>2, <2>4, <2>6, <2>8 DEF Received, pos
  <2> QED
    BY <1>3, <2>3, <2>7, <2>9
<1> QED
  BY <1>4, <1>5

(***************************************************************************)
(* Before the first call nothing has been sent or received.                *)
(***************************************************************************)
LEMMA InitPaired == Init => Paired
<1> SUFFICES ASSUME Init PROVE Paired
  OBVIOUS
<1>1. \A r \in Rank : pc[r] = "idle" /\ round[r] = 0
  BY DEF Init
<1>2. \A r \in Rank, k \in 1 .. MaxRounds, g \in Position :
        ~Sent(r, k, g) /\ ~Received(r, k, g)
  BY <1>1, MaxRoundsAssumption DEF Sent, Received, RecvPending
<1> QED
  BY <1>2, Neighbours DEF Paired, PairedOf

-----------------------------------------------------------------------------
(* Data.                                                                   *)

DataOf(r) == ArrivalsOf(r) /\ WholeOf(r) /\ ValuesOf(r) /\ Correct(r)

(***************************************************************************)
(* Steps that neither move a rank to another position nor change its       *)
(* buffers nor bring it a message.                                         *)
(***************************************************************************)
LEMMA DataFrame ==
  ASSUME Discipline, NEW q \in Rank, DataOf(q), args' = args,
         phase'[q] = phase[q], step'[q] = step[q], round'[q] = round[q],
         InCall(q)' = InCall(q), pc'[q] = "idle" <=> pc[q] = "idle",
         \A b \in Buffer, e \in Index : mem'[q][b][e] = mem[q][b][e],
         Landed(q)' <=> Landed(q), Landed(q) => recv_cq'[q] = recv_cq[q]
  PROVE  DataOf(q)'
<1>1. /\ pos(q)' = pos(q) /\ recv_chunk(q)' = recv_chunk(q)
      /\ \A c : chunk(q, c)' = chunk(q, c)
      /\ \A c, e : InChunk(q, c, e)' = InChunk(q, c, e)
      /\ Alive(q)' = Alive(q)
  BY DEF pos, recv_chunk, chunk, InChunk, Alive
<1>2. ArrivalsOf(q)'
  <2> SUFFICES ASSUME Alive(q)', Landed(q)'
               PROVE  /\ wc(recv_cq, q)'.byte_len = recv_chunk(q)'.count % SgeLimit
                      /\ phase'[q] = 1 /\ recv_chunk(q)'.count < SgeLimit =>
                           \A e \in Index : InChunk(q, receives(q, step[q]), e)' =>
                             mem'[q]["scratch"][e - recv_chunk(q)'.offset] =
                               RingFold(receives(q, step[q]), round[q], e)[step[q]]
    BY DEF ArrivalsOf
  <2>1. wc(recv_cq, q)' = wc(recv_cq, q) /\ Alive(q) /\ Landed(q)
    BY <1>1 DEF wc
  <2>2. ArrivalsOf(q)
    BY DEF DataOf
  <2>3. ASSUME NEW e \in Index, InChunk(q, receives(q, step[q]), e), phase[q] = 1
        PROVE  e - recv_chunk(q).offset \in Index
    <3>1. InCall(q)
      BY <2>1 DEF Landed, RecvPending, InCall
    <3>2. recv_chunk(q) = chunk(q, receives(q, step[q])) /\ recv_chunk(q).offset \in Nat
          /\ recv_chunk(q).count \in Nat
      BY <2>3, <3>1, AtPosition
    <3> QED
      BY <2>3, <3>2, SpanAssumption DEF InChunk, Index
  <2> QED
    BY <1>1, <2>1, <2>2, <2>3 DEF ArrivalsOf, Buffer
<1>3. WholeOf(q)'
  BY <1>1 DEF DataOf, WholeOf
<1>4. ValuesOf(q)'
  <2>1. \A D : Final(q, D)' = Final(q, D)
    BY <1>1 DEF Final, Got
  <2>2. ValuesOf(q)
    BY DEF DataOf
  <2> QED
    BY <1>1, <2>1, <2>2 DEF ValuesOf, Buffer
<1>5. Correct(q)'
  <2>1. Correct(q)
    BY DEF DataOf
  <2> QED
    BY <1>1, <2>1 DEF Correct, Returned, Buffer
<1> QED
  BY <1>2, <1>3, <1>4, <1>5 DEF DataOf

(***************************************************************************)
(* A rank that is not in a call and has not returned owes nothing.         *)
(***************************************************************************)
LEMMA DataOut ==
  ASSUME NEW q \in Rank, ~Alive(q)'
  PROVE  DataOf(q)'
BY DEF DataOf, ArrivalsOf, WholeOf, ValuesOf, Correct, Returned, Alive, InCall

(***************************************************************************)
(* A call starts with the rank's own contribution in every chunk.          *)
(***************************************************************************)
LEMMA CallData ==
  ASSUME Discipline, NEW q \in Rank, Call(q)
  PROVE  DataOf(q)'
<1>1. /\ args' = args /\ args \in [Rank -> Arg] /\ P \in Nat /\ P >= 1
      /\ round \in [Rank -> 0 .. MaxRounds] /\ pc[q] = "idle"
      /\ phase'[q] = 1 /\ step'[q] = 0 /\ round'[q] = round[q] + 1
      /\ pc'[q] = IF bad_arguments(q) THEN "threw" ELSE IF P = 1 THEN "idle" ELSE "post_recv"
  BY PAssumption DEF Call, Discipline, TypeOK
<1>2. /\ pos(q)' = 0 /\ \A c : chunk(q, c)' = chunk(q, c)
      /\ \A c, e : InChunk(q, c, e)' = InChunk(q, c, e)
  BY <1>1 DEF pos, chunk, InChunk
<1>3. ASSUME ~bad_arguments(q), NEW c \in Rank, NEW e \in Index, InChunk(q, c, e)
      PROVE  mem'[q]["data"][e] = Input(q, round'[q], e)
  <2>1. /\ args[q].count \in Nat /\ args[q].mr \in Int
        /\ chunk(q, c).offset \in Nat /\ chunk(q, c).count \in Nat
        /\ chunk(q, c).offset + chunk(q, c).count <= args[q].count
    BY <1>1, ChunkInData
  <2>2. e \in Int /\ e < args[q].count
    BY <1>3, <2>1, SpanAssumption DEF InChunk, Index
  <2>3. args[q].count <= args[q].mr
    BY <1>3, <2>1 DEF bad_arguments
  <2>4. e < args[q].mr
    BY <2>1, <2>2, <2>3
  <2> QED
    BY <1>1, <1>3, <2>2, <2>4 DEF Call, Buffer
<1>4. CASE bad_arguments(q)
  BY <1>1, <1>4, DataOut DEF Alive, InCall
<1>5. CASE ~bad_arguments(q) /\ P = 1
  <2>1. ~InCall(q)' /\ ~Landed(q)'
    BY <1>1, <1>5 DEF InCall, Landed, RecvPending
  <2>2. ASSUME NEW c \in Rank, NEW e \in Index, InChunk(q, c, e)'
        PROVE  mem'[q]["data"][e] = RingFold(c, round'[q], e)[P - 1]
    <3>1. c = q /\ P - 1 = 0
      BY <1>5 DEF Rank
    <3>2. RingFold(c, round'[q], e)[0] = Input(c, round'[q], e)
      BY RingFoldDef
    <3> QED
      BY <1>2, <1>3, <1>5, <2>2, <3>1, <3>2
  <2> QED
    BY <2>1, <2>2 DEF DataOf, ArrivalsOf, WholeOf, ValuesOf, Correct
<1>6. CASE ~bad_arguments(q) /\ P # 1
  <2>1. pc'[q] = "post_recv" /\ ~Landed(q)' /\ P > 1
    BY <1>1, <1>6 DEF Landed, RecvPending
  <2>2. WholeOf(q)'
    BY <1>2, <1>1 DEF WholeOf, Position
  <2>3. ASSUME NEW c \in Rank, NEW e \in Index, InChunk(q, c, e)', NEW D, D = mod_p(q - c)
        PROVE  mem'[q]["data"][e] =
                 IF pos(q)' < D THEN Input(q, round'[q], e)
                 ELSE IF Final(q, D)' THEN RingFold(c, round'[q], e)[P - 1]
                 ELSE RingFold(c, round'[q], e)[D]
    <3>1. D \in 0 .. P - 1 /\ mod_p(c + D) = q
      BY <2>3, Distance
    <3>2. mem'[q]["data"][e] = Input(q, round'[q], e)
      BY <1>2, <1>3, <1>6, <2>3
    <3>3. D = 0 => c = q
      BY <1>1, <2>3, <3>1, ModP DEF Rank
    <3>4. ~Final(q, D)'
      BY <1>1, <1>2, <2>1, <3>1 DEF Final, Got
    <3>5. RingFold(c, round'[q], e)[0] = Input(c, round'[q], e)
      BY RingFoldDef
    <3>6. CASE D = 0
      BY <1>2, <3>2, <3>3, <3>4, <3>5, <3>6
    <3>7. CASE D # 0
      <4>1. pos(q)' < D
        BY <1>2, <3>1, <3>7, <1>1
      <4> QED
        BY <3>2, <4>1
    <3> QED BY <3>6, <3>7
  <2>4. ValuesOf(q)'
    BY <2>3 DEF ValuesOf
  <2> QED
    BY <2>1, <2>2, <2>4 DEF DataOf, ArrivalsOf, Correct, Returned
<1> QED
  BY <1>4, <1>5, <1>6

(***************************************************************************)
(* The byte_len check lets only whole chunks through.                      *)
(***************************************************************************)
LEMMA CheckedLength ==
  ASSUME Discipline, NEW q \in Rank, ArrivalsOf(q), WaitRecv(q)
  PROVE  /\ recv_chunk(q).count < SgeLimit
         /\ \A g \in Position :
              WholeOf(q) /\ g <= pos(q) => chunk(q, receives(q, g)).count < SgeLimit
<1>1. /\ InCall(q) /\ (recv_chunk(q).count > 0 => Landed(q))
  BY NextPosition
<1>2. recv_chunk(q).count \in Nat /\ recv_chunk(q) = chunk(q, receives(q, pos(q)))
      /\ pos(q) \in Int
  BY <1>1, AtPosition DEF Position
<1>3. recv_chunk(q).count < SgeLimit
  <2> DEFINE n == recv_chunk(q).count
  <2>1. CASE n > 0
    <3>1. wc(recv_cq, q).byte_len = n
      BY <2>1 DEF WaitRecv, received
    <3>2. wc(recv_cq, q).byte_len = n % SgeLimit
      BY <1>1, <2>1 DEF ArrivalsOf, Alive
    <3>3. n = n % SgeLimit /\ n \in Nat
      BY <1>2, <3>1, <3>2
    <3> HIDE DEF n
    <3>4. n < SgeLimit
      BY <3>3, SgeLimitAssumption
    <3> QED BY <3>4 DEF n
  <2>2. CASE ~(n > 0)
    BY <1>2, <2>2, SgeLimitAssumption
  <2> QED BY <2>1, <2>2
<1> QED
  BY <1>1, <1>2, <1>3 DEF WholeOf, Position

(***************************************************************************)
(* The end of a step: reduce_inplace turns the rank's own contribution     *)
(* into the next partial reduction, and after the last step every chunk is *)
(* the complete one.                                                       *)
(***************************************************************************)
LEMMA WaitRecvData ==
  ASSUME Discipline, NEW q \in Rank, DataOf(q), WaitRecv(q)
  PROVE  DataOf(q)'
<1> DEFINE g == pos(q)
           c0 == receives(q, g)
<1>1. /\ InCall(q) /\ pc[q] = "wait_recv" /\ round'[q] = round[q]
      /\ \/ pc'[q] = "post_recv" /\ pos(q)' = g + 1 /\ g # 2 * P - 3
         \/ pc'[q] = "idle" /\ g = 2 * P - 3 /\ phase[q] = 2
      /\ recv_cq'[q] = <<>> /\ (recv_chunk(q).count > 0 => Landed(q))
  BY NextPosition
<1>2. /\ args' = args /\ args \in [Rank -> Arg] /\ ArrivalsOf(q) /\ WholeOf(q) /\ ValuesOf(q)
  BY DEF WaitRecv, Discipline, TypeOK, DataOf
<1>3. /\ P \in Nat /\ P > 1 /\ g \in Position /\ step[q] \in Nat /\ step[q] < P - 1
      /\ phase[q] = 1 => g = step[q]
      /\ phase[q] # 1 => phase[q] = 2 /\ g = P - 1 + step[q]
      /\ c0 \in Rank /\ recv_chunk(q) = chunk(q, c0)
      /\ chunk(q, c0).count \in Nat /\ chunk(q, c0).offset \in Nat
  BY <1>1, AtPosition
<1>4. g \in Int /\ 0 <= g /\ g <= 2 * P - 3
  BY <1>3 DEF Position
<1>5. \A h \in Position : h <= g => chunk(q, receives(q, h)).count < SgeLimit
  BY <1>2, CheckedLength
<1>6. /\ \A c : chunk(q, c)' = chunk(q, c)
      /\ \A c, e : InChunk(q, c, e)' = InChunk(q, c, e)
      /\ ~Landed(q)'
  BY <1>1, <1>2 DEF chunk, InChunk, Landed
<1> HIDE DEF c0
<1>7. ASSUME NEW c \in Rank, NEW e \in Index, InChunk(q, c, e), chunk(q, c).count < SgeLimit,
             NEW D, D = mod_p(q - c)
      PROVE  /\ D \in 0 .. P - 1
             /\ c = c0 <=> g = D - 1 \/ g = P - 1 + D
             /\ c = c0 => Landed(q)
             /\ mem'[q]["data"][e] =
                  IF g + 1 < D THEN Input(q, round[q], e)
                  ELSE IF g + 1 > P - 1 + D THEN RingFold(c, round[q], e)[P - 1]
                  ELSE RingFold(c, round[q], e)[D]
  <2>1. /\ D \in 0 .. P - 1 /\ mod_p(c + D) = q
        /\ c = c0 <=> g = D - 1 \/ g = P - 1 + D
    BY <1>3, <1>7, Distance DEF c0
  <2>2. c = c0 => recv_chunk(q).count > 0
    BY <1>3, <1>7, SpanAssumption DEF InChunk, Index
  <2>3. mem[q]["data"][e] =
          IF g < D THEN Input(q, round[q], e)
          ELSE IF Final(q, D) THEN RingFold(c, round[q], e)[P - 1]
          ELSE RingFold(c, round[q], e)[D]
    BY <1>1, <1>2, <1>7 DEF ValuesOf
  <2>4. Final(q, D) <=> g + 1 > P - 1 + D
    BY <1>1, <1>3, <1>4, <2>1, <2>2 DEF Final, Got
  <2>5. CASE phase[q] = 1 /\ c = c0
    <3>1. g = D - 1 /\ D # 0 /\ g = step[q] /\ D \in 1 .. P - 1
      BY <1>3, <1>4, <2>1, <2>5
    <3>2. mem'[q]["data"][e] =
            Op(mem[q]["data"][e], mem[q]["scratch"][e - recv_chunk(q).offset])
      BY <1>3, <1>7, <2>2, <2>5 DEF WaitRecv, reduced, InChunk, Buffer
    <3>3. mem[q]["scratch"][e - recv_chunk(q).offset] = RingFold(c, round[q], e)[D - 1]
      <4>1. recv_chunk(q).count < SgeLimit /\ Landed(q) /\ Alive(q)
        BY <1>1, <1>3, <1>7, <2>2, <2>5 DEF Alive
      <4>2. receives(q, step[q]) = c
        BY <2>5, <3>1 DEF c0
      <4> QED
        BY <1>2, <1>7, <2>5, <3>1, <4>1, <4>2 DEF ArrivalsOf
    <3>4. RingFold(c, round[q], e)[D] =
            Op(Input(mod_p(c + D), round[q], e), RingFold(c, round[q], e)[D - 1])
      BY <3>1, RingFoldDef
    <3>5. mem[q]["data"][e] = Input(q, round[q], e)
      BY <2>3, <3>1, <1>4, <2>1
    <3>6. ~(g + 1 < D) /\ ~(g + 1 > P - 1 + D)
      BY <1>3, <1>4, <2>1, <3>1
    <3> QED
      BY <1>1, <2>1, <2>2, <3>2, <3>3, <3>4, <3>5, <3>6
  <2>6. CASE ~(phase[q] = 1 /\ c = c0)
    <3>1. mem'[q]["data"][e] = mem[q]["data"][e]
      <4>1. CASE mem' = mem
        BY <4>1
      <4>2. CASE phase[q] = 1 /\ mem' = reduced(q, recv_chunk(q))
        <5>1. ~InChunk(q, c0, e)
          BY <1>2, <1>3, <1>7, <2>6, <4>2, ChunksDisjoint, SpanAssumption DEF Index
        <5> QED
          BY <1>3, <4>2, <5>1 DEF reduced, InChunk, Buffer
      <4> QED
        BY <4>1, <4>2 DEF WaitRecv
    <3>2. g < D <=> g + 1 < D
      <4>1. g # D - 1
        BY <1>3, <1>4, <2>1, <2>6
      <4> QED BY <1>4, <2>1, <4>1
    <3> QED
      BY <1>1, <2>1, <2>2, <2>3, <2>4, <3>1, <3>2
  <2> QED BY <2>5, <2>6
<1>8. CASE pc'[q] = "post_recv" /\ pos(q)' = g + 1
  <2>1. WholeOf(q)'
    BY <1>4, <1>5, <1>6, <1>8 DEF WholeOf, Position
  <2>2. ASSUME NEW c \in Rank, NEW e \in Index, InChunk(q, c, e)', chunk(q, c)'.count < SgeLimit,
               NEW D, D = mod_p(q - c)
        PROVE  mem'[q]["data"][e] =
                 IF pos(q)' < D THEN Input(q, round'[q], e)
                 ELSE IF Final(q, D)' THEN RingFold(c, round'[q], e)[P - 1]
                 ELSE RingFold(c, round'[q], e)[D]
    <3>1. Final(q, D)' <=> g + 1 > P - 1 + D
      BY <1>6, <1>8 DEF Final, Got
    <3> QED
      BY <1>1, <1>6, <1>7, <1>8, <2>2, <3>1
  <2>3. ValuesOf(q)'
    BY <2>2 DEF ValuesOf
  <2> QED
    BY <1>6, <1>8, <2>1, <2>3 DEF DataOf, ArrivalsOf, Correct, Returned
<1>9. CASE pc'[q] = "idle" /\ g = 2 * P - 3
  <2>1. ~InCall(q)'
    BY <1>9 DEF InCall
  <2>2. ASSUME NEW c \in Rank, NEW e \in Index, InChunk(q, c, e)'
        PROVE  mem'[q]["data"][e] = RingFold(c, round'[q], e)[P - 1]
    <3> DEFINE D == mod_p(q - c)
               h == IF D = 0 THEN P - 1 ELSE D - 1
    <3>1. /\ D \in 0 .. P - 1
          /\ \A x \in Position : receives(q, x) = c <=> x = D - 1 \/ x = P - 1 + D
      BY Distance
    <3> HIDE DEF D
    <3>2. h \in Position /\ h <= g /\ (h = D - 1 \/ h = P - 1 + D)
      BY <1>3, <1>9, <3>1 DEF Position
    <3>3. chunk(q, c).count < SgeLimit
      BY <1>5, <3>1, <3>2
    <3>4. mem'[q]["data"][e] =
                  IF g + 1 < D THEN Input(q, round[q], e)
                  ELSE IF g + 1 > P - 1 + D THEN RingFold(c, round[q], e)[P - 1]
                  ELSE RingFold(c, round[q], e)[D]
      BY <1>6, <1>7, <2>2, <3>3 DEF D
    <3>5. ~(g + 1 < D) /\ (~(g + 1 > P - 1 + D) => D = P - 1)
      BY <1>3, <1>4, <1>9, <3>1
    <3> QED
      BY <1>1, <3>4, <3>5
  <2> QED
    BY <1>6, <2>1, <2>2 DEF DataOf, ArrivalsOf, WholeOf, ValuesOf, Correct
<1> QED
  BY <1>1, <1>8, <1>9

(***************************************************************************)
(* A message carries the partial reduction of the sender's position into   *)
(* scratch, or the complete one into data.                                 *)
(***************************************************************************)
LEMMA DeliverData ==
  ASSUME Discipline, SameCount, Paired, NEW s \in Rank, NEW d \in Rank,
         ValuesOf(s), DataOf(d), Deliver(s, d), UNCHANGED ctl, Alive(d)
  PROVE  DataOf(d)'
<1> DEFINE g == pos(d)
           c0 == receives(d, g)
           n == chunk(d, c0).count
           off == chunk(d, c0).offset
<1>1. /\ InCall(s) /\ InCall(d) /\ RecvPending(d) /\ Arrived(s, d)
      /\ sq[s][d] = <<send_request(s)>> /\ rq[d][s] = <<recv_request(d)>>
      /\ recv_cq[d] = <<>>
  BY OnTheWay DEF Deliver
<1>2. /\ round[s] = round[d] /\ pos(s) = g /\ sends(s, g) = c0
      /\ send_chunk(s) = recv_chunk(d)
  BY <1>1, Matched DEF SameSkips
<1>3. /\ P \in Nat /\ P > 1 /\ g \in Position /\ step[d] \in Nat /\ step[d] < P - 1
      /\ phase[d] = 1 => g = step[d]
      /\ phase[d] # 1 => phase[d] = 2 /\ g = P - 1 + step[d]
      /\ c0 \in Rank /\ recv_chunk(d) = chunk(d, c0) /\ n \in Nat /\ off \in Nat
  BY <1>1, AtPosition
<1>4. g \in Int /\ 0 <= g /\ g <= 2 * P - 3
  BY <1>3 DEF Position
<1>5. UNCHANGED <<args, round, phase, step, pc>>
  BY DEF ctl
<1>6. /\ pos(d)' = g /\ recv_chunk(d)' = recv_chunk(d) /\ RecvPending(d)'
      /\ InCall(d)'
      /\ \A c : chunk(d, c)' = chunk(d, c)
      /\ \A c, e : InChunk(d, c, e)' = InChunk(d, c, e)
  BY <1>1, <1>5 DEF pos, recv_chunk, chunk, InChunk, RecvPending, InCall
<1>7. chunk(s, c0) = chunk(d, c0)
  BY AgreedChunks
<1>8. /\ Head(sq[s][d]) = [buf |-> "data", off |-> off, len |-> n % SgeLimit]
      /\ Head(rq[d][s]).buf = (IF phase[d] = 1 THEN "scratch" ELSE "data")
      /\ Head(rq[d][s]).off = (IF phase[d] = 1 THEN 0 ELSE off)
  BY <1>1, <1>2, <1>3, AppendToEmpty DEF send_request, recv_request, sge
<1>9. recv_cq'[d] = <<cqe("SUCCESS", n % SgeLimit)>>
  <2>1. recv_cq' = [recv_cq EXCEPT ![d] = Append(@, cqe("SUCCESS", Head(sq[s][d]).len))]
    BY DEF Deliver
  <2>2. Head(sq[s][d]).len = n % SgeLimit
    BY <1>8
  <2>3. recv_cq'[d] = Append(<<>>, cqe("SUCCESS", n % SgeLimit))
    BY <1>1, <2>1, <2>2 DEF Discipline, TypeOK, TransportTypeOK
  <2> QED BY <2>3, AppendToEmpty
<1>10. Landed(d)' /\ wc(recv_cq, d)'.byte_len = n % SgeLimit
  BY <1>6, <1>9, AppendToEmpty DEF Landed, wc, cqe
<1> DEFINE buf == IF phase[d] = 1 THEN "scratch" ELSE "data"
           to == IF phase[d] = 1 THEN 0 ELSE off
           m == n % SgeLimit
<1>11. \A b \in Buffer, e \in Index :
         mem'[d][b][e] = IF b = buf /\ e \in to .. to + m - 1
                         THEN mem[s]["data"][off + (e - to)] ELSE mem[d][b][e]
  <2> DEFINE snd == Head(sq[s][d])
             rcv == Head(rq[d][s])
  <2>1. mem' = dma(s, snd, d, rcv)
    BY DEF Deliver
  <2>2. /\ snd.buf = "data" /\ snd.off = off /\ snd.len = m
        /\ rcv.buf = buf /\ rcv.off = to
    BY <1>8
  <2> HIDE DEF snd, rcv, off, m, buf, to
  <2>3. \A b \in Buffer, e \in Index :
          mem'[d][b][e] = IF b = rcv.buf /\ e \in rcv.off .. rcv.off + snd.len - 1
                          THEN mem[s][snd.buf][snd.off + (e - rcv.off)] ELSE mem[d][b][e]
    BY <2>1 DEF dma
  <2> QED BY <2>2, <2>3
<1>12. n % SgeLimit \in Nat /\ n % SgeLimit <= n /\ (n < SgeLimit => n % SgeLimit = n)
  BY <1>3, SgeLimitAssumption
<1>13. ASSUME NEW e \in Index, InChunk(d, c0, e), n < SgeLimit
       PROVE  mem[s]["data"][e] =
                IF phase[d] = 1 THEN RingFold(c0, round[d], e)[g]
                ELSE RingFold(c0, round[d], e)[P - 1]
  <2> DEFINE D == mod_p(s - c0)
  <2>1. D \in 0 .. P - 1 /\ (g = D \/ g = P + D)
    BY <1>2, <1>3, Distance
  <2>2. mem[s]["data"][e] =
          IF g < D THEN Input(s, round[s], e)
          ELSE IF Final(s, D) THEN RingFold(c0, round[s], e)[P - 1]
          ELSE RingFold(c0, round[s], e)[D]
    BY <1>1, <1>2, <1>3, <1>7, <1>13 DEF ValuesOf, InChunk
  <2> HIDE DEF D
  <2>3. g > P - 1 + D => Final(s, D)
    BY <1>2 DEF Final, Got
  <2>4. g < P - 1 + D => ~Final(s, D)
    BY <1>2, <1>3, <1>4, <2>1 DEF Final, Got
  <2>5. CASE phase[d] = 1
    BY <1>2, <1>3, <2>1, <2>2, <2>4, <2>5
  <2>6. CASE phase[d] # 1
    <3>1. g = D => D = P - 1
      BY <1>3, <2>1, <2>6
    <3>2. g < D \/ g = D \/ g > P - 1 + D
      BY <1>3, <1>4, <2>1
    <3>3. g = D => g < P - 1 + D
      BY <1>3, <2>1
    <3>4. ~(g < D)
      BY <1>3, <2>1
    <3> QED
      BY <1>2, <2>2, <2>3, <2>4, <2>6, <3>1, <3>2, <3>3, <3>4
  <2> QED BY <2>5, <2>6
<1> HIDE DEF n, off, c0, g
<1>14. ArrivalsOf(d)'
  <2>1. ASSUME phase[d] = 1, n < SgeLimit, NEW e \in Index, InChunk(d, c0, e)
        PROVE  mem'[d]["scratch"][e - off] = RingFold(c0, round[d], e)[step[d]]
    <3>1. /\ e \in Int /\ e - off \in Index /\ e - off \in 0 .. 0 + n - 1
          /\ off + ((e - off) - 0) = e
      BY <1>3, <2>1, SpanAssumption DEF InChunk, Index, n, off
    <3>2. mem'[d]["scratch"][e - off] = mem[s]["data"][off + ((e - off) - 0)]
      BY <1>11, <1>12, <2>1, <3>1 DEF Buffer
    <3>3. mem'[d]["scratch"][e - off] = mem[s]["data"][e]
      BY <3>1, <3>2, Zenon
    <3> QED
      BY <1>3, <1>13, <2>1, <3>3
  <2>2. phase[d] = 1 => receives(d, step[d]) = c0
    BY <1>3 DEF c0, g
  <2>3. recv_chunk(d).count = n /\ recv_chunk(d).offset = off
    BY <1>3 DEF n, off
  <2> QED
    BY <1>5, <1>6, <1>10, <2>1, <2>2, <2>3 DEF ArrivalsOf
<1>15. WholeOf(d)'
  <2>1. WholeOf(d)
    BY DEF DataOf
  <2> QED
    BY <1>1, <1>6, <2>1 DEF WholeOf, g
<1>16. ASSUME NEW c \in Rank, NEW e \in Index, InChunk(d, c, e)', chunk(d, c)'.count < SgeLimit,
              NEW D, D = mod_p(d - c)
       PROVE  mem'[d]["data"][e] =
                IF pos(d)' < D THEN Input(d, round'[d], e)
                ELSE IF Final(d, D)' THEN RingFold(c, round'[d], e)[P - 1]
                ELSE RingFold(c, round'[d], e)[D]
  <2>1. /\ D \in 0 .. P - 1
        /\ c = c0 <=> g = D - 1 \/ g = P - 1 + D
    BY <1>3, <1>16, Distance DEF c0
  <2>2. InChunk(d, c, e) /\ chunk(d, c).count < SgeLimit
    BY <1>6, <1>16
  <2>3. mem[d]["data"][e] =
                IF g < D THEN Input(d, round[d], e)
                ELSE IF Final(d, D) THEN RingFold(c, round[d], e)[P - 1]
                ELSE RingFold(c, round[d], e)[D]
    BY <1>1, <1>16, <2>2 DEF DataOf, ValuesOf, g
  <2>4. /\ Final(d, D) <=> g > P - 1 + D
        /\ Final(d, D)' <=> g >= P - 1 + D
    <3>1. ~Landed(d)
      BY <1>1 DEF Landed
    <3> QED
      BY <1>3, <1>4, <1>6, <1>10, <2>1, <3>1 DEF Final, Got, g
  <2>5. CASE c = c0 /\ phase[d] # 1
    <3>1. g = P - 1 + D /\ ~(g < D)
      BY <1>3, <2>1, <2>5
    <3>2. n < SgeLimit
      BY <2>2, <2>5 DEF n
    <3>3. e \in off .. off + n - 1 /\ off + (e - off) = e
      BY <1>3, <2>2, <2>5, SpanAssumption DEF InChunk, n, off, Index
    <3>4. mem'[d]["data"][e] = mem[s]["data"][e]
      <4>1. mem'[d]["data"][e] = mem[s]["data"][off + (e - off)]
        BY <1>11, <1>12, <2>5, <3>2, <3>3 DEF Buffer
      <4> QED BY <3>3, <4>1, Zenon
    <3>5. mem[s]["data"][e] = RingFold(c, round[d], e)[P - 1]
      BY <1>13, <2>2, <2>5, <3>2
    <3>6. Final(d, D)' /\ ~(pos(d)' < D)
      BY <1>6, <1>4, <2>1, <2>4, <3>1
    <3> QED
      BY <1>5, <3>4, <3>5, <3>6
  <2>6. CASE ~(c = c0 /\ phase[d] # 1)
    <3>1. g # P - 1 + D
      BY <1>3, <1>4, <2>1, <2>6
    <3>2. Final(d, D)' <=> Final(d, D)
      BY <1>3, <1>4, <2>1, <2>4, <3>1
    <3>3. mem'[d]["data"][e] = mem[d]["data"][e]
      <4>1. CASE phase[d] = 1
        BY <1>11, <4>1 DEF Buffer
      <4>2. CASE phase[d] # 1
        <5>1. ~InChunk(d, c0, e)
          BY <1>3, <2>2, <2>6, <4>2, ChunksDisjoint, SpanAssumption
             DEF Index, Discipline, TypeOK
        <5>2. e \notin off .. off + (n % SgeLimit) - 1
          BY <1>3, <1>12, <5>1 DEF InChunk, n, off
        <5> QED
          BY <1>11, <4>2, <5>2 DEF Buffer
      <4> QED BY <4>1, <4>2
    <3> QED
      BY <1>5, <1>6, <2>3, <3>2, <3>3
  <2> QED BY <2>5, <2>6
<1>17. ValuesOf(d)'
  BY <1>16 DEF ValuesOf
<1>18. Correct(d)'
  BY <1>6 DEF Correct, Returned, InCall
<1> QED
  BY <1>14, <1>15, <1>17, <1>18 DEF DataOf

(***************************************************************************)
(* Every step keeps the contents of every rank's buffers as its position   *)
(* says, when the ranks agree on count.                                    *)
(***************************************************************************)
LEMMA DataStep ==
  ASSUME Discipline, SameCount, Paired, \A r \in Rank : DataOf(r), [Next]_vars, NEW q \in Rank
  PROVE  DataOf(q)'
<1>1. /\ args' = args /\ DataOf(q) /\ RecvQueueOf(q)
      /\ pc \in [Rank -> {"idle", "post_recv", "post_send", "wait_send",
                          "wait_recv", "threw", "exited", "finished"}]
      /\ phase \in [Rank -> {1, 2}] /\ step \in [Rank -> Nat]
      /\ round \in [Rank -> 0 .. MaxRounds]
      /\ recv_cq \in [Rank -> Seq(Completion)]
  BY SameArguments DEF Discipline, RecvQueue, TypeOK, TransportTypeOK
<1>2. ASSUME pc'[q] = pc[q], phase'[q] = phase[q], step'[q] = step[q], round'[q] = round[q],
             \A b \in Buffer, e \in Index : mem'[q][b][e] = mem[q][b][e],
             recv_cq'[q] = recv_cq[q]
      PROVE  DataOf(q)'
  <2>1. InCall(q)' = InCall(q) /\ (Landed(q)' <=> Landed(q))
    BY <1>1, <1>2 DEF InCall, Landed, RecvPending, recv_chunk, chunk, wc
  <2> QED
    BY <1>1, <1>2, <2>1, DataFrame
<1>3. ASSUME NEW r \in Rank, RankStep(r), r # q PROVE DataOf(q)'
  <2>1. /\ pc'[q] = pc[q] /\ phase'[q] = phase[q] /\ step'[q] = step[q]
        /\ round'[q] = round[q]
    BY <1>1, <1>3 DEF RankStep, Call, PostRecv, PostSend, WaitSend, WaitRecv, advance,
                      Throw, Exit, Finish
  <2>2. recv_cq'[q] = recv_cq[q]
    BY <1>1, <1>3 DEF RankStep, Call, PostRecv, PostSend, WaitSend, WaitRecv,
                      Throw, Exit, Finish, destroy, take, nic
  <2>3. \A b \in Buffer, e \in Index : mem'[q][b][e] = mem[q][b][e]
    <3>1. CASE mem' = mem
      BY <3>1
    <3>2. CASE Call(r)
      BY <1>3, <3>2 DEF Call
    <3>3. CASE mem' = reduced(r, recv_chunk(r))
      BY <1>3, <3>3 DEF reduced
    <3> QED
      BY <1>3, <3>1, <3>2, <3>3
         DEF RankStep, PostRecv, PostSend, WaitSend, WaitRecv, Throw, Exit, Finish
  <2> QED BY <1>2, <2>1, <2>2, <2>3
<1>4. CASE PostRecv(q) \/ PostSend(q) \/ WaitSend(q)
  <2>1. /\ UNCHANGED <<phase, step, round, mem, recv_cq>>
        /\ pc[q] \in {"post_recv", "post_send", "wait_send"}
        /\ pc'[q] \in {"post_send", "wait_send", "wait_recv"}
        /\ pc[q] = "post_recv" => PostRecv(q)
    BY <1>1, <1>4 DEF PostRecv, PostSend, WaitSend
  <2>2. InCall(q)' = InCall(q)
    BY <2>1 DEF InCall
  <2>3. Landed(q)' <=> Landed(q)
    <3>1. CASE pc[q] = "post_recv"
      <4>1. recv_cq[q] = <<>>
        BY <1>1, <3>1 DEF RecvQueueOf, Alive, InCall, RecvPending
      <4> QED
        BY <2>1, <4>1 DEF Landed
    <3>2. CASE pc[q] # "post_recv"
      BY <1>1, <2>1, <3>2 DEF Landed, RecvPending, recv_chunk, chunk, wc
    <3> QED BY <3>1, <3>2
  <2> QED
    BY <1>1, <2>1, <2>2, <2>3, DataFrame
<1>5. CASE Throw(q) \/ Exit(q) \/ Finish(q)
  BY <1>1, <1>5, DataOut DEF Throw, Exit, Finish, Alive, InCall
<1>6. ASSUME NEW c, ~(c.status = "SUCCESS"), recv_cq[q] = <<>>,
             recv_cq' = [recv_cq EXCEPT ![q] = Append(@, c)], mem' = mem, UNCHANGED ctl
      PROVE  DataOf(q)'
  <2>1. recv_cq'[q] = <<c>> /\ Head(<<c>>) = c
    BY <1>1, <1>6, AppendToEmpty
  <2>2. ~Landed(q)' /\ ~Landed(q)
    BY <1>6, <2>1 DEF Landed, wc
  <2>3. UNCHANGED <<pc, phase, step, round>> /\ InCall(q)' = InCall(q)
    BY <1>6 DEF ctl, InCall
  <2> QED
    BY <1>1, <1>6, <2>2, <2>3, DataFrame
<1>7. ASSUME NEW s \in Rank, NEW d \in Rank, AdapterStep(s, d), UNCHANGED ctl
      PROVE  DataOf(q)'
  <2>1. UNCHANGED <<pc, phase, step, round>>
    BY <1>7 DEF ctl
  <2>2. CASE Deliver(s, d) /\ d # q
    <3>1. \A b \in Buffer, e \in Index : mem'[q][b][e] = mem[q][b][e]
      BY <2>2 DEF Deliver, dma
    <3> QED
      BY <1>1, <1>2, <2>1, <2>2, <3>1 DEF Deliver
  <2>3. CASE Deliver(s, d) /\ d = q /\ Alive(q)
    <3>1. ValuesOf(s)
      BY DEF DataOf
    <3> QED
      BY <1>7, <2>3, <3>1, DeliverData
  <2>4. CASE Deliver(s, d) /\ d = q /\ ~Alive(q)
    BY <2>1, <2>4, DataOut DEF Alive, InCall
  <2>5. CASE LengthError(s, d) /\ d # q
    BY <1>1, <1>2, <2>1, <2>5 DEF LengthError
  <2>6. CASE LengthError(s, d) /\ d = q
    <3>1. recv_cq[q] = <<>>
      BY <2>6, OnTheWay DEF LengthError
    <3>2. ~(cqe("LOC_LEN_ERR", 0).status = "SUCCESS")
      BY DEF cqe
    <3>3. /\ recv_cq' = [recv_cq EXCEPT ![q] = Append(@, cqe("LOC_LEN_ERR", 0))]
          /\ mem' = mem
      BY <2>6 DEF LengthError
    <3> QED
      BY <1>6, <1>7, <3>1, <3>2, <3>3
  <2>7. CASE FlushRecv(s, d) /\ s # q
    BY <1>1, <1>2, <2>1, <2>7 DEF FlushRecv
  <2>8. CASE FlushRecv(s, d) /\ s = q
    <3>1. rq[q][d] # <<>>
      BY <2>8 DEF FlushRecv
    <3>2. recv_cq[q] = <<>>
      BY <1>1, <3>1 DEF RecvQueueOf
    <3>3. ~(cqe("WR_FLUSH_ERR", 0).status = "SUCCESS")
      BY DEF cqe
    <3>4. /\ recv_cq' = [recv_cq EXCEPT ![q] = Append(@, cqe("WR_FLUSH_ERR", 0))]
          /\ mem' = mem
      BY <2>8 DEF FlushRecv
    <3> QED
      BY <1>6, <1>7, <3>2, <3>3, <3>4
  <2>9. CASE Complete(s, d) \/ RetryExceeded(s, d) \/ FlushSend(s, d)
    BY <1>2, <2>1, <2>9 DEF Complete, RetryExceeded, FlushSend, FinishSend
  <2> QED
    BY <1>7, <2>2, <2>3, <2>4, <2>5, <2>6, <2>7, <2>8, <2>9 DEF AdapterStep
<1>8. CASE UNCHANGED vars
  BY <1>2, <1>8 DEF vars, nic
<1> QED
  BY <1>1, <1>3, <1>4, <1>5, <1>7, <1>8, CallData, WaitRecvData
     DEF Next, RankStep, Nic, Terminating

-----------------------------------------------------------------------------
(***************************************************************************)
(* RingInv is an invariant of allreduce_ring for every P, Span, SgeLimit,  *)
(* every set of calls, any number of rounds and every reduction, with and  *)
(* without teardown.                                                       *)
(***************************************************************************)
THEOREM RingInvariant == Spec => []RingInv
<1>1. Init => RingInv
  <2> SUFFICES ASSUME Init PROVE RingInv
    OBVIOUS
  <2>1. Discipline
    BY InitDiscipline
  <2>2. \A r \in Rank : pc[r] = "idle" /\ round[r] = 0
    BY DEF Init
  <2>3. \A r \in Rank : DataOf(r)
    BY <2>2 DEF DataOf, ArrivalsOf, Landed, RecvPending, WholeOf, ValuesOf, InCall, Correct, Returned
  <2>4. Paired
    BY InitPaired
  <2> QED
    BY <2>1, <2>3, <2>4
       DEF Discipline, RingInv, DataOf, Arrivals, Whole, Values, FullyReduced, LoudOrCorrect
<1>2. RingInv /\ [Next]_vars => RingInv'
  <2> SUFFICES ASSUME RingInv, [Next]_vars PROVE RingInv'
    OBVIOUS
  <2>1. Discipline /\ Paired /\ SameCount' = SameCount
    BY SameArguments DEF RingInv, Discipline
  <2>2. TypeOK' /\ Control' /\ SendQueue' /\ RecvQueue'
    BY <2>1, TypeStep, ControlStep, SendQueueStep, RecvQueueStep DEF Discipline
  <2>3. Paired'
    BY <2>1, PairedStep
  <2>4. SameCount => \A r \in Rank : DataOf(r)
    BY DEF RingInv, DataOf, Arrivals, Whole, Values, FullyReduced, LoudOrCorrect
  <2>5. SameCount => \A r \in Rank : DataOf(r)'
    BY <2>1, <2>4, DataStep
  <2>6. Arrivals' /\ Whole' /\ Values' /\ FullyReduced'
    BY <2>1, <2>5 DEF DataOf, Arrivals, Whole, Values, FullyReduced, LoudOrCorrect
  <2> QED
    BY <2>2, <2>3, <2>6 DEF RingInv, Discipline
<1> QED
  BY <1>1, <1>2, PTL DEF Spec

(***************************************************************************)
(* When the ranks agree on count, whatever else goes wrong, allreduce_ring *)
(* returns the complete reduction of that call in every element on every   *)
(* rank, or does not return.                                               *)
(***************************************************************************)
THEOREM FullyReducedTheorem == Spec => []FullyReduced
<1>1. RingInv => FullyReduced
  BY DEF RingInv
<1> QED
  BY <1>1, RingInvariant, PTL

-----------------------------------------------------------------------------
(* Memory.                                                                 *)

(***************************************************************************)
(* A request has the place it was posted with, and at most its length.     *)
(***************************************************************************)
LEMMA SgeShape ==
  ASSUME NEW buf, NEW off \in Nat, NEW len \in Nat
  PROVE  /\ sge(buf, off, len).buf = buf /\ sge(buf, off, len).off = off
         /\ sge(buf, off, len).len \in Nat /\ sge(buf, off, len).len <= len
<1>1. len % SgeLimit \in Nat /\ len % SgeLimit <= len
  <2>1. len % SgeLimit \in 0 .. SgeLimit - 1 /\ SgeLimit \in Nat \ {0}
    BY SgeLimitAssumption
  <2>2. CASE len < SgeLimit
    BY <2>1, <2>2
  <2>3. CASE len >= SgeLimit
    BY <2>1, <2>3
  <2> QED BY <2>1, <2>2, <2>3
<1> QED
  BY <1>1 DEF sge

(***************************************************************************)
(* Who writes to the memory of a rank: its refill, its reduce_inplace and  *)
(* the adapter that delivers a message to it.                              *)
(***************************************************************************)
LEMMA Writers ==
  ASSUME [Next]_vars, NEW q \in Rank
  PROVE  \/ \A b \in Buffer, e \in Index : mem'[q][b][e] = mem[q][b][e]
         \/ Call(q)
         \/ WaitRecv(q) /\ mem' = reduced(q, recv_chunk(q))
         \/ \E s \in Rank : Deliver(s, q) /\ UNCHANGED ctl
<1> DEFINE Kept == \A b \in Buffer, e \in Index : mem'[q][b][e] = mem[q][b][e]
<1>1. CASE UNCHANGED mem
  BY <1>1
<1>2. ASSUME NEW r \in Rank, Call(r), r # q PROVE Kept
  BY <1>2 DEF Call
<1>3. ASSUME NEW r \in Rank, WaitRecv(r), r # q PROVE Kept
  <2>1. mem' = mem \/ mem' = reduced(r, recv_chunk(r))
    BY <1>3 DEF WaitRecv
  <2> QED
    BY <1>3, <2>1 DEF reduced
<1>4. WaitRecv(q) => mem' = mem \/ mem' = reduced(q, recv_chunk(q))
  BY DEF WaitRecv
<1>5. ASSUME NEW s \in Rank, NEW d \in Rank, Deliver(s, d), d # q PROVE Kept
  BY <1>5 DEF Deliver, dma
<1>6. ASSUME NEW r \in Rank, PostRecv(r) \/ PostSend(r) \/ WaitSend(r) \/ Throw(r)
                             \/ Exit(r) \/ Finish(r)
      PROVE  UNCHANGED mem
  BY <1>6 DEF PostRecv, PostSend, WaitSend, Throw, Exit, Finish
<1>7. ASSUME NEW s \in Rank, NEW d \in Rank, AdapterStep(s, d)
      PROVE  UNCHANGED mem \/ Deliver(s, d)
  BY <1>7 DEF AdapterStep, LengthError, Complete, RetryExceeded, FlushSend, FlushRecv,
              FinishSend
<1> QED
  BY <1>1, <1>2, <1>3, <1>4, <1>5, <1>6, <1>7 DEF Next, RankStep, Nic, Terminating, vars

(***************************************************************************)
(* The only write that is not a rank's own goes to the receive the rank    *)
(* has outstanding.                                                        *)
(***************************************************************************)
LEMMA DeliverWrites ==
  ASSUME TypeOK, RecvQueue, NEW s \in Rank, NEW d \in Rank, Deliver(s, d)
  PROVE  LET rcv == Head(rq[d][recv_from(d)])
         IN  /\ s = recv_from(d) /\ rq[d][recv_from(d)] # <<>> /\ rcv \in WorkRequest
             /\ \A b \in Buffer, e \in Index :
                  mem'[d][b][e] # mem[d][b][e] =>
                    b = rcv.buf /\ e \in rcv.off .. rcv.off + rcv.len - 1
<1> DEFINE snd == Head(sq[s][d])
           rcv == Head(rq[d][s])
<1>1. rq[d][s] # <<>> /\ sq[s][d] # <<>> /\ RecvQueueOf(d)
  BY DEF Deliver, Arrived, RecvQueue
<1>2. s = recv_from(d)
  BY <1>1 DEF RecvQueueOf
<1>3. snd \in WorkRequest /\ rcv \in WorkRequest
  BY <1>1, WorkQueueType DEF TypeOK, TransportTypeOK
<1>4. snd.len \in Nat /\ rcv.len \in Nat /\ rcv.off \in Nat /\ snd.len <= rcv.len
  BY <1>3 DEF WorkRequest, Deliver
<1>5. mem' = dma(s, snd, d, rcv)
  BY DEF Deliver
<1> HIDE DEF snd, rcv
<1>6. ASSUME NEW b \in Buffer, NEW e \in Index, mem'[d][b][e] # mem[d][b][e]
      PROVE  b = rcv.buf /\ e \in rcv.off .. rcv.off + rcv.len - 1
  <2>1. b = rcv.buf /\ e \in rcv.off .. rcv.off + snd.len - 1
    BY <1>5, <1>6 DEF dma
  <2> QED
    BY <1>4, <2>1
<1> QED
  BY <1>1, <1>2, <1>3, <1>6 DEF rcv

(***************************************************************************)
(* In a call of several ranks a rank never sends the chunk it receives.    *)
(***************************************************************************)
LEMMA OtherChunk ==
  ASSUME NEW r \in Rank, NEW g \in Position, P > 1
  PROVE  sends(r, g) # receives(r, g)
<1> DEFINE c == sends(r, g)
           D == mod_p(r - c)
<1>1. c \in Rank
  BY SameChunk
<1>2. /\ g = D \/ g = P + D
      /\ receives(r, g) = c => g = D - 1 \/ g = P - 1 + D
      /\ D \in 0 .. P - 1
  BY <1>1, Distance
<1>3. g \in Int /\ P \in Int
  BY PAssumption DEF Position
<1> HIDE DEF D
<1> QED
  BY <1>2, <1>3

(***************************************************************************)
(* A send that is outstanding is the one its rank waits for, and a receive *)
(* beside it is that of the same step.                                     *)
(***************************************************************************)
LEMMA OutstandingRequests ==
  ASSUME Discipline, NEW r \in Rank, NEW snd \in Outstanding(sq, r)
  PROVE  /\ SendPending(r) /\ InCall(r) /\ Alive(r) /\ snd = send_request(r)
         /\ \A rcv \in Outstanding(rq, r) : rcv = recv_request(r)
<1>1. SendQueueOf(r) /\ RecvQueueOf(r) /\ send_to(r) \in Rank /\ recv_from(r) \in Rank
  BY Neighbours DEF Discipline, SendQueue, RecvQueue
<1>2. PICK p \in Rank : \E i \in 1 .. Len(sq[r][p]) : snd = sq[r][p][i]
  BY DEF Outstanding
<1>3. sq[r][p] # <<>>
  BY <1>2
<1>4. p = send_to(r) /\ SendPending(r) /\ sq[r][p] = <<send_request(r)>>
  BY <1>1, <1>3 DEF SendQueueOf
<1>5. snd = send_request(r) /\ InCall(r) /\ Alive(r)
  BY <1>2, <1>4 DEF SendPending, InCall, Alive
<1>6. ASSUME NEW rcv \in Outstanding(rq, r) PROVE rcv = recv_request(r)
  <2>1. PICK o \in Rank : \E i \in 1 .. Len(rq[r][o]) : rcv = rq[r][o][i]
    BY DEF Outstanding
  <2>2. rq[r][o] # <<>>
    BY <2>1
  <2>3. rq[r][o] = <<recv_request(r)>>
    BY <1>1, <1>5, <2>2 DEF RecvQueueOf
  <2> QED
    BY <2>1, <2>3
<1> QED
  BY <1>4, <1>5, <1>6

(***************************************************************************)
(* The two requests of a step do not overlap: the reduce-scatter receives  *)
(* into scratch, the allgather into another chunk than the one it sends.   *)
(***************************************************************************)
LEMMA RequestsApart ==
  ASSUME Discipline, NEW r \in Rank, InCall(r)
  PROVE  Region(send_request(r)) \cap Region(recv_request(r)) = {}
<1> SUFFICES ASSUME NEW x, x \in Region(send_request(r)), x \in Region(recv_request(r))
             PROVE  FALSE
  OBVIOUS
<1> DEFINE g == pos(r)
           c == sends(r, g)
           d == receives(r, g)
<1>1. /\ P > 1 /\ g \in Position /\ c \in Rank /\ d \in Rank
      /\ send_chunk(r) = chunk(r, c) /\ recv_chunk(r) = chunk(r, d)
      /\ send_chunk(r).offset \in Nat /\ send_chunk(r).count \in Nat
      /\ recv_chunk(r).offset \in Nat /\ recv_chunk(r).count \in Nat
  BY AtPosition
<1>2. /\ send_request(r).buf = "data" /\ send_request(r).off = chunk(r, c).offset
      /\ send_request(r).len \in Nat /\ send_request(r).len <= chunk(r, c).count
  BY <1>1, SgeShape DEF send_request
<1>3. CASE phase[r] = 1
  <2>1. recv_request(r).buf = "scratch"
    BY <1>1, <1>3, SgeShape DEF recv_request
  <2> QED
    BY <1>2, <2>1 DEF Region
<1>4. CASE phase[r] # 1
  <2>1. /\ recv_request(r).off = chunk(r, d).offset
        /\ recv_request(r).len \in Nat /\ recv_request(r).len <= chunk(r, d).count
    BY <1>1, <1>4, SgeShape DEF recv_request
  <2>2. x[2] \in Int /\ InChunk(r, c, x[2]) /\ InChunk(r, d, x[2])
    <3>1. /\ x[2] \in chunk(r, c).offset .. chunk(r, c).offset + send_request(r).len - 1
          /\ x[2] \in chunk(r, d).offset .. chunk(r, d).offset + recv_request(r).len - 1
      BY <1>2, <2>1 DEF Region
    <3> QED
      BY <1>1, <1>2, <2>1, <3>1 DEF InChunk
  <2>3. c = d
    BY <1>1, <2>2, ChunksDisjoint DEF Discipline, TypeOK
  <2> QED
    BY <1>1, <2>3, OtherChunk
<1> QED BY <1>3, <1>4

(***************************************************************************)
(* The adapter of a rank never writes where it may still be reading: for   *)
(* every number of ranks and whatever they pass, no outstanding receive    *)
(* overlaps an outstanding send of the same rank.                          *)
(***************************************************************************)
THEOREM NoDmaConflictTheorem == Spec => []NoDmaConflict
<1>1. Discipline => NoDmaConflict
  <2> SUFFICES ASSUME Discipline, NEW r \in Rank, NEW snd \in Outstanding(sq, r),
                      NEW rcv \in Outstanding(rq, r)
               PROVE  Region(snd) \cap Region(rcv) = {}
    BY DEF NoDmaConflict
  <2> QED
    BY OutstandingRequests, RequestsApart
<1> QED
  BY <1>1, QueueDiscipline, PTL

(***************************************************************************)
(* Before a receive is posted its length has been checked: the scratch of  *)
(* a rank in a call holds its largest chunk.                               *)
(***************************************************************************)
LEMMA RequestFits ==
  ASSUME Discipline, NEW r \in Rank, InCall(r)
  PROVE  Fits(r, recv_request(r))
<1>1. /\ P > 1 /\ recv_chunk(r).offset \in Nat /\ recv_chunk(r).count \in Nat
      /\ phase[r] # 1 => phase[r] = 2
  BY AtPosition
<1>2. /\ recv_chunk(r).offset + recv_chunk(r).count <= args[r].count
      /\ recv_chunk(r).count <= max_chunk_elems(r)
  BY StepChunks DEF Discipline
<1>3. /\ args[r].count \in Nat /\ args[r].scratch \in Nat /\ max_chunk_elems(r) \in Nat
  <2>1. 0 \in Rank
    BY PAssumption DEF Rank
  <2> QED
    BY <2>1, ChunkInData, SpanAssumption DEF Discipline, TypeOK
<1>4. ~bad_arguments(r)
  BY DEF Discipline, Control, ControlOf
<1>5. max_chunk_elems(r) <= args[r].scratch
  BY <1>1, <1>3, <1>4 DEF bad_arguments
<1>6. CASE phase[r] = 1
  <2>1. /\ recv_request(r).buf = "scratch" /\ recv_request(r).off = 0
        /\ recv_request(r).len \in Nat /\ recv_request(r).len <= recv_chunk(r).count
    BY <1>1, <1>6, SgeShape DEF recv_request
  <2> QED
    BY <1>1, <1>2, <1>3, <1>5, <2>1 DEF Fits
<1>7. CASE phase[r] # 1
  <2>1. /\ recv_request(r).buf = "data" /\ recv_request(r).off = recv_chunk(r).offset
        /\ recv_request(r).len \in Nat /\ recv_request(r).len <= recv_chunk(r).count
    BY <1>1, <1>7, SgeShape DEF recv_request
  <2> QED
    BY <1>1, <1>2, <1>3, <2>1 DEF Fits
<1> QED BY <1>6, <1>7

(***************************************************************************)
(* A receive is outstanding where it was posted, also after an exception,  *)
(* and lies in the buffer it was posted for.                               *)
(***************************************************************************)
LEMMA ReceivesFitStep ==
  Discipline /\ ReceivesFit /\ [Next]_vars => ReceivesFit'
<1> SUFFICES ASSUME Discipline, ReceivesFit, [Next]_vars, NEW q \in Rank
             PROVE  ReceiveFitsOf(q)'
  BY DEF ReceivesFit
<1> DEFINE p == recv_from(q)
<1>1. /\ args' = args /\ RecvQueueOf(q) /\ ReceiveFitsOf(q) /\ p \in Rank
      /\ rq \in [Rank -> [Rank -> Seq(WorkRequest)]]
  BY SameArguments, Neighbours DEF Discipline, RecvQueue, ReceivesFit, TypeOK, TransportTypeOK
<1>2. CASE rq'[q][p] = rq[q][p]
  BY <1>1, <1>2 DEF ReceiveFitsOf, Fits
<1>3. CASE rq'[q][p] = <<>>
  BY <1>3 DEF ReceiveFitsOf
<1>4. CASE PostRecv(q) /\ recv_chunk(q).count # 0
  <2>1. pc[q] = "post_recv" /\ InCall(q) /\ Alive(q) /\ ~RecvPending(q)
    BY <1>4 DEF PostRecv, InCall, Alive, RecvPending
  <2>2. rq[q][p] = <<>>
    BY <1>1, <2>1 DEF RecvQueueOf
  <2>3. rq' = [rq EXCEPT ![q][p] = Append(@, recv_request(q))]
    BY <1>4 DEF PostRecv, post_recv, recv_request
  <2>4. Head(rq'[q][p]) = recv_request(q)
    BY <1>1, <2>2, <2>3, AppendToEmpty
  <2>5. Fits(q, recv_request(q))
    BY <2>1, RequestFits
  <2> QED
    BY <1>1, <2>4, <2>5 DEF ReceiveFitsOf, Fits
<1>5. CASE PostRecv(q) /\ recv_chunk(q).count = 0
  BY <1>2, <1>5 DEF PostRecv
<1>6. ASSUME NEW r \in Rank, PostRecv(r), r # q PROVE rq'[q][p] = rq[q][p]
  BY <1>1, <1>6 DEF PostRecv, post_recv
<1>7. ASSUME NEW r \in Rank, Exit(r) \/ Finish(r)
      PROVE  rq'[q][p] = rq[q][p] \/ rq'[q][p] = <<>>
  <2>1. rq' = [rq EXCEPT ![r] = [o \in Rank |-> <<>>]]
    BY <1>7 DEF Exit, Finish, destroy
  <2>2. CASE q = r
    BY <1>1, <2>1, <2>2
  <2>3. CASE q # r
    BY <1>1, <2>1, <2>3
  <2> QED BY <2>2, <2>3
<1>8. ASSUME NEW s \in Rank, NEW d \in Rank, rq[d][s] # <<>>,
             rq' = [rq EXCEPT ![d][s] = Tail(@)]
      PROVE  rq'[q][p] = rq[q][p] \/ rq'[q][p] = <<>>
  <2>1. CASE ~(d = q /\ s = p)
    BY <1>1, <1>8, <2>1
  <2>2. CASE d = q /\ s = p
    <3>1. Len(rq[q][p]) = 1
      BY <1>1, <1>8, <2>2 DEF RecvQueueOf
    <3>2. Tail(rq[q][p]) = <<>>
      BY <1>1, <3>1, TailOfOne
    <3> QED
      BY <1>1, <1>8, <2>2, <3>2
  <2> QED BY <2>1, <2>2
<1>9. ASSUME NEW s \in Rank, NEW d \in Rank, AdapterStep(s, d)
      PROVE  rq'[q][p] = rq[q][p] \/ rq'[q][p] = <<>>
  <2>1. CASE Deliver(s, d) \/ LengthError(s, d)
    BY <1>8, <2>1 DEF Deliver, LengthError, Arrived
  <2>2. CASE FlushRecv(s, d)
    BY <1>8, <2>2 DEF FlushRecv
  <2>3. CASE Complete(s, d) \/ RetryExceeded(s, d) \/ FlushSend(s, d)
    BY <2>3 DEF Complete, RetryExceeded, FlushSend, FinishSend
  <2> QED BY <1>9, <2>1, <2>2, <2>3 DEF AdapterStep
<1>10. ASSUME NEW r \in Rank,
              Call(r) \/ PostSend(r) \/ WaitSend(r) \/ WaitRecv(r) \/ Throw(r)
       PROVE  rq' = rq
  BY <1>10 DEF Call, PostSend, WaitSend, WaitRecv, Throw, nic
<1> QED
  BY <1>2, <1>3, <1>4, <1>5, <1>6, <1>7, <1>9, <1>10
     DEF Next, RankStep, Nic, Terminating, vars, nic

(***************************************************************************)
(* The destructors leave no receive, and a rank that is out posts none.    *)
(***************************************************************************)
LEMMA GoneStep == TypeOK /\ Gone /\ [Next]_vars => Gone'
<1> SUFFICES ASSUME TypeOK, Gone, [Next]_vars, NEW q \in Rank,
                    pc'[q] \in {"exited", "finished"}, NEW o \in Rank
             PROVE  rq'[q][o] = <<>>
  BY DEF Gone, GoneOf
<1>1. /\ pc[q] \in {"exited", "finished"} => rq[q][o] = <<>>
      /\ rq \in [Rank -> [Rank -> Seq(WorkRequest)]]
      /\ pc \in [Rank -> {"idle", "post_recv", "post_send", "wait_send",
                          "wait_recv", "threw", "exited", "finished"}]
  BY DEF Gone, GoneOf, TypeOK, TransportTypeOK
<1>2. CASE pc'[q] = pc[q] /\ rq'[q][o] = rq[q][o]
  BY <1>1, <1>2
<1>3. ASSUME NEW r \in Rank, Exit(r) \/ Finish(r) PROVE rq'[q][o] = <<>>
  <2>1. /\ rq' = [rq EXCEPT ![r] = [x \in Rank |-> <<>>]]
        /\ r # q => pc'[q] = pc[q]
    BY <1>1, <1>3 DEF Exit, Finish, destroy
  <2>2. CASE q = r
    BY <1>1, <2>1, <2>2
  <2>3. CASE q # r
    BY <1>1, <2>1, <2>3
  <2> QED BY <2>2, <2>3
<1>4. ASSUME NEW r \in Rank, Call(r) \/ PostSend(r) \/ WaitSend(r) \/ WaitRecv(r) \/ Throw(r)
      PROVE  pc'[q] = pc[q] /\ rq' = rq
  BY <1>1, <1>4 DEF Call, PostSend, WaitSend, WaitRecv, advance, Throw, nic
<1>5. ASSUME NEW r \in Rank, PostRecv(r) PROVE pc'[q] = pc[q] /\ rq'[q] = rq[q]
  <2>1. r # q /\ pc'[q] = pc[q]
    BY <1>1, <1>5 DEF PostRecv
  <2> QED
    BY <1>1, <1>5, <2>1 DEF PostRecv, post_recv
<1>6. ASSUME NEW s \in Rank, NEW d \in Rank, AdapterStep(s, d), UNCHANGED ctl
      PROVE  rq'[q][o] = <<>>
  <2>1. pc' = pc /\ rq[q][o] = <<>>
    BY <1>1, <1>6 DEF ctl
  <2>2. \/ rq' = rq
        \/ \E x, y \in Rank : rq[x][y] # <<>> /\ rq' = [rq EXCEPT ![x][y] = Tail(@)]
    BY <1>6 DEF AdapterStep, Deliver, LengthError, Arrived, Complete, RetryExceeded,
                FlushSend, FinishSend, FlushRecv
  <2>3. ASSUME NEW x \in Rank, NEW y \in Rank, rq[x][y] # <<>>,
               rq' = [rq EXCEPT ![x][y] = Tail(@)]
        PROVE  rq'[q][o] = rq[q][o]
    <3>1. ~(x = q /\ y = o)
      BY <2>1, <2>3
    <3> QED
      BY <1>1, <2>3, <3>1
  <2> QED
    BY <2>1, <2>2, <2>3
<1> QED
  BY <1>2, <1>3, <1>4, <1>5, <1>6 DEF Next, RankStep, Nic, Terminating, vars, nic

(***************************************************************************)
(* Every write leaves a rank with two buffers.                             *)
(***************************************************************************)
LEMMA MemShapeStep == MemShape /\ [Next]_vars => MemShape'
<1> SUFFICES ASSUME MemShape, [Next]_vars PROVE MemShape'
  OBVIOUS
<1>1. CASE UNCHANGED mem
  BY <1>1 DEF MemShape
<1>2. ASSUME NEW r \in Rank, Call(r) PROVE MemShape'
  BY <1>2 DEF Call, MemShape
<1>3. ASSUME NEW r \in Rank, WaitRecv(r) PROVE MemShape'
  <2>1. UNCHANGED mem \/ mem' = reduced(r, recv_chunk(r))
    BY <1>3 DEF WaitRecv
  <2>2. CASE mem' = reduced(r, recv_chunk(r))
    BY <2>2 DEF reduced, MemShape
  <2> QED BY <1>1, <2>1, <2>2
<1>4. ASSUME NEW s \in Rank, NEW d \in Rank, Deliver(s, d) PROVE MemShape'
  <2>1. mem' = dma(s, Head(sq[s][d]), d, Head(rq[d][s]))
    BY <1>4 DEF Deliver
  <2> QED
    BY <2>1 DEF dma, MemShape
<1> QED
  BY <1>1, <1>2, <1>3, <1>4
     DEF Next, RankStep, Nic, AdapterStep, Terminating, vars, PostRecv, PostSend, WaitSend,
         Throw, Exit, Finish, LengthError, Complete, RetryExceeded, FlushSend, FlushRecv,
         FinishSend

(***************************************************************************)
(* No step writes beyond count in data or beyond the capacity of scratch.  *)
(***************************************************************************)
LEMMA MemorySafeStep ==
  Discipline /\ ReceivesFit /\ MemorySafe /\ [Next]_vars => MemorySafe'
<1> SUFFICES ASSUME Discipline, ReceivesFit, MemorySafe, [Next]_vars,
                    NEW q \in Rank, NEW e \in Index
             PROVE  /\ e >= args'[q].count => mem'[q]["data"][e] = Zero
                    /\ e >= args'[q].scratch => mem'[q]["scratch"][e] = Zero
  BY DEF MemorySafe
<1>1. /\ args' = args /\ TypeOK /\ args \in [Rank -> Arg] /\ RecvQueue
      /\ args[q].count \in Nat /\ args[q].scratch \in Nat /\ e \in Int
      /\ e >= args[q].count => mem[q]["data"][e] = Zero
      /\ e >= args[q].scratch => mem[q]["scratch"][e] = Zero
  BY SameArguments, SpanAssumption DEF Discipline, TypeOK, Arg, MemorySafe, Index
<1>2. CASE \A b \in Buffer, i \in Index : mem'[q][b][i] = mem[q][b][i]
  BY <1>1, <1>2 DEF Buffer
<1>3. CASE Call(q)
  BY <1>1, <1>3 DEF Call, Buffer
<1>4. CASE WaitRecv(q) /\ mem' = reduced(q, recv_chunk(q))
  <2>1. /\ recv_chunk(q).offset \in Nat /\ recv_chunk(q).count \in Nat
        /\ recv_chunk(q).offset + recv_chunk(q).count <= args[q].count
    BY <1>1, StepChunks
  <2>2. mem'[q]["scratch"][e] = mem[q]["scratch"][e]
    BY <1>4 DEF reduced, Buffer
  <2>3. e >= args[q].count => mem'[q]["data"][e] = mem[q]["data"][e]
    <3> SUFFICES ASSUME e >= args[q].count PROVE mem'[q]["data"][e] = mem[q]["data"][e]
      OBVIOUS
    <3>1. e \notin recv_chunk(q).offset .. recv_chunk(q).offset + recv_chunk(q).count - 1
      BY <1>1, <2>1
    <3> QED
      BY <1>4, <3>1 DEF reduced, Buffer
  <2> QED
    BY <1>1, <2>2, <2>3
<1>5. ASSUME NEW s \in Rank, Deliver(s, q)
      PROVE  /\ e >= args'[q].count => mem'[q]["data"][e] = Zero
             /\ e >= args'[q].scratch => mem'[q]["scratch"][e] = Zero
  <2> DEFINE rcv == Head(rq[q][recv_from(q)])
  <2>1. /\ rq[q][recv_from(q)] # <<>> /\ rcv \in WorkRequest
        /\ \A b \in Buffer : mem'[q][b][e] # mem[q][b][e] =>
             b = rcv.buf /\ e \in rcv.off .. rcv.off + rcv.len - 1
    BY <1>1, <1>5, DeliverWrites
  <2>2. Fits(q, rcv)
    BY <2>1 DEF ReceivesFit, ReceiveFitsOf
  <2>3. rcv.off \in Nat /\ rcv.len \in Nat
    BY <2>1 DEF WorkRequest
  <2> HIDE DEF rcv
  <2>4. mem'[q]["data"][e] # mem[q]["data"][e] => e < args[q].count
    BY <1>1, <2>1, <2>2, <2>3 DEF Fits, Buffer
  <2>5. mem'[q]["scratch"][e] # mem[q]["scratch"][e] => e < args[q].scratch
    BY <1>1, <2>1, <2>2, <2>3 DEF Fits, Buffer
  <2> QED
    BY <1>1, <2>4, <2>5
<1> QED
  BY <1>2, <1>3, <1>4, <1>5, Writers

(***************************************************************************)
(* The invariant of the memory.                                            *)
(***************************************************************************)
THEOREM MemoryInvariant == Spec => []MemoryInv
<1>1. Init => MemoryInv
  <2> SUFFICES ASSUME Init PROVE MemoryInv
    OBVIOUS
  <2>1. Discipline
    BY InitDiscipline
  <2>2. ReceivesFit
    BY Neighbours DEF Init, TransportInit, ReceivesFit, ReceiveFitsOf
  <2>3. MemShape /\ MemorySafe
    BY DEF Init, MemShape, MemorySafe, Buffer
  <2>4. Gone
    BY DEF Init, Gone, GoneOf
  <2> QED BY <2>1, <2>2, <2>3, <2>4 DEF MemoryInv
<1>2. MemoryInv /\ [Next]_vars => MemoryInv'
  <2>1. Discipline /\ [Next]_vars => Discipline'
    BY TypeStep, ControlStep, SendQueueStep, RecvQueueStep DEF Discipline
  <2> QED
    BY <2>1, MemShapeStep, ReceivesFitStep, GoneStep, MemorySafeStep
       DEF MemoryInv, Discipline
<1> QED
  BY <1>1, <1>2, PTL DEF Spec

(***************************************************************************)
(* allreduce_ring fails loudly instead of corrupting memory: whatever the  *)
(* ranks pass and whatever breaks, no element of data from count on and no *)
(* element of scratch from its capacity on is ever written.                *)
(***************************************************************************)
THEOREM MemorySafeTheorem == Spec => []MemorySafe
<1>1. MemoryInv => MemorySafe
  BY DEF MemoryInv
<1> QED
  BY <1>1, MemoryInvariant, PTL

(***************************************************************************)
(* Data handed to the adapter stays as it is until its completion is out:  *)
(* a refill and a reduce_inplace find no send outstanding, and a message   *)
(* that comes in goes elsewhere.                                           *)
(***************************************************************************)
THEOREM SendBufferStableTheorem == Spec => SendBufferStable
<1>1. Discipline /\ [Next]_vars => [KeepsSendBuffers]_vars
  <2> SUFFICES ASSUME Discipline, [Next]_vars, NEW r \in Rank, NEW p \in Rank,
                      NEW i \in 1 .. Len(sq[r][p]), NEW x \in Region(sq[r][p][i])
               PROVE  mem'[r][x[1]][x[2]] = mem[r][x[1]][x[2]]
    BY DEF KeepsSendBuffers
  <2> DEFINE snd == sq[r][p][i]
  <2>1. snd \in Outstanding(sq, r)
    BY DEF Outstanding
  <2>2. SendPending(r) /\ InCall(r) /\ Alive(r) /\ snd = send_request(r)
    BY <2>1, OutstandingRequests
  <2>3. x[1] \in Buffer /\ x[2] \in Index /\ x = <<x[1], x[2]>>
    <3>1. /\ send_chunk(r).offset \in Nat /\ send_chunk(r).count \in Nat
          /\ send_chunk(r).offset + send_chunk(r).count <= args[r].count
      BY StepChunks DEF Discipline
    <3>2. /\ snd.buf = "data" /\ snd.off = send_chunk(r).offset
          /\ snd.len \in Nat /\ snd.len <= send_chunk(r).count
      BY <2>2, <3>1, SgeShape DEF send_request
    <3>3. args[r].count <= Span /\ args[r].count \in Nat
      <4>1. args[r].count \in Nat /\ args[r].mr \in 0 .. Span
        BY DEF Discipline, TypeOK, Arg
      <4>2. ~(args[r].count > args[r].mr)
        BY <2>2 DEF Discipline, Control, ControlOf, bad_arguments
      <4> QED BY <4>1, <4>2, SpanAssumption
    <3> DEFINE b == snd.buf
               o == snd.off
               n == snd.len
               k == send_chunk(r).count
    <3>4. x \in {b} \X (o .. o + n - 1)
      BY DEF Region
    <3>5. /\ b = "data" /\ o \in Nat /\ k \in Nat /\ n \in Nat /\ n <= k
          /\ o + k <= args[r].count
      <4>1. o = send_chunk(r).offset
        BY <3>2
      <4> HIDE DEF o
      <4> QED BY <3>1, <3>2, <4>1
    <3> HIDE DEF snd, b, o, n, k
    <3>6. x[1] = b /\ x[2] \in o .. o + n - 1 /\ x = <<x[1], x[2]>>
      BY <3>4
    <3>7. x[2] \in Index
      BY <3>3, <3>5, <3>6, SpanAssumption DEF Index
    <3> QED
      BY <3>5, <3>6, <3>7 DEF Buffer
  <2>4. CASE \A b \in Buffer, e \in Index : mem'[r][b][e] = mem[r][b][e]
    BY <2>3, <2>4
  <2>5. CASE Call(r) \/ WaitRecv(r)
    BY <2>2, <2>5 DEF Call, WaitRecv, SendPending
  <2>6. ASSUME NEW s \in Rank, Deliver(s, r) PROVE mem'[r][x[1]][x[2]] = mem[r][x[1]][x[2]]
    <3> DEFINE rcv == Head(rq[r][recv_from(r)])
    <3>1. /\ rq[r][recv_from(r)] # <<>> /\ recv_from(r) \in Rank
          /\ mem'[r][x[1]][x[2]] # mem[r][x[1]][x[2]] =>
               x[1] = rcv.buf /\ x[2] \in rcv.off .. rcv.off + rcv.len - 1
      BY <2>3, <2>6, DeliverWrites, Neighbours DEF Discipline
    <3>2. rq[r][recv_from(r)] = <<recv_request(r)>>
      BY <2>2, <3>1 DEF Discipline, RecvQueue, RecvQueueOf
    <3>3. rcv = recv_request(r)
      BY <3>2, AppendToEmpty
    <3>4. x \notin Region(recv_request(r))
      BY <2>2, RequestsApart
    <3> QED
      BY <2>3, <3>1, <3>3, <3>4 DEF Region
  <2> QED
    BY <2>4, <2>5, <2>6, Writers
<1> QED
  BY <1>1, QueueDiscipline, PTL DEF Spec, SendBufferStable

(***************************************************************************)
(* The memory of a rank outside a call changes only when it calls again.   *)
(***************************************************************************)
LEMMA ResultKept ==
  ASSUME MemoryInv, MemoryInv', [Next]_vars, NEW r \in Rank, Outside(r), round'[r] = round[r]
  PROVE  mem'[r] = mem[r]
<1>1. /\ TypeOK /\ RecvQueue /\ RecvQueueOf(r) /\ GoneOf(r) /\ MemShape /\ MemShape'
      /\ recv_from(r) \in Rank
  BY Neighbours DEF MemoryInv, Discipline, RecvQueue, Gone
<1>2. ~Call(r)
  <2>1. round \in [Rank -> 0 .. MaxRounds]
    BY <1>1 DEF TypeOK
  <2> QED
    BY <2>1, MaxRoundsAssumption DEF Call
<1>3. ~WaitRecv(r)
  BY DEF WaitRecv, Outside
<1>4. ASSUME NEW s \in Rank, Deliver(s, r) PROVE FALSE
  <2>1. rq[r][recv_from(r)] # <<>>
    BY <1>1, <1>4, DeliverWrites
  <2> QED
    BY <1>1, <2>1 DEF RecvQueueOf, GoneOf, Outside, Alive, RecvPending
<1>5. \A b \in Buffer, e \in Index : mem'[r][b][e] = mem[r][b][e]
  BY <1>2, <1>3, <1>4, Writers
<1>6. /\ mem[r] = [b \in Buffer |-> [e \in Index |-> mem[r][b][e]]]
      /\ mem'[r] = [b \in Buffer |-> [e \in Index |-> mem'[r][b][e]]]
  BY <1>1 DEF MemShape
<1> QED
  BY <1>5, <1>6

(***************************************************************************)
(* Once allreduce_ring has returned, nothing but the next call writes to   *)
(* the buffers of the rank: it has no receive outstanding.                 *)
(***************************************************************************)
THEOREM ResultStableTheorem == Spec => ResultStable
<1>1. MemoryInv /\ MemoryInv' /\ [Next]_vars => [KeepsResults]_vars
  BY ResultKept DEF KeepsResults
<1> QED
  BY <1>1, MemoryInvariant, PTL DEF Spec, ResultStable

-----------------------------------------------------------------------------
(* Synchronisation.                                                        *)

(***************************************************************************)
(* What a step can do to the progress of a rank.  Everything but a call,   *)
(* the end of a position and a delivery leaves a rank where it is or takes *)
(* it out of the call.                                                     *)
(***************************************************************************)
LEMMA Progress ==
  ASSUME Discipline, P > 1, [Next]_vars, NEW q \in Rank
  PROVE  \/ ~InCall(q)' /\ returns(q)' = returns(q)
         \/ /\ InCall(q)' /\ InCall(q) /\ returns(q)' = returns(q)
            /\ round'[q] = round[q] /\ pos(q)' = pos(q)
            /\ Landed(q)' => Landed(q) /\ recv_cq'[q] = recv_cq[q]
         \/ /\ Call(q) /\ InCall(q)' /\ returns(q)' = returns(q)
            /\ pos(q)' = 0 /\ ~Landed(q)'
         \/ WaitRecv(q)
         \/ /\ InCall(q)' /\ \E s \in Rank : Deliver(s, q) /\ UNCHANGED ctl
<1> DEFINE Out == ~InCall(q)' /\ returns(q)' = returns(q)
           Same == /\ InCall(q)' /\ InCall(q) /\ returns(q)' = returns(q)
                   /\ round'[q] = round[q] /\ pos(q)' = pos(q)
                   /\ Landed(q)' => Landed(q) /\ recv_cq'[q] = recv_cq[q]
<1>1. /\ args' = args /\ RecvQueueOf(q) /\ ControlOf(q) /\ recv_from(q) \in Rank
      /\ pc \in [Rank -> {"idle", "post_recv", "post_send", "wait_send",
                          "wait_recv", "threw", "exited", "finished"}]
      /\ phase \in [Rank -> {1, 2}] /\ step \in [Rank -> Nat]
      /\ round \in [Rank -> 0 .. MaxRounds]
      /\ rq \in [Rank -> [Rank -> Seq(WorkRequest)]]
      /\ recv_cq \in [Rank -> Seq(Completion)]
  BY SameArguments, Neighbours
     DEF Discipline, Control, RecvQueue, TypeOK, TransportTypeOK
<1>2. ASSUME pc'[q] = pc[q], phase'[q] = phase[q], step'[q] = step[q], round'[q] = round[q],
             Landed(q)' => Landed(q) /\ recv_cq'[q] = recv_cq[q]
      PROVE  Out \/ Same
  BY <1>2 DEF InCall, returns, Outside, pos
<1>3. ASSUME pc'[q] = pc[q], phase'[q] = phase[q], step'[q] = step[q], recv_cq'[q] = recv_cq[q]
      PROVE  Landed(q)' => Landed(q)
  BY <1>1, <1>3 DEF Landed, RecvPending, recv_chunk, chunk, wc
<1>4. ASSUME NEW r \in Rank, RankStep(r), r # q PROVE Out \/ Same
  <2>1. /\ pc'[q] = pc[q] /\ phase'[q] = phase[q] /\ step'[q] = step[q]
        /\ round'[q] = round[q]
    BY <1>1, <1>4 DEF RankStep, Call, PostRecv, PostSend, WaitSend, WaitRecv, advance,
                      Throw, Exit, Finish
  <2>2. recv_cq'[q] = recv_cq[q]
    BY <1>1, <1>4 DEF RankStep, Call, PostRecv, PostSend, WaitSend, WaitRecv,
                      Throw, Exit, Finish, destroy, take, nic
  <2> QED BY <1>2, <1>3, <2>1, <2>2
<1>5. CASE Call(q)
  <2>1. /\ pc[q] = "idle" /\ round'[q] = round[q] + 1 /\ phase'[q] = 1 /\ step'[q] = 0
        /\ pc'[q] \in {"threw", "idle", "post_recv"}
        /\ pc'[q] = "idle" => P = 1
    BY <1>1, <1>5 DEF Call
  <2>2. CASE pc'[q] = "threw"
    BY <1>1, <2>1, <2>2 DEF InCall, returns, Outside
  <2>3. CASE pc'[q] = "post_recv"
    BY <1>1, <1>5, <2>1, <2>3 DEF InCall, returns, Outside, pos, Landed, RecvPending
  <2> QED BY <2>1, <2>2, <2>3, PAssumption
<1>6. CASE PostRecv(q)
  <2>1. /\ pc[q] = "post_recv" /\ pc'[q] = "post_send"
        /\ UNCHANGED <<round, phase, step, recv_cq>>
    BY <1>1, <1>6 DEF PostRecv
  <2>2. recv_cq[q] = <<>>
    BY <1>1, <2>1 DEF RecvQueueOf, RecvPending, Alive, InCall
  <2> QED
    BY <1>1, <2>1, <2>2 DEF InCall, returns, Outside, pos, Landed
<1>7. CASE PostSend(q) \/ WaitSend(q)
  <2>1. /\ pc[q] \in {"post_send", "wait_send"} /\ pc'[q] \in {"wait_send", "wait_recv"}
        /\ UNCHANGED <<round, phase, step, recv_cq>>
    BY <1>1, <1>7 DEF PostSend, WaitSend
  <2>2. Landed(q)' => Landed(q)
    BY <1>1, <2>1 DEF Landed, RecvPending, recv_chunk, chunk, wc
  <2> QED
    BY <2>1, <2>2 DEF InCall, returns, Outside, pos
<1>8. CASE Throw(q) \/ Exit(q) \/ Finish(q)
  <2>1. /\ round' = round
        /\ \/ pc[q] \in {"wait_send", "wait_recv", "threw"} /\ pc'[q] \in {"threw", "exited"}
           \/ pc[q] = "idle" /\ pc'[q] = "finished"
    BY <1>1, <1>8 DEF Throw, Exit, Finish
  <2> QED
    BY <2>1 DEF InCall, returns, Outside
<1>9. ASSUME NEW a \in Rank, NEW b \in Rank, AdapterStep(a, b), UNCHANGED ctl,
             ~(Deliver(a, q) /\ b = q)
      PROVE  Out \/ Same
  <2>1. UNCHANGED <<pc, phase, step, round>>
    BY <1>9 DEF ctl
  <2>2. CASE recv_cq'[q] = recv_cq[q]
    BY <1>2, <1>3, <2>1, <2>2
  <2>3. ASSUME NEW x \in Rank, NEW status, status # "SUCCESS", rq[q][x] # <<>>,
               recv_cq' = [recv_cq EXCEPT ![q] = Append(@, cqe(status, 0))]
        PROVE  Out \/ Same
    <3>1. recv_cq[q] = <<>>
      BY <1>1, <2>3 DEF RecvQueueOf
    <3>2. recv_cq'[q] = Append(<<>>, cqe(status, 0))
      BY <1>1, <2>3, <3>1
    <3>3. Head(recv_cq'[q]) = cqe(status, 0)
      BY <3>2, AppendToEmpty
    <3>4. ~Landed(q)'
      BY <2>3, <3>3 DEF Landed, wc, cqe
    <3> QED BY <1>2, <2>1, <3>4
  <2>4. CASE Deliver(a, b)
    BY <1>1, <1>9, <2>2, <2>4 DEF Deliver
  <2>5. CASE LengthError(a, b)
    <3>1. CASE b = q
      BY <2>3, <2>5, <3>1 DEF LengthError, Arrived
    <3>2. CASE b # q
      BY <1>1, <2>2, <2>5, <3>2 DEF LengthError
    <3> QED BY <3>1, <3>2
  <2>6. CASE FlushRecv(a, b)
    <3>1. CASE a = q
      BY <2>3, <2>6, <3>1 DEF FlushRecv
    <3>2. CASE a # q
      BY <1>1, <2>2, <2>6, <3>2 DEF FlushRecv
    <3> QED BY <3>1, <3>2
  <2>7. CASE Complete(a, b) \/ RetryExceeded(a, b) \/ FlushSend(a, b)
    BY <2>2, <2>7 DEF Complete, RetryExceeded, FlushSend, FinishSend
  <2> QED
    BY <1>9, <2>4, <2>5, <2>6, <2>7 DEF AdapterStep
<1>10. ASSUME NEW a \in Rank, NEW b \in Rank, Deliver(a, b), b = q, UNCHANGED ctl
       PROVE  \/ Out
              \/ InCall(q)' /\ \E s \in Rank : Deliver(s, q) /\ UNCHANGED ctl
  BY <1>10 DEF ctl, InCall, returns, Outside
<1>11. CASE UNCHANGED vars
  BY <1>2, <1>3, <1>11 DEF vars, nic
<1> QED
  BY <1>4, <1>5, <1>6, <1>7, <1>8, <1>9, <1>10, <1>11
     DEF Next, RankStep, Nic, Terminating

(***************************************************************************)
(* A rank's rounds only grow.                                              *)
(***************************************************************************)
LEMMA RoundsGrow ==
  ASSUME TypeOK, [Next]_vars
  PROVE  \A s \in Rank : round[s] \in Nat /\ round'[s] \in Nat /\ round'[s] >= round[s]
<1>1. round \in [Rank -> 0 .. MaxRounds]
  BY DEF TypeOK
<1>2. CASE UNCHANGED round
  BY <1>1, <1>2, MaxRoundsAssumption
<1>3. ASSUME NEW r \in Rank, Call(r)
      PROVE  \A s \in Rank : round[s] \in Nat /\ round'[s] \in Nat /\ round'[s] >= round[s]
  BY <1>1, <1>3, MaxRoundsAssumption DEF Call
<1> QED
  BY <1>2, <1>3 DEF Next, RankStep, PostRecv, PostSend, WaitSend, WaitRecv, Throw, Exit,
                    Finish, Nic, Terminating, ctl, vars

(***************************************************************************)
(* Chunk 0 has an element when there is anything to reduce, and a rank     *)
(* receives it at the positions SyncOf names.                              *)
(***************************************************************************)
LEMMA ChunkZero ==
  ASSUME args \in [Rank -> Arg], P > 1, NEW r \in Rank, args[r].count > 0
  PROVE  /\ chunk(r, 0).count > 0 /\ r \in Int /\ 0 <= r /\ r < P /\ P \in Int
         /\ \A g \in Position : g = r - 1 \/ g = P - 1 + r => receives(r, g) = 0
<1>1. P \in Nat \ {0} /\ r \in Int /\ 0 <= r /\ r < P /\ 0 \in Rank
  BY PAssumption DEF Rank
<1>2. args[r].count \in Nat
  BY DEF Arg
<1>3. chunk(r, 0).count > 0
  <2> DEFINE n == args[r].count
  <2>1. /\ base(n, P) \in Nat /\ remainder(n, P) \in Nat
        /\ n = P * base(n, P) + remainder(n, P)
    BY <1>1, <1>2, DivMod
  <2>2. chunk(r, 0).count = base(n, P) + (IF 0 < remainder(n, P) THEN 1 ELSE 0)
    BY DEF chunk, chunk_count
  <2>3. n > 0
    OBVIOUS
  <2> HIDE DEF n
  <2>4. CASE base(n, P) = 0
    BY <1>1, <2>1, <2>2, <2>3, <2>4
  <2>5. CASE base(n, P) > 0
    BY <2>1, <2>2, <2>5
  <2> QED BY <2>1, <2>4, <2>5
<1>4. mod_p(r - 0) = r
  BY <1>1, ModP
<1>5. \A g \in Position : g = r - 1 \/ g = P - 1 + r => receives(r, g) = 0
  BY <1>1, <1>4, Distance
<1> QED
  BY <1>1, <1>3, <1>5

(***************************************************************************)
(* A delivery passes on what its sender has heard.                         *)
(***************************************************************************)
LEMMA SyncDeliver ==
  ASSUME Discipline, Paired, SameCount, P > 1, NEW s \in Rank, NEW d \in Rank,
         Deliver(s, d), UNCHANGED ctl, InCall(d), SyncOf(s), SyncOf(d)
  PROVE  SyncOf(d)'
<1> DEFINE g == pos(d)
<1>1. Arrived(s, d) /\ Alive(d) /\ args' = args
  BY DEF Deliver, Alive, ctl
<1>2. /\ s = recv_from(d) /\ InCall(s)
      /\ round[s] = round[d] /\ pos(s) = g
  BY <1>1, OnTheWay, Matched DEF SameSkips
<1>3. /\ g \in Int /\ P \in Int /\ s \in Int /\ d \in Int /\ 0 <= d /\ d < P
      /\ s = IF d = 0 THEN P - 1 ELSE d - 1
  <2>1. g \in Position
    BY AtPosition
  <2>2. P \in Nat /\ d \in 0 .. P - 1 /\ s \in 0 .. P - 1
    BY PAssumption DEF Rank
  <2>3. mod_p(d - 1) = IF d = 0 THEN P - 1 ELSE d - 1
    BY <2>2, ModP
  <2> QED
    BY <1>2, <2>1, <2>2, <2>3 DEF Position, recv_from
<1>4. UNCHANGED <<pc, phase, step, round>> /\ pos(d)' = g /\ InCall(d)'
  BY DEF ctl, pos, InCall
<1>5. \A h \in Int : Got(d, h)' => g > h \/ g = h
  BY <1>4 DEF Got
<1>6. round[d] \in Nat
  BY AtPosition
<1>7. ASSUME Got(d, d - 1)' PROVE \A x \in 0 .. d : round[x] >= round[d]
  <2>1. CASE g > d - 1
    BY <1>3, <2>1 DEF SyncOf, Got
  <2>2. CASE g = d - 1 /\ d > 0
    <3>1. Got(s, s - 1)
      BY <1>2, <1>3, <2>2 DEF Got
    <3>2. \A x \in 0 .. s : round[x] >= round[s]
      BY <1>2, <3>1 DEF SyncOf
    <3>3. round[d] >= round[d]
      BY <1>6
    <3> QED
      BY <1>2, <1>3, <2>2, <3>2, <3>3
  <2>3. CASE d = 0
    BY <1>6, <2>3
  <2> QED BY <1>3, <1>5, <1>7, <2>1, <2>2, <2>3
<1>8. ASSUME Got(d, P - 1 + d)' PROVE \A x \in Rank : round[x] >= round[d]
  <2>1. CASE g > P - 1 + d
    BY <1>3, <2>1 DEF SyncOf, Got
  <2>2. CASE g = P - 1 + d /\ d > 0
    <3>1. Got(s, P - 1 + s)
      BY <1>2, <1>3, <2>2 DEF Got
    <3> QED
      BY <1>2, <3>1 DEF SyncOf
  <2>3. CASE g = P - 1 + d /\ d = 0
    <3>1. Got(s, s - 1) /\ s = P - 1
      BY <1>2, <1>3, <2>3 DEF Got
    <3> QED
      BY <1>2, <3>1 DEF SyncOf, Rank
  <2> QED BY <1>3, <1>5, <1>8, <2>1, <2>2, <2>3
<1> QED
  BY <1>4, <1>7, <1>8 DEF SyncOf

(***************************************************************************)
(* A rank that ends a position has heard the message of that position, and *)
(* a rank that returns has heard of every rank.                            *)
(***************************************************************************)
LEMMA SyncWaitRecv ==
  ASSUME Discipline, P > 1, NEW r \in Rank, args[r].count > 0, WaitRecv(r), SyncOf(r)
  PROVE  /\ SyncOf(r)'
         /\ pc'[r] = "idle" => \A s \in Rank : round[s] >= round[r]
<1> DEFINE g == pos(r)
<1>1. /\ InCall(r) /\ pc[r] = "wait_recv" /\ round' = round
      /\ \/ pc'[r] = "post_recv" /\ pos(r)' = g + 1
         \/ pc'[r] = "idle" /\ g = 2 * P - 3
      /\ recv_chunk(r).count > 0 => Landed(r)
  BY NextPosition DEF WaitRecv
<1>2. /\ g \in Position /\ recv_chunk(r) = chunk(r, receives(r, g))
  BY <1>1, AtPosition
<1>3. /\ chunk(r, 0).count > 0 /\ r \in Int /\ 0 <= r /\ r < P /\ P \in Int
      /\ g = r - 1 \/ g = P - 1 + r => receives(r, g) = 0
  BY <1>2, ChunkZero DEF Discipline, TypeOK
<1>4. g \in Int /\ (g = r - 1 \/ g = P - 1 + r => Landed(r))
  BY <1>1, <1>2, <1>3 DEF Position
<1>5. /\ g >= r - 1 => \A s \in 0 .. r : round[s] >= round[r]
      /\ g >= P - 1 + r => \A s \in Rank : round[s] >= round[r]
  BY <1>1, <1>3, <1>4 DEF SyncOf, Got
<1>6. CASE pc'[r] = "post_recv" /\ pos(r)' = g + 1
  <2>1. ~Landed(r)'
    BY <1>6 DEF Landed, RecvPending
  <2>2. \A h \in Int : Got(r, h)' => g >= h
    BY <1>4, <1>6, <2>1 DEF Got
  <2> QED
    BY <1>1, <1>3, <1>5, <1>6, <2>2 DEF SyncOf
<1>7. CASE pc'[r] = "idle" /\ g = 2 * P - 3
  <2>1. \A s \in Rank : round[s] >= round[r]
    <3>1. CASE r = P - 1
      BY <1>3, <1>4, <1>5, <1>7, <3>1 DEF Rank
    <3>2. CASE r < P - 1
      BY <1>3, <1>4, <1>5, <1>7, <3>2
    <3>3. r = P - 1 \/ r < P - 1
      BY <1>3
    <3> QED BY <3>1, <3>2, <3>3
  <2> QED
    BY <1>7, <2>1 DEF SyncOf, InCall
<1> QED BY <1>1, <1>6, <1>7

(***************************************************************************)
(* Everything else leaves what a rank has heard as it is, and the others'  *)
(* rounds only grow.                                                       *)
(***************************************************************************)
LEMMA SyncStep ==
  ASSUME Discipline, Paired, SameCount, P > 1, [Next]_vars, NEW q \in Rank,
         \A r \in Rank : args[r].count > 0 /\ SyncOf(r),
         \A r, s \in Rank : returns(r) <= round[s]
  PROVE  SyncOf(q)' /\ \A s \in Rank : returns(q)' <= round'[s]
<1>1. \A s \in Rank : round[s] \in Nat /\ round'[s] \in Nat /\ round'[s] >= round[s]
  BY RoundsGrow DEF Discipline
<1>2. returns(q) \in Int /\ \A s \in Rank : returns(q) <= round'[s]
  BY <1>1 DEF returns, Outside
<1>3. P \in Int /\ q \in Int /\ 0 <= q /\ q < P /\ 0 .. q \subseteq Rank
  BY PAssumption DEF Rank
<1>4. CASE ~InCall(q)' /\ returns(q)' = returns(q)
  BY <1>2, <1>4 DEF SyncOf
<1>5. CASE /\ InCall(q)' /\ InCall(q) /\ returns(q)' = returns(q)
           /\ round'[q] = round[q] /\ pos(q)' = pos(q)
           /\ Landed(q)' => Landed(q) /\ recv_cq'[q] = recv_cq[q]
  <2>1. \A h : Got(q, h)' => Got(q, h)
    BY <1>5 DEF Got
  <2>2. SyncOf(q)'
    <3>1. ASSUME Got(q, q - 1) PROVE \A s \in 0 .. q : round'[s] >= round[q]
      BY <1>1, <1>3, <1>5, <3>1 DEF SyncOf
    <3>2. ASSUME Got(q, P - 1 + q) PROVE \A s \in Rank : round'[s] >= round[q]
      BY <1>1, <1>5, <3>2 DEF SyncOf
    <3> QED
      BY <1>5, <2>1, <3>1, <3>2 DEF SyncOf
  <2> QED
    BY <1>2, <1>5, <2>2
<1>6. CASE /\ Call(q) /\ InCall(q)' /\ returns(q)' = returns(q)
           /\ pos(q)' = 0 /\ ~Landed(q)'
  <2>1. \A h \in Int : Got(q, h)' => h < 0
    BY <1>6 DEF Got
  <2>2. Got(q, q - 1)' => q = 0
    BY <1>3, <2>1
  <2>3. ~Got(q, P - 1 + q)'
    BY <1>3, <2>1
  <2>4. round'[q] >= round'[q]
    BY <1>1
  <2> QED
    BY <1>2, <1>6, <2>2, <2>3, <2>4 DEF SyncOf
<1>7. CASE WaitRecv(q)
  <2>1. /\ SyncOf(q)' /\ round' = round
        /\ pc'[q] = "idle" => \A s \in Rank : round[s] >= round[q]
    BY <1>7, SyncWaitRecv DEF WaitRecv
  <2>2. pc'[q] = "idle" \/ (pc'[q] = "post_recv" /\ pc[q] = "wait_recv")
    BY <1>7, NextPosition
  <2>3. CASE pc'[q] = "idle"
    BY <1>1, <2>1, <2>3 DEF returns, Outside
  <2>4. CASE pc'[q] = "post_recv" /\ pc[q] = "wait_recv"
    <3>1. returns(q)' = returns(q)
      BY <2>1, <2>4 DEF returns, Outside
    <3> QED
      BY <1>2, <2>1, <3>1
  <2> QED BY <2>2, <2>3, <2>4
<1>8. ASSUME NEW s \in Rank, InCall(q)', Deliver(s, q), UNCHANGED ctl
      PROVE  SyncOf(q)' /\ \A x \in Rank : returns(q)' <= round'[x]
  <2>1. InCall(q) /\ returns(q)' = returns(q)
    BY <1>8 DEF InCall, returns, Outside, ctl
  <2>2. SyncOf(q)'
    BY <1>8, <2>1, SyncDeliver
  <2> QED
    BY <1>2, <2>1, <2>2
<1> QED
  BY <1>4, <1>5, <1>6, <1>7, <1>8, Progress

(***************************************************************************)
(* Nothing but the data flow separates two calls of allreduce_ring, and    *)
(* that is enough: for every number of ranks that agree on a count that is *)
(* not zero, no rank returns from its k-th call before every rank has made *)
(* its k-th call.                                                          *)
(***************************************************************************)
THEOREM CollectiveSyncTheorem == Spec => []CollectiveSync
<1>1. Init => SyncInv
  <2> SUFFICES ASSUME Init PROVE SyncInv
    OBVIOUS
  <2>1. \A r \in Rank : pc[r] = "idle" /\ round[r] = 0
    BY DEF Init
  <2>2. Discipline /\ CollectiveSync /\ \A r \in Rank : SyncOf(r)
    BY <2>1, InitDiscipline DEF CollectiveSync, returns, Outside, SyncOf, InCall
  <2>3. Paired
    BY InitPaired
  <2> QED BY <2>2, <2>3 DEF SyncInv
<1>2. SyncInv /\ [Next]_vars => SyncInv'
  <2> SUFFICES ASSUME SyncInv, [Next]_vars PROVE SyncInv'
    OBVIOUS
  <2>1. Discipline /\ Paired /\ SameCount' = SameCount /\ args' = args
    BY SameArguments DEF SyncInv
  <2>2. Discipline' /\ Paired'
    BY <2>1, TypeStep, ControlStep, SendQueueStep, RecvQueueStep, PairedStep DEF Discipline
  <2>3. ASSUME SameCount, P > 1, NEW x \in Rank, args[x].count > 0
        PROVE  \A q \in Rank : SyncOf(q)' /\ \A s \in Rank : returns(q)' <= round'[s]
    <3>1. \A r \in Rank : args[r].count > 0
      BY <2>3 DEF SameCount
    <3>2. /\ \A r \in Rank : SyncOf(r)
          /\ \A r, s \in Rank : returns(r) <= round[s]
      BY <2>3, <3>1 DEF SyncInv, CollectiveSync
    <3> QED
      BY <2>1, <2>3, <3>1, <3>2, SyncStep
  <2> QED
    BY <2>1, <2>2, <2>3 DEF SyncInv, CollectiveSync
<1>3. SyncInv => CollectiveSync
  BY DEF SyncInv
<1> QED
  BY <1>1, <1>2, <1>3, PTL DEF Spec

-----------------------------------------------------------------------------
(* Sizes.                                                                  *)

(***************************************************************************)
(* A chunk that passes rank q on its way has passed q's predecessor one    *)
(* position before.                                                        *)
(***************************************************************************)
LEMMA PassedNext ==
  ASSUME NEW q \in Rank, NEW g \in Position, P > 1, Passed(q, g - 1),
         Passed(recv_from(q), g - 1), Fit(q, g)
  PROVE  Passed(q, g)
<1> SUFFICES ASSUME NEW x \in Rank, NEW i \in Position, mod_p(q - x) + i <= g
             PROVE  Fit(x, i)
  BY DEF Passed
<1>1. /\ P \in Nat /\ q \in Int /\ 0 <= q /\ q < P /\ x \in Int /\ 0 <= x /\ x < P
      /\ i \in Int /\ g \in Int
  BY PAssumption DEF Rank, Position
<1>2. mod_p(q - x) = IF q < x THEN q - x + P ELSE q - x
  BY <1>1, ModP
<1>3. recv_from(q) = IF q = 0 THEN P - 1 ELSE q - 1
  BY <1>1, ModP DEF recv_from
<1>4. CASE x = q
  <2>1. CASE i = g
    BY <1>4, <2>1
  <2>2. CASE i # g
    BY <1>1, <1>2, <1>4, <2>2 DEF Passed
  <2> QED BY <2>1, <2>2
<1>5. CASE x # q
  <2>1. mod_p(recv_from(q) - x) = mod_p(q - x) - 1
    <3>1. CASE q = 0
      <4>1. mod_p(P - 1 - x) = P - 1 - x
        BY <1>1, ModP
      <4> QED BY <1>1, <1>2, <1>3, <1>5, <3>1, <4>1
    <3>2. CASE q # 0
      <4>1. mod_p(q - 1 - x) = IF q - 1 < x THEN q - 1 - x + P ELSE q - 1 - x
        BY <1>1, <3>2, ModP
      <4> QED BY <1>1, <1>2, <1>3, <1>5, <3>2, <4>1
    <3> QED BY <3>1, <3>2
  <2>2. mod_p(recv_from(q) - x) + i <= g - 1
    BY <1>1, <1>2, <2>1
  <2> QED BY <2>2 DEF Passed
<1> QED BY <1>4, <1>5

(***************************************************************************)
(* What has been passed depends on the arguments only.                     *)
(***************************************************************************)
LEMMA PassedStays ==
  ASSUME args' = args
  PROVE  /\ \A q, h : Passed(q, h)' <=> Passed(q, h)
         /\ \A q, c : chunk(q, c)' = chunk(q, c)
BY DEF Passed, Fit, bad_arguments, max_chunk_elems, chunk

(***************************************************************************)
(* A rank comes to be outside a call by returning from one.                *)
(***************************************************************************)
LEMMA Returning ==
  ASSUME TypeOK, P > 1, [Next]_vars, NEW q \in Rank, pc'[q] = "idle"
  PROVE  WaitRecv(q) \/ (pc[q] = "idle" /\ round'[q] = round[q])
<1>1. /\ pc \in [Rank -> {"idle", "post_recv", "post_send", "wait_send",
                          "wait_recv", "threw", "exited", "finished"}]
      /\ round \in [Rank -> 0 .. MaxRounds]
  BY DEF TypeOK
<1>2. CASE UNCHANGED ctl
  BY <1>2 DEF ctl
<1>3. ASSUME NEW r \in Rank, RankStep(r), r # q PROVE pc[q] = "idle" /\ round'[q] = round[q]
  BY <1>1, <1>3 DEF RankStep, Call, PostRecv, PostSend, WaitSend, WaitRecv, advance,
                    Throw, Exit, Finish
<1>4. CASE RankStep(q)
  <2>1. pc'[q] # "idle" \/ WaitRecv(q)
    <3>1. CASE Call(q)
      BY <1>1, <3>1 DEF Call
    <3>2. CASE PostRecv(q) \/ PostSend(q) \/ WaitSend(q) \/ Throw(q) \/ Exit(q) \/ Finish(q)
      BY <1>1, <3>2 DEF PostRecv, PostSend, WaitSend, Throw, Exit, Finish
    <3> QED BY <1>4, <3>1, <3>2 DEF RankStep
  <2> QED BY <2>1
<1> QED
  BY <1>2, <1>3, <1>4 DEF Next, Nic, Terminating, vars, ctl

(***************************************************************************)
(* A rank that ends a position found a message of the expected length.     *)
(***************************************************************************)
LEMMA SizesWaitRecv ==
  ASSUME Discipline, NoEmptyChunk, P > 1, NEW r \in Rank, WaitRecv(r), FitsSoFar(r)
  PROVE  FitsSoFar(r)'
<1>g. PICK g \in Position : g = pos(r)
  <2>1. InCall(r)
    BY NextPosition
  <2> QED BY <2>1, AtPosition
<1>1. /\ InCall(r) /\ args' = args
      /\ \/ pc'[r] = "post_recv" /\ pos(r)' = g + 1
         \/ pc'[r] = "idle" /\ g = 2 * P - 3
      /\ recv_chunk(r).count > 0 => Landed(r)
  BY <1>g, NextPosition DEF WaitRecv
<1>2. /\ recv_chunk(r) = chunk(r, receives(r, g)) /\ receives(r, g) \in Rank
      /\ g \in Int
  BY <1>1, <1>g, AtPosition DEF Position
<1>3. recv_chunk(r).count > 0
  BY <1>2 DEF NoEmptyChunk
<1>4. Fit(r, g)
  <2>1. wc(recv_cq, r).byte_len = recv_chunk(r).count
    BY <1>3 DEF WaitRecv, received
  <2>2. wc(recv_cq, r).byte_len = chunk(recv_from(r), receives(r, g)).count % SgeLimit
    BY <1>1, <1>3, <1>g DEF FitsSoFar
  <2>3. ~bad_arguments(r)
    BY <1>1 DEF Discipline, Control, ControlOf
  <2>4. chunk(recv_from(r), receives(r, g)).count \in Nat
    BY <1>2, Neighbours, ChunkInData DEF Discipline, TypeOK
  <2>5. chunk(recv_from(r), receives(r, g)).count % SgeLimit < SgeLimit
    BY <2>4, SgeLimitAssumption
  <2> QED BY <1>2, <2>1, <2>2, <2>3, <2>5 DEF Fit
<1>5. Passed(r, g)
  <2>1. Passed(r, g - 1) /\ Passed(recv_from(r), g - 1)
    BY <1>1, <1>3, <1>g DEF FitsSoFar
  <2> QED BY <1>4, <2>1, PassedNext
<1>6. Passed(r, g)'
  BY <1>1, <1>5, PassedStays
<1>7. ~Landed(r)'
  BY <1>1 DEF Landed, RecvPending
<1>8. CASE pc'[r] = "post_recv" /\ pos(r)' = g + 1
  <2>1. pos(r)' - 1 = g
    BY <1>2, <1>8
  <2> QED BY <1>6, <1>7, <1>8, <2>1 DEF FitsSoFar, Returned
<1>9. CASE pc'[r] = "idle" /\ g = 2 * P - 3
  BY <1>6, <1>9 DEF FitsSoFar, InCall
<1> QED BY <1>1, <1>8, <1>9

(***************************************************************************)
(* A message tells how far its sender got, and its length.                 *)
(***************************************************************************)
LEMMA SizesDeliver ==
  ASSUME Discipline, Paired, NoEmptyChunk, P > 1, NEW s \in Rank, NEW d \in Rank,
         Deliver(s, d), UNCHANGED ctl, InCall(d), FitsSoFar(s), FitsSoFar(d)
  PROVE  FitsSoFar(d)'
<1>1. Arrived(s, d) /\ Alive(d) /\ args' = args /\ SameSkips
  BY DEF Deliver, Alive, ctl, SameSkips
<1>2. /\ s = recv_from(d) /\ InCall(s) /\ sq[s][d] = <<send_request(s)>> /\ recv_cq[d] = <<>>
  BY <1>1, OnTheWay
<1>3. pos(s) = pos(d) /\ sends(s, pos(s)) = receives(d, pos(d))
  BY <1>1, Matched
<1>4. /\ UNCHANGED <<pc, phase, step, round>> /\ pos(d)' = pos(d) /\ InCall(d)'
  BY DEF ctl, pos, InCall
<1>5. Passed(s, pos(d) - 1) /\ Passed(d, pos(d) - 1)
  BY <1>2, <1>3 DEF FitsSoFar
<1>6. send_request(s).len = chunk(s, receives(d, pos(d))).count % SgeLimit
  <2>1. send_chunk(s) = chunk(s, sends(s, pos(s)))
    BY <1>2, AtPosition
  <2> QED BY <1>3, <2>1 DEF send_request, sge
<1>7. wc(recv_cq, d)'.byte_len = chunk(s, receives(d, pos(d))).count % SgeLimit
  <2>1. recv_cq' = [recv_cq EXCEPT ![d] = Append(@, cqe("SUCCESS", Head(sq[s][d]).len))]
    BY DEF Deliver
  <2>2. Head(sq[s][d]) = send_request(s)
    BY <1>2, AppendToEmpty
  <2>3. recv_cq'[d] = Append(<<>>, cqe("SUCCESS", send_request(s).len))
    BY <1>2, <2>1, <2>2 DEF Discipline, TypeOK, TransportTypeOK
  <2>4. Head(recv_cq'[d]) = cqe("SUCCESS", send_request(s).len)
    BY <2>3, AppendToEmpty
  <2> QED BY <1>6, <2>4 DEF wc, cqe
<1>8. \A q, h : Passed(q, h)' <=> Passed(q, h)
  BY <1>1, PassedStays
<1>9. chunk(s, receives(d, pos(d)))' = chunk(s, receives(d, pos(d)))
  BY <1>1, <1>4, PassedStays
<1>10. ~Returned(d)'
  BY <1>4 DEF Returned, InCall
<1>11. Passed(s, pos(d) - 1)' /\ Passed(d, pos(d) - 1)'
  BY <1>4, <1>5, <1>8
<1> QED BY <1>2, <1>4, <1>7, <1>9, <1>10, <1>11 DEF FitsSoFar

(***************************************************************************)
(* Everything else leaves what a rank has passed as it is.                 *)
(***************************************************************************)
LEMMA SizesStep ==
  ASSUME Discipline, Paired, NoEmptyChunk, P > 1, [Next]_vars, NEW q \in Rank,
         \A r \in Rank : FitsSoFar(r)
  PROVE  FitsSoFar(q)'
<1>1. args' = args /\ FitsSoFar(q) /\ TypeOK
  BY SameArguments DEF Discipline
<1>2. /\ \A r, h : Passed(r, h)' <=> Passed(r, h)
      /\ \A r, c : chunk(r, c)' = chunk(r, c)
  BY <1>1, PassedStays
<1>3. CASE WaitRecv(q)
  BY <1>1, <1>3, SizesWaitRecv
<1>4. ASSUME ~WaitRecv(q), Returned(q)' PROVE Passed(q, 2 * P - 3)'
  <2>1. pc[q] = "idle" /\ round'[q] = round[q] /\ round'[q] > 0
    BY <1>1, <1>4, Returning DEF Returned
  <2>2. Passed(q, 2 * P - 3)
    BY <1>1, <2>1 DEF FitsSoFar, Returned
  <2> QED BY <1>2, <2>2
<1>5. CASE ~WaitRecv(q) /\ ~InCall(q)'
  BY <1>4, <1>5 DEF FitsSoFar
<1>6. CASE /\ InCall(q)' /\ InCall(q) /\ pos(q)' = pos(q)
           /\ Landed(q)' => Landed(q) /\ recv_cq'[q] = recv_cq[q]
  <2>1. ~Returned(q)'
    BY <1>6 DEF Returned, InCall
  <2>2. Passed(q, pos(q) - 1)'
    <3>1. Passed(q, pos(q) - 1)
      BY <1>1, <1>6 DEF FitsSoFar
    <3> QED BY <1>2, <1>6, <3>1
  <2>3. ASSUME Landed(q)'
        PROVE  /\ wc(recv_cq, q)'.byte_len =
                    chunk(recv_from(q), receives(q, pos(q)))'.count % SgeLimit
               /\ Passed(recv_from(q), pos(q) - 1)'
    <3>1. /\ wc(recv_cq, q).byte_len =
               chunk(recv_from(q), receives(q, pos(q))).count % SgeLimit
          /\ Passed(recv_from(q), pos(q) - 1)
      BY <1>1, <1>6, <2>3 DEF FitsSoFar
    <3>2. wc(recv_cq, q)' = wc(recv_cq, q)
      BY <1>6, <2>3 DEF wc
    <3> QED BY <1>2, <1>6, <3>1, <3>2
  <2> QED BY <2>1, <2>2, <2>3 DEF FitsSoFar
<1>7. CASE /\ Call(q) /\ InCall(q)' /\ pos(q)' = 0 /\ ~Landed(q)'
  <2>1. ~Returned(q)'
    BY <1>7 DEF Returned, InCall
  <2>2. Passed(q, -1)
    <3>1. ASSUME NEW x \in Rank, NEW i \in Position PROVE ~(mod_p(q - x) + i <= -1)
      <4>1. q - x \in Int /\ i \in Int /\ 0 <= i
        BY PAssumption DEF Rank, Position
      <4>2. mod_p(q - x) \in Rank
        BY <4>1, ModPRank
      <4> QED BY <4>1, <4>2, PAssumption DEF Rank
    <3> QED BY <3>1 DEF Passed
  <2>3. Passed(q, pos(q) - 1)'
    <3>1. pos(q)' - 1 = -1
      BY <1>7
    <3> QED BY <1>2, <2>2, <3>1
  <2> QED BY <1>7, <2>1, <2>3 DEF FitsSoFar
<1>8. ASSUME NEW s \in Rank, InCall(q)', Deliver(s, q), UNCHANGED ctl
      PROVE  FitsSoFar(q)'
  <2>1. InCall(q)
    BY <1>8 DEF InCall, ctl
  <2> QED BY <1>8, <2>1, SizesDeliver
<1> QED
  BY <1>3, <1>5, <1>6, <1>7, <1>8, Progress

(***************************************************************************)
(* A rank's chunks differ by at most one element.                          *)
(***************************************************************************)
LEMMA ChunkSpread ==
  ASSUME args \in [Rank -> Arg], NEW r \in Rank, NEW c \in Rank, NEW d \in Rank
  PROVE  /\ chunk(r, c).count \in Nat /\ chunk(r, d).count \in Nat
         /\ chunk(r, c).count <= chunk(r, d).count + 1
<1>1. P \in Nat \ {0} /\ c \in Nat /\ d \in Nat /\ args[r].count \in Nat
  BY PAssumption DEF Rank, Arg
<1>2. base(args[r].count, P) \in Nat
  BY <1>1, DivMod
<1>3. /\ chunk(r, c).count = base(args[r].count, P) +
                             (IF c < remainder(args[r].count, P) THEN 1 ELSE 0)
      /\ chunk(r, d).count = base(args[r].count, P) +
                             (IF d < remainder(args[r].count, P) THEN 1 ELSE 0)
  BY DEF chunk, chunk_count
<1> QED BY <1>2, <1>3

(***************************************************************************)
(* Ranks with the same chunks pass the same count.                         *)
(***************************************************************************)
LEMMA ChunksTellCount ==
  ASSUME args \in [Rank -> Arg], NEW r \in Rank, NEW s \in Rank,
         \A c \in Rank : chunk(r, c).count = chunk(s, c).count
  PROVE  args[r].count = args[s].count
<1>n. PICK n \in Nat : n = args[r].count
  BY DEF Arg
<1>m. PICK m \in Nat : m = args[s].count
  BY DEF Arg
<1>1. P \in Nat \ {0} /\ P - 1 \in Rank /\ \A x \in Nat : x < P => x \in Rank
  BY PAssumption DEF Rank
<1>2. /\ base(n, P) \in Nat /\ remainder(n, P) \in Nat /\ remainder(n, P) < P
      /\ n = P * base(n, P) + remainder(n, P)
  BY <1>1, DivMod
<1>3. /\ base(m, P) \in Nat /\ remainder(m, P) \in Nat /\ remainder(m, P) < P
      /\ m = P * base(m, P) + remainder(m, P)
  BY <1>1, DivMod
<1>4. \A c \in Rank : base(n, P) + (IF c < remainder(n, P) THEN 1 ELSE 0) =
                      base(m, P) + (IF c < remainder(m, P) THEN 1 ELSE 0)
  BY <1>n, <1>m DEF chunk, chunk_count
<1>5. base(n, P) = base(m, P)
  <2>1. ~(P - 1 < remainder(n, P)) /\ ~(P - 1 < remainder(m, P))
    BY <1>1, <1>2, <1>3
  <2>2. base(n, P) + 0 = base(m, P) + 0
    BY <1>1, <1>4, <2>1
  <2> QED BY <1>2, <1>3, <2>2
<1>6. ~(remainder(n, P) < remainder(m, P))
  <2> SUFFICES ASSUME remainder(n, P) < remainder(m, P) PROVE FALSE
    OBVIOUS
  <2>1. remainder(n, P) \in Rank /\ ~(remainder(n, P) < remainder(n, P))
    BY <1>1, <1>2
  <2>2. base(n, P) + 0 = base(m, P) + 1
    BY <1>4, <2>1
  <2> QED BY <1>2, <1>5, <2>2
<1>7. ~(remainder(m, P) < remainder(n, P))
  <2> SUFFICES ASSUME remainder(m, P) < remainder(n, P) PROVE FALSE
    OBVIOUS
  <2>1. remainder(m, P) \in Rank /\ ~(remainder(m, P) < remainder(m, P))
    BY <1>1, <1>3
  <2>2. base(n, P) + 1 = base(m, P) + 0
    BY <1>4, <2>1
  <2> QED BY <1>2, <1>5, <2>2
<1>8. remainder(n, P) = remainder(m, P)
  BY <1>2, <1>3, <1>6, <1>7
<1> QED BY <1>2, <1>3, <1>5, <1>8, <1>n, <1>m

(***************************************************************************)
(* When everything fits, a rank and its predecessor have the same chunks,  *)
(* but for the rank's own one, which it never receives to reduce.  A chunk *)
(* as long as a request can hold would be sent as nothing.                 *)
(***************************************************************************)
LEMMA FitsPredecessor ==
  ASSUME args \in [Rank -> Arg], NoEmptyChunk, P > 1,
         \A x \in Rank, i \in Position : i <= P - 2 => Fit(x, i),
         NEW q \in Rank, NEW c \in Rank, c # q
  PROVE  chunk(q, c).count = chunk(recv_from(q), c).count /\ ~bad_arguments(q)
<1>1. /\ P \in Nat /\ q \in Int /\ 0 <= q /\ q < P /\ c \in Int /\ 0 <= c /\ c < P
      /\ recv_from(q) \in Rank /\ recv_from(q) # q
  BY Neighbours, PAssumption DEF Rank
<1>2. ASSUME NEW x \in Rank, NEW y \in Rank, x # y
      PROVE  /\ chunk(x, y).count < SgeLimit /\ ~bad_arguments(x)
             /\ chunk(x, y).count = chunk(recv_from(x), y).count % SgeLimit
  <2>1. /\ x \in Int /\ 0 <= x /\ x < P /\ y \in Int /\ 0 <= y /\ y < P
    BY PAssumption DEF Rank
  <2>2. mod_p(x - y) = IF x < y THEN x - y + P ELSE x - y
    BY <1>1, <2>1, ModP
  <2>3. PICK i \in Position : i = mod_p(x - y) - 1 /\ i <= P - 2
    <3>1. mod_p(x - y) - 1 \in Position /\ mod_p(x - y) - 1 <= P - 2
      BY <1>1, <1>2, <2>1, <2>2 DEF Position
    <3> QED BY <3>1
  <2>4. receives(x, i) = y
    BY <2>3, Distance
  <2>5. Fit(x, i)
    BY <2>3
  <2> QED BY <2>4, <2>5 DEF Fit
<1>p. PICK p \in Rank : p = recv_from(q)
  BY <1>1
<1>3. /\ chunk(p, c).count \in Nat /\ chunk(p, c).count > 0 /\ chunk(q, c).count > 0
      /\ SgeLimit \in Nat \ {0}
  BY ChunkSpread, SgeLimitAssumption DEF NoEmptyChunk
<1>4. chunk(q, c).count = chunk(p, c).count % SgeLimit
  BY <1>2, <1>p
<1>5. chunk(p, c).count <= SgeLimit
  <2>1. CASE c # p
    BY <1>2, <1>3, <2>1
  <2>2. CASE c = p
    <3>1. p # q /\ chunk(p, q).count < SgeLimit
      BY <1>1, <1>2, <1>p
    <3>2. chunk(p, c).count <= chunk(p, q).count + 1 /\ chunk(p, q).count \in Nat
      BY ChunkSpread
    <3> QED BY <1>3, <3>1, <3>2
  <2> QED BY <2>1, <2>2
<1>6. chunk(p, c).count # SgeLimit
  <2> SUFFICES ASSUME chunk(p, c).count = SgeLimit PROVE FALSE
    OBVIOUS
  <2>1. SgeLimit % SgeLimit = 0
    BY <1>3
  <2> QED BY <1>3, <1>4, <2>1
<1>7. chunk(p, c).count % SgeLimit = chunk(p, c).count
  BY <1>3, <1>5, <1>6
<1> QED BY <1>2, <1>4, <1>7, <1>p

(***************************************************************************)
(* So a chunk has the same length all around the ring: the first rank      *)
(* after its own where it had not would differ from its predecessor.       *)
(***************************************************************************)
LEMMA FitsAround ==
  ASSUME args \in [Rank -> Arg], NoEmptyChunk, P > 1,
         \A x \in Rank, i \in Position : i <= P - 2 => Fit(x, i),
         NEW q \in Rank, NEW c \in Rank
  PROVE  chunk(q, c).count = chunk(c, c).count
<1>1. P \in Nat /\ c \in Int /\ 0 <= c /\ c < P
  BY PAssumption DEF Rank
<1> DEFINE T == {j \in 0 .. P - 1 : chunk(mod_p(c + j), c).count # chunk(c, c).count}
<1>2. T = {}
  <2> SUFFICES ASSUME T # {} PROVE FALSE
    OBVIOUS
  <2>1. T \subseteq Nat
    BY <1>1
  <2>2. PICK n \in T : \A j \in T : n <= j
    BY <2>1, Least
  <2>3. n \in Nat /\ n < P /\ chunk(mod_p(c + n), c).count # chunk(c, c).count
    BY <1>1, <2>2
  <2>4. mod_p(c + n) = IF c + n < P THEN c + n ELSE c + n - P
    BY <1>1, <2>3, ModP
  <2>5. n > 0
    <3>1. n = 0 => mod_p(c + n) = c
      BY <1>1, <2>3, <2>4
    <3> QED BY <2>3, <3>1
  <2>x. PICK x \in Rank : x = mod_p(c + n)
    BY <1>1, <2>3, ModP
  <2>6. x \in Int /\ 0 <= x /\ x < P /\ x # c
    BY <1>1, <2>3, <2>4, <2>5, <2>x DEF Rank
  <2>7. recv_from(x) = mod_p(c + (n - 1))
    <3>1. recv_from(x) = IF x = 0 THEN P - 1 ELSE x - 1
      BY <1>1, <2>6, ModP DEF recv_from
    <3>2. mod_p(c + (n - 1)) = IF c + (n - 1) < P THEN c + (n - 1) ELSE c + (n - 1) - P
      BY <1>1, <2>3, <2>5, ModP
    <3> QED BY <1>1, <2>3, <2>4, <2>5, <2>x, <3>1, <3>2
  <2>8. chunk(mod_p(c + (n - 1)), c).count = chunk(c, c).count
    <3>1. n - 1 \in 0 .. P - 1 /\ ~(n <= n - 1)
      BY <1>1, <2>3, <2>5
    <3> QED BY <2>2, <3>1
  <2>9. chunk(x, c).count = chunk(recv_from(x), c).count
    BY <2>6, FitsPredecessor
  <2> QED BY <2>3, <2>7, <2>8, <2>9, <2>x
<1>3. PICK j \in 0 .. P - 1 : mod_p(c + j) = q
  <2>1. mod_p(q - c) \in 0 .. P - 1 /\ mod_p(c + mod_p(q - c)) = q
    BY Distance
  <2> QED BY <2>1
<1> QED BY <1>2, <1>3

(***************************************************************************)
(* A rank that has passed the last position knows that everybody agrees.   *)
(***************************************************************************)
LEMMA PassedAll ==
  ASSUME args \in [Rank -> Arg], NoEmptyChunk, P > 1, NEW r \in Rank, Passed(r, 2 * P - 3)
  PROVE  SameCount /\ \A q \in Rank : ~bad_arguments(q)
<1>1. P \in Nat /\ 0 \in Rank /\ 0 \in Position /\ 0 <= P - 2
  BY PAssumption DEF Rank, Position
<1>2. ASSUME NEW x \in Rank, NEW i \in Position, i <= P - 2 PROVE Fit(x, i)
  <2>1. mod_p(r - x) \in 0 .. P - 1 /\ i \in Int
    BY Distance DEF Position
  <2>2. mod_p(r - x) + i <= 2 * P - 3
    BY <1>1, <1>2, <2>1
  <2> QED BY <2>2 DEF Passed
<1>3. \A x \in Rank, i \in Position : i <= P - 2 => Fit(x, i)
  BY <1>2
<1>4. ASSUME NEW q \in Rank PROVE ~bad_arguments(q)
  BY <1>1, <1>3 DEF Fit
<1>5. ASSUME NEW q \in Rank, NEW s \in Rank PROVE args[q].count = args[s].count
  <2>1. \A c \in Rank : chunk(q, c).count = chunk(c, c).count
    BY <1>3, FitsAround
  <2>2. \A c \in Rank : chunk(s, c).count = chunk(c, c).count
    BY <1>3, FitsAround
  <2> QED BY <2>1, <2>2, ChunksTellCount
<1> QED BY <1>4, <1>5 DEF SameCount

(***************************************************************************)
(* Where no chunk is empty, allreduce_ring succeeds nowhere if the ranks   *)
(* do not agree on the count or one of them brings buffers that are too    *)
(* small: for any number of ranks, any counts, lengths that 32 bits cut    *)
(* included, and whatever else fails on the way.                           *)
(***************************************************************************)
THEOREM FailsEverywhereTheorem == Spec => []FailsEverywhere
<1>1. Init => SizesInv
  <2> SUFFICES ASSUME Init PROVE SizesInv
    OBVIOUS
  <2>1. \A r \in Rank : pc[r] = "idle" /\ round[r] = 0
    BY DEF Init
  <2>2. Discipline /\ \A r \in Rank : FitsSoFar(r)
    BY <2>1, InitDiscipline DEF FitsSoFar, InCall, Returned
  <2>3. Paired
    BY InitPaired
  <2> QED BY <2>2, <2>3 DEF SizesInv
<1>2. SizesInv /\ [Next]_vars => SizesInv'
  <2> SUFFICES ASSUME SizesInv, [Next]_vars PROVE SizesInv'
    OBVIOUS
  <2>1. Discipline /\ Paired /\ NoEmptyChunk' = NoEmptyChunk
    BY SkipsStay DEF SizesInv
  <2>2. Discipline' /\ Paired'
    BY <2>1, TypeStep, ControlStep, SendQueueStep, RecvQueueStep, PairedStep DEF Discipline
  <2>3. ASSUME NoEmptyChunk, P > 1 PROVE \A q \in Rank : FitsSoFar(q)'
    <3>1. \A r \in Rank : FitsSoFar(r)
      BY <2>3 DEF SizesInv
    <3> QED BY <2>1, <2>3, <3>1, SizesStep
  <2> QED BY <2>1, <2>2, <2>3 DEF SizesInv
<1>3. SizesInv => FailsEverywhere
  <2> SUFFICES ASSUME SizesInv, NoEmptyChunk, NEW r \in Rank, Returned(r)
               PROVE  SameCount /\ \A q \in Rank : ~bad_arguments(q)
    BY DEF FailsEverywhere
  <2>1. args \in [Rank -> Arg] /\ ~bad_arguments(r)
    BY DEF SizesInv, Discipline, TypeOK, Control, ControlOf, Returned
  <2>2. CASE P > 1
    <3>1. Passed(r, 2 * P - 3)
      BY <2>2 DEF SizesInv, FitsSoFar
    <3> QED BY <2>1, <2>2, <3>1, PassedAll
  <2>3. CASE ~(P > 1)
    <3>1. \A q \in Rank : q = r
      BY <2>3, PAssumption DEF Rank
    <3> QED BY <2>1, <3>1 DEF SameCount
  <2> QED BY <2>2, <2>3
<1> QED
  BY <1>1, <1>2, <1>3, PTL DEF Spec

-----------------------------------------------------------------------------
(* Exceptions.                                                             *)

(***************************************************************************)
(* Legal calls stay legal, and every chunk of a step fits in one request.  *)
(***************************************************************************)
LEMMA WellCalledChunks ==
  ASSUME TypeOK, WellCalled, NEW r \in Rank
  PROVE  /\ recv_chunk(r).count \in Nat /\ recv_chunk(r).count < SgeLimit
         /\ recv_chunk(r).count % SgeLimit = recv_chunk(r).count
<1>1. recv_chunk(r).count \in Nat /\ recv_chunk(r).count <= max_chunk_elems(r)
  BY StepChunks
<1>2. max_chunk_elems(r) \in Nat /\ max_chunk_elems(r) < SgeLimit /\ SgeLimit \in Nat \ {0}
  <2>1. 0 \in Rank
    BY PAssumption DEF Rank
  <2> QED
    BY <2>1, ChunkInData, SgeLimitAssumption DEF TypeOK, WellCalled
<1> DEFINE n == recv_chunk(r).count
<1>3. n \in Nat /\ n < SgeLimit
  BY <1>1, <1>2
<1> HIDE DEF n
<1>4. n % SgeLimit = n
  BY <1>2, <1>3
<1> QED
  BY <1>3, <1>4 DEF n

(***************************************************************************)
(* A rank that is healthy and legally called has nothing to throw: neither *)
(* of its completions is in error, and the message it waits for has the    *)
(* length of the chunk.                                                    *)
(***************************************************************************)
LEMMA NothingToThrow ==
  ASSUME RingInv, WellCalled, NEW r \in Rank, HealthyOf(r)
  PROVE  ~Throw(r)
<1> SUFFICES ASSUME Throw(r) PROVE FALSE
  OBVIOUS
<1>1. ~completion_error(send_cq, r) /\ ~completion_error(recv_cq, r)
  BY DEF HealthyOf, completion_error
<1>2. /\ pc[r] = "wait_recv" /\ recv_chunk(r).count > 0
      /\ completed(recv_cq, r) /\ ~received(r)
  BY <1>1 DEF Throw
<1>3. Alive(r) /\ Landed(r) /\ ArrivalsOf(r)
  BY <1>2 DEF Alive, InCall, Landed, RecvPending, completed, RingInv, Arrivals, WellCalled
<1>4. wc(recv_cq, r).byte_len = recv_chunk(r).count
  BY <1>3, WellCalledChunks DEF ArrivalsOf, RingInv, Discipline
<1> QED
  BY <1>2, <1>4 DEF received

(***************************************************************************)
(* A message is as long as the receive it meets, between ranks that agree  *)
(* and are legally called.                                                 *)
(***************************************************************************)
LEMMA NoLengthError ==
  ASSUME RingInv, WellCalled, NEW s \in Rank, NEW d \in Rank, Alive(d)
  PROVE  ~LengthError(s, d)
<1> SUFFICES ASSUME LengthError(s, d) PROVE FALSE
  OBVIOUS
<1>1. Arrived(s, d) /\ Discipline /\ Paired /\ SameCount
  BY DEF LengthError, RingInv, WellCalled
<1>2. sq[s][d] = <<send_request(s)>> /\ rq[d][s] = <<recv_request(d)>>
  BY <1>1, OnTheWay
<1>3. send_chunk(s) = recv_chunk(d)
  BY <1>1, Matched DEF SameSkips
<1>4. send_request(s).len = recv_request(d).len /\ recv_request(d).len \in Nat
  BY <1>3, WellCalledChunks, <1>1 DEF Discipline, send_request, recv_request, sge
<1>5. Head(sq[s][d]).len > Head(rq[d][s]).len
  BY DEF LengthError
<1> QED
  BY <1>2, <1>4, <1>5, AppendToEmpty

(***************************************************************************)
(* A healthy rank stays healthy, whatever the others do, as long as its    *)
(* adapter need not give up on a send and it does not leave itself.        *)
(***************************************************************************)
LEMMA HealthyRank ==
  ASSUME RingInv, WellCalled, [Next]_vars, NEW q \in Rank, HealthyOf(q), ~Finish(q),
         \A p \in Rank : ~LengthError(q, p) /\ ~(RetryExceeded(q, p) /\ UNCHANGED ctl)
  PROVE  HealthyOf(q)'
<1>1. ~Throw(q) /\ ~Exit(q) /\ \A p \in Rank : ~LengthError(p, q)
  BY NothingToThrow, NoLengthError DEF Exit, HealthyOf, Alive, InCall
<1>2. /\ SendQueueOf(q) /\ RecvQueueOf(q) /\ TypeOK
      /\ pc \in [Rank -> {"idle", "post_recv", "post_send", "wait_send",
                          "wait_recv", "threw", "exited", "finished"}]
      /\ qp \in [Rank -> [Rank -> {"RTS", "ERR", "GONE"}]]
      /\ response \in [Rank -> [Rank -> {"none", "ack", "nak"}]]
      /\ send_cq \in [Rank -> Seq(Completion)] /\ recv_cq \in [Rank -> Seq(Completion)]
  BY DEF RingInv, Discipline, SendQueue, RecvQueue, TypeOK, TransportTypeOK
<1>3. ASSUME Alive(q)', qp'[q] = qp[q], response'[q] = response[q],
             send_cq'[q] = send_cq[q], recv_cq'[q] = recv_cq[q]
      PROVE  HealthyOf(q)'
  BY <1>3 DEF HealthyOf, wc
<1>4. ASSUME NEW r \in Rank, Call(r) PROVE HealthyOf(q)'
  <2>1. Alive(q)'
    BY <1>2, <1>4 DEF Call, WellCalled, HealthyOf, Alive, InCall
  <2> QED
    BY <1>3, <1>4, <2>1 DEF Call, nic
<1>5. ASSUME NEW r \in Rank, PostRecv(r) \/ PostSend(r) PROVE HealthyOf(q)'
  <2>1. Alive(q)'
    BY <1>2, <1>5 DEF PostRecv, PostSend, HealthyOf, Alive, InCall
  <2> QED
    BY <1>3, <1>5, <2>1 DEF PostRecv, PostSend
<1>6. ASSUME NEW r \in Rank, WaitSend(r) \/ WaitRecv(r) PROVE HealthyOf(q)'
  <2>1. /\ Alive(q)' /\ qp' = qp /\ response' = response
        /\ send_cq' = send_cq \/ (send_cq[r] # <<>> /\ send_cq' = take(send_cq, r))
        /\ recv_cq' = recv_cq \/ (recv_cq[r] # <<>> /\ recv_cq' = take(recv_cq, r))
    BY <1>2, <1>6 DEF WaitSend, WaitRecv, advance, received, completed, HealthyOf, Alive, InCall
  <2>2. CASE q # r
    BY <1>2, <1>3, <2>1, <2>2 DEF take
  <2>3. CASE q = r
    <3>1. send_cq'[q] = send_cq[q] \/ send_cq'[q] = <<>>
      <4>1. CASE send_cq[q] # <<>> /\ send_cq' = take(send_cq, q)
        <5>1. Len(send_cq[q]) = 1
          BY <1>2, <4>1 DEF SendQueueOf
        <5> QED
          BY <1>2, <4>1, <5>1, TailOfOne DEF take
      <4> QED BY <2>1, <2>3, <4>1
    <3>2. recv_cq'[q] = recv_cq[q] \/ recv_cq'[q] = <<>>
      <4>1. CASE recv_cq[q] # <<>> /\ recv_cq' = take(recv_cq, q)
        <5>1. Len(recv_cq[q]) = 1
          BY <1>2, <4>1 DEF RecvQueueOf, HealthyOf
        <5> QED
          BY <1>2, <4>1, <5>1, TailOfOne DEF take
      <4> QED BY <2>1, <2>3, <4>1
    <3> QED
      BY <2>1, <3>1, <3>2 DEF HealthyOf, wc
  <2> QED BY <2>2, <2>3
<1>7. ASSUME NEW r \in Rank, Throw(r) \/ Exit(r) \/ Finish(r) PROVE HealthyOf(q)'
  <2>1. r # q
    BY <1>1, <1>7
  <2>2. pc'[q] = pc[q]
    BY <1>2, <1>7, <2>1 DEF Throw, Exit, Finish
  <2>3. /\ qp'[q] = qp[q] /\ response'[q] = response[q]
        /\ send_cq'[q] = send_cq[q] /\ recv_cq'[q] = recv_cq[q]
    BY <1>2, <1>7, <2>1 DEF Throw, Exit, Finish, destroy, take
  <2> QED BY <1>3, <2>2, <2>3 DEF HealthyOf, Alive, InCall
<1>8. ASSUME NEW s \in Rank, NEW d \in Rank, Deliver(s, d), UNCHANGED ctl PROVE HealthyOf(q)'
  <2>1. /\ Alive(q)' /\ qp' = qp /\ send_cq' = send_cq
        /\ response' = [response EXCEPT ![s][d] = "ack"]
        /\ recv_cq' = [recv_cq EXCEPT ![d] = Append(@, cqe("SUCCESS", Head(sq[s][d]).len))]
    BY <1>8 DEF Deliver, ctl, HealthyOf, Alive, InCall
  <2>2. \A p \in Rank : response'[q][p] # "nak"
    BY <1>2, <2>1 DEF HealthyOf
  <2>3. recv_cq'[q] # <<>> => Head(recv_cq'[q]).status = "SUCCESS"
    <3>1. CASE q # d
      BY <1>2, <2>1, <3>1 DEF HealthyOf, wc
    <3>2. CASE q = d
      <4>1. recv_cq[q] = <<>>
        BY <1>8, <3>2, OnTheWay DEF Deliver, RingInv
      <4>2. recv_cq'[q] = Append(<<>>, cqe("SUCCESS", Head(sq[s][d]).len))
        BY <1>2, <2>1, <3>2, <4>1
      <4>3. Head(recv_cq'[q]) = cqe("SUCCESS", Head(sq[s][d]).len)
        BY <4>2, AppendToEmpty
      <4> QED
        BY <4>3 DEF cqe
    <3> QED BY <3>1, <3>2
  <2> QED
    BY <2>1, <2>2, <2>3 DEF HealthyOf, wc
<1>9. ASSUME NEW s \in Rank, NEW d \in Rank, s # q, UNCHANGED ctl,
             Complete(s, d) \/ RetryExceeded(s, d) \/ FlushSend(s, d)
      PROVE  HealthyOf(q)'
  <2>1. /\ response' = [response EXCEPT ![s][d] = "none"] /\ recv_cq' = recv_cq
        /\ qp' = qp \/ qp' = [qp EXCEPT ![s][d] = "ERR"]
        /\ \E w : send_cq' = [send_cq EXCEPT ![s] = w]
    BY <1>9 DEF Complete, RetryExceeded, FlushSend, FinishSend
  <2>2. /\ qp'[q] = qp[q] /\ response'[q] = response[q] /\ send_cq'[q] = send_cq[q]
    BY <1>2, <1>9, <2>1
  <2>3. Alive(q)'
    BY <1>9 DEF ctl, HealthyOf, Alive, InCall
  <2> QED BY <1>3, <2>1, <2>2, <2>3
<1>10. ASSUME NEW d \in Rank, Complete(q, d), UNCHANGED ctl PROVE HealthyOf(q)'
  <2>1. response[q][d] # "nak" /\ sq[q][d] # <<>>
    BY <1>10 DEF HealthyOf, Complete
  <2>2. /\ Alive(q)' /\ qp' = qp /\ recv_cq' = recv_cq
        /\ response' = [response EXCEPT ![q][d] = "none"]
        /\ send_cq' = [send_cq EXCEPT ![q] = Append(@, cqe("SUCCESS", 0))]
    BY <1>10, <2>1 DEF Complete, FinishSend, ctl, HealthyOf, Alive, InCall
  <2>3. \A p \in Rank : response'[q][p] # "nak"
    BY <1>2, <2>2 DEF HealthyOf
  <2>4. Head(send_cq'[q]) = cqe("SUCCESS", 0)
    <3>1. send_cq[q] = <<>>
      BY <1>2, <2>1 DEF SendQueueOf
    <3>2. send_cq'[q] = Append(<<>>, cqe("SUCCESS", 0))
      BY <1>2, <2>2, <3>1
    <3> QED BY <3>2, AppendToEmpty
  <2> QED
    BY <2>2, <2>3, <2>4 DEF HealthyOf, wc, cqe
<1>11. ASSUME NEW s \in Rank, NEW d \in Rank, LengthError(s, d) \/ FlushRecv(d, s),
              UNCHANGED ctl
       PROVE  HealthyOf(q)'
  <2>1. d # q /\ (LengthError(s, d) => s # q)
    BY <1>1, <1>11 DEF HealthyOf, FlushRecv
  <2>2. /\ qp' = qp \/ qp' = [qp EXCEPT ![d][s] = "ERR"]
        /\ response' = response \/ (s # q /\ response' = [response EXCEPT ![s][d] = "nak"])
        /\ \E w : recv_cq' = [recv_cq EXCEPT ![d] = w]
        /\ send_cq' = send_cq
    BY <1>11, <2>1 DEF LengthError, FlushRecv
  <2>3. /\ qp'[q] = qp[q] /\ response'[q] = response[q] /\ recv_cq'[q] = recv_cq[q]
    BY <1>2, <2>1, <2>2
  <2>4. Alive(q)'
    BY <1>11 DEF ctl, HealthyOf, Alive, InCall
  <2> QED BY <1>3, <2>2, <2>3, <2>4
<1>12. \A d \in Rank : ~FlushSend(q, d)
  BY DEF HealthyOf, FlushSend
<1>13. CASE UNCHANGED vars
  <2>1. Alive(q)'
    BY <1>13 DEF vars, HealthyOf, Alive, InCall
  <2> QED
    BY <1>3, <1>13, <2>1 DEF vars, nic
<1>14. ASSUME NEW s \in Rank, NEW d \in Rank, AdapterStep(s, d), UNCHANGED ctl
       PROVE  HealthyOf(q)'
  BY <1>8, <1>9, <1>10, <1>11, <1>12, <1>14 DEF AdapterStep
<1> QED
  BY <1>4, <1>5, <1>6, <1>7, <1>13, <1>14 DEF Next, RankStep, Nic, Terminating

(***************************************************************************)
(* Legal calls stay legal.                                                 *)
(***************************************************************************)
LEMMA WellCalledStays ==
  ASSUME [Next]_vars
  PROVE  WellCalled' = WellCalled
<1>1. args' = args /\ SameCount' = SameCount
  BY SameArguments
<1>2. \A r \in Rank : bad_arguments(r)' = bad_arguments(r) /\ max_chunk_elems(r)' = max_chunk_elems(r)
  BY <1>1 DEF bad_arguments, max_chunk_elems, chunk
<1> QED BY <1>1, <1>2 DEF WellCalled

(***************************************************************************)
(* Health is kept by every step of every rank and of every adapter.        *)
(***************************************************************************)
LEMMA HealthyStep == RingInv /\ Healthy /\ [Next]_vars => Healthy'
<1> SUFFICES ASSUME RingInv, Healthy, [Next]_vars, WellCalled', ~Teardown, NEW q \in Rank
             PROVE  HealthyOf(q)'
  BY DEF Healthy
<1>1. WellCalled /\ \A r \in Rank : HealthyOf(r)
  BY WellCalledStays DEF Healthy
<1>2. ~Finish(q)
  BY DEF Finish
<1>3. ASSUME NEW p \in Rank PROVE ~LengthError(q, p) /\ ~RetryExceeded(q, p)
  <2>1. ~LengthError(q, p)
    BY <1>1, NoLengthError DEF HealthyOf
  <2> QED BY <1>1, <2>1 DEF HealthyOf, RetryExceeded
<1> QED BY <1>1, <1>2, <1>3, HealthyRank

(***************************************************************************)
(* Agreeing ranks with legal buffers never see an exception from           *)
(* allreduce_ring while all Communicators live: for every number of ranks  *)
(* and however far one is ahead of another.                                *)
(***************************************************************************)
THEOREM NeverThrowsTheorem == Spec => []NeverThrows
<1>1. Init => Healthy
  BY DEF Init, TransportInit, Healthy, HealthyOf, Alive
<1>2. Healthy => NeverThrows
  BY DEF Healthy, HealthyOf, Alive, InCall, NeverThrows
<1> QED
  BY <1>1, <1>2, HealthyStep, RingInvariant, PTL DEF Spec

-----------------------------------------------------------------------------
(* Leaving.                                                                *)

(***************************************************************************)
(* A rank that is out of its calls for good stays where it was: all it can *)
(* do is leave after an exception.                                         *)
(***************************************************************************)
LEMMA OutStays ==
  ASSUME TypeOK, [Next]_vars, NEW x \in Rank
  PROVE  /\ Alive(x)' => Alive(x)
         /\ ~Alive(x) => /\ round'[x] = round[x] /\ phase'[x] = phase[x] /\ step'[x] = step[x]
                         /\ pc'[x] = pc[x] \/ (pc[x] = "threw" /\ pc'[x] = "exited")
<1>1. /\ pc \in [Rank -> {"idle", "post_recv", "post_send", "wait_send",
                          "wait_recv", "threw", "exited", "finished"}]
      /\ phase \in [Rank -> {1, 2}] /\ step \in [Rank -> Nat]
      /\ round \in [Rank -> 0 .. MaxRounds]
  BY DEF TypeOK
<1> DEFINE Stays == /\ round'[x] = round[x] /\ phase'[x] = phase[x] /\ step'[x] = step[x]
                    /\ pc'[x] = pc[x] \/ (pc[x] = "threw" /\ pc'[x] = "exited")
<1>2. CASE UNCHANGED ctl
  BY <1>2 DEF ctl, Alive, InCall
<1>3. ASSUME NEW r \in Rank, RankStep(r), r # x PROVE Stays /\ pc'[x] = pc[x]
  BY <1>1, <1>3 DEF RankStep, Call, PostRecv, PostSend, WaitSend, WaitRecv, advance,
                    Throw, Exit, Finish
<1>4. ASSUME RankStep(x), ~Alive(x) PROVE Stays /\ ~Alive(x)'
  <2>1. Exit(x)
    BY <1>4 DEF RankStep, Call, PostRecv, PostSend, WaitSend, WaitRecv, Throw, Finish,
                Alive, InCall
  <2> QED
    BY <1>1, <2>1 DEF Exit, Alive, InCall
<1> QED
  BY <1>2, <1>3, <1>4 DEF Next, Nic, Terminating, vars, ctl, Alive, InCall

(***************************************************************************)
(* Only a healthy rank has a send outstanding.                             *)
(***************************************************************************)
LEMMA SenderHealthy ==
  ASSUME RingInv, WellCalled, Leaving, NEW s \in Rank, NEW d \in Rank, sq[s][d] # <<>>
  PROVE  /\ HealthyOf(s) /\ SendPending(s) /\ InCall(s) /\ Alive(s)
         /\ d = send_to(s) /\ s = recv_from(d) /\ s # d
<1>1. SendQueueOf(s) /\ StageOf(s)
  BY DEF RingInv, Discipline, SendQueue, Leaving, LeavingOf
<1>2. d = send_to(s) /\ SendPending(s)
  BY <1>1 DEF SendQueueOf
<1>3. InCall(s) /\ Alive(s) /\ pc[s] = "wait_send"
  BY <1>2 DEF SendPending, InCall, Alive
<1>4. HealthyOf(s)
  BY <1>1, <1>2, <1>3 DEF StageOf, BrokenOf, ThrewOf, LeftOf, SendQueueOf
<1>5. s = recv_from(d) /\ s # d
  BY <1>2, <1>3, Neighbours, AtPosition DEF RingInv
<1> QED BY <1>2, <1>3, <1>4, <1>5

(***************************************************************************)
(* An adapter gives up only on a successor that has left: a rank that is   *)
(* still there has broken no QP but the one to its own successor.          *)
(***************************************************************************)
LEMMA PeerGone ==
  ASSUME RingInv, WellCalled, Leaving, NEW a \in Rank, NEW b \in Rank, RetryExceeded(a, b)
  PROVE  /\ HealthyOf(a) /\ SendPending(a) /\ InCall(a) /\ b = send_to(a)
         /\ pc[b] \in {"exited", "finished"} /\ ~Alive(b)
<1>1. sq[a][b] # <<>> /\ qp[b][a] # "RTS"
  BY DEF RetryExceeded
<1>2. HealthyOf(a) /\ SendPending(a) /\ InCall(a) /\ Alive(a) /\ b = send_to(a)
  BY <1>1, SenderHealthy
<1>3. StageOf(b)
  BY DEF Leaving, LeavingOf
<1>4. ~GivenUp(b)
  BY <1>1, <1>2 DEF GivenUp
<1> QED
  BY <1>1, <1>2, <1>3, <1>4 DEF StageOf, HealthyOf, BrokenOf, ThrewOf, LeftOf, Alive, InCall

(***************************************************************************)
(* Once somebody has returned from the last call everybody is in it.       *)
(***************************************************************************)
LEMMA EverybodyLast ==
  ASSUME TypeOK, CollectiveSync, SameCount, P > 1, NEW x \in Rank, pc[x] = "finished",
         round[x] = MaxRounds, NEW r \in Rank, args[r].count > 0
  PROVE  round[r] = MaxRounds
<1>1. args[x].count > 0
  BY DEF SameCount
<1>2. returns(x) <= round[r]
  BY <1>1 DEF CollectiveSync
<1>3. returns(x) = MaxRounds
  BY DEF returns, Outside
<1>4. round[r] \in 0 .. MaxRounds
  BY DEF TypeOK
<1> QED BY <1>2, <1>3, <1>4, MaxRoundsAssumption

(***************************************************************************)
(* A rank that has a chunk to send or to receive has something to reduce.  *)
(***************************************************************************)
LEMMA SomethingToReduce ==
  ASSUME TypeOK, NEW r \in Rank, send_chunk(r).count > 0 \/ recv_chunk(r).count > 0
  PROVE  args[r].count > 0
<1>1. /\ send_chunk(r).offset \in Nat /\ send_chunk(r).count \in Nat
      /\ send_chunk(r).offset + send_chunk(r).count <= args[r].count
      /\ recv_chunk(r).offset \in Nat /\ recv_chunk(r).count \in Nat
      /\ recv_chunk(r).offset + recv_chunk(r).count <= args[r].count
  BY StepChunks
<1>2. args[r].count \in Nat
  BY DEF TypeOK, Arg
<1> QED BY <1>1, <1>2

(***************************************************************************)
(* Where a rank has failed.                                                *)
(***************************************************************************)
LEMMA FailedAt ==
  ASSUME RingInv, WellCalled, Leaving, NEW d \in Rank, Failed(d)
  PROVE  /\ LateOf(d) /\ P > 1 /\ P \in Nat /\ pos(d) \in Position /\ round[d] = MaxRounds
         /\ step[d] \in Nat /\ step[d] < P - 1 /\ phase[d] \in {1, 2}
         /\ receives(d, pos(d)) \in Rank /\ recv_chunk(d) = chunk(d, receives(d, pos(d)))
         /\ recv_chunk(d).count \in Nat /\ recv_chunk(d).offset \in Nat
<1>1. LateOf(d) /\ TypeOK
  BY DEF Leaving, LeavingOf, RingInv, Discipline
<1>2. /\ P > 1 /\ step[d] < P - 1 /\ round[d] = MaxRounds /\ step[d] \in Nat
      /\ phase[d] \in {1, 2} /\ P \in Nat
  BY <1>1, PAssumption DEF LateOf, TypeOK
<1>3. pos(d) \in Position /\ recv_index(d, phase[d], step[d]) = receives(d, pos(d))
  BY <1>2, Positions
<1>4. receives(d, pos(d)) \in Rank
  BY <1>3, SameChunk
<1> QED
  BY <1>1, <1>2, <1>3, <1>4, StepChunks DEF recv_chunk

(***************************************************************************)
(* A message that meets the receive a rank has left behind is the one that *)
(* the receive was posted for.                                             *)
(***************************************************************************)
LEMMA StillMatched ==
  ASSUME RingInv, WellCalled, CollectiveSync, Leaving,
         NEW s \in Rank, NEW d \in Rank, Arrived(s, d), ~Alive(d)
  PROVE  /\ sq[s][d] = <<send_request(s)>> /\ rq[d][s] = <<recv_request(d)>>
         /\ send_chunk(s) = recv_chunk(d)
<1>1. /\ sq[s][d] # <<>> /\ rq[d][s] # <<>> /\ qp[d][s] = "RTS"
      /\ response[s][d] = "none" /\ Discipline /\ TypeOK /\ SameCount
  BY DEF Arrived, RingInv, Discipline, WellCalled
<1>2. /\ HealthyOf(s) /\ SendPending(s) /\ InCall(s) /\ Alive(s)
      /\ d = send_to(s) /\ s = recv_from(d)
  BY <1>1, SenderHealthy
<1>3. sq[s][d] = <<send_request(s)>>
  BY <1>1, <1>2 DEF Discipline, SendQueue, SendQueueOf
<1>4. pc[d] = "threw"
  <2>1. StageOf(d)
    BY DEF Leaving, LeavingOf
  <2> QED
    BY <1>1, <2>1 DEF StageOf, HealthyOf, BrokenOf, SendPending, ThrewOf, LeftOf, Alive, InCall
<1>5. rq[d][s] = <<recv_request(d)>> /\ recv_chunk(d).count > 0
  BY <1>1, <1>2, <1>4 DEF Leaving, LeavingOf, BehindOf
<1>6. Failed(d)
  BY <1>4 DEF Failed
<1>7. /\ LateOf(d) /\ P > 1 /\ pos(d) \in Position
      /\ receives(d, pos(d)) \in Rank /\ recv_chunk(d) = chunk(d, receives(d, pos(d)))
  BY <1>6, FailedAt
<1>8. /\ pos(s) \in Position /\ send_chunk(s) = chunk(s, sends(s, pos(s)))
      /\ receives(d, pos(s)) = sends(s, pos(s)) /\ receives(d, pos(d)) = sends(s, pos(d))
  BY <1>1, <1>2, <1>7, AtPosition, SameChunk
<1>9. chunk(d, receives(d, pos(d))) = chunk(s, sends(s, pos(d)))
  BY <1>1, <1>8, AgreedChunks
<1>10. Due(s, pos(s)) /\ Due(s, pos(d))
  BY <1>2, <1>5, <1>7, <1>8, <1>9 DEF Due, SendPending
<1>11. round[s] = MaxRounds
  <2>1. PICK x \in Rank : pc[x] = "finished"
    BY <1>7 DEF LateOf
  <2>2. round[x] = MaxRounds
    BY <2>1 DEF Leaving, LeavingOf
  <2>3. args[s].count > 0
    BY <1>1, <1>2, SomethingToReduce DEF SendPending
  <2> QED BY <1>1, <1>7, <2>1, <2>2, <2>3, EverybodyLast
<1>12. /\ pos(s) < pos(d) => Sent(s, MaxRounds, pos(s))
       /\ ~Sent(s, MaxRounds, pos(d))
  <2>1. LagOf(s)
    BY DEF Leaving, LeavingOf
  <2> QED
    BY <1>1, <1>2, <1>4, <1>8, <1>10, <2>1 DEF LagOf
<1>13. pc[s] = "wait_send" /\ pos(s) \in Int /\ pos(d) \in Int
  BY <1>2, <1>7, <1>8 DEF SendPending, Position
<1>14. ~(pos(d) < pos(s)) /\ ~Sent(s, MaxRounds, pos(s))
  BY <1>1, <1>2, <1>11, <1>12, <1>13, MaxRoundsAssumption DEF Sent
<1>15. pos(s) = pos(d)
  BY <1>12, <1>13, <1>14
<1> QED
  BY <1>3, <1>5, <1>7, <1>8, <1>9, <1>15

(***************************************************************************)
(* No message is refused, also by a rank that is out.                      *)
(***************************************************************************)
LEMMA NoRefusal ==
  ASSUME RingInv, WellCalled, CollectiveSync, Leaving, NEW s \in Rank, NEW d \in Rank
  PROVE  ~LengthError(s, d)
<1>1. CASE Alive(d)
  BY <1>1, NoLengthError
<1>2. CASE ~Alive(d)
  <2> SUFFICES ASSUME LengthError(s, d) PROVE FALSE
    OBVIOUS
  <2>1. Arrived(s, d) /\ Head(sq[s][d]).len > Head(rq[d][s]).len /\ TypeOK
    BY DEF LengthError, RingInv, Discipline
  <2>2. /\ sq[s][d] = <<send_request(s)>> /\ rq[d][s] = <<recv_request(d)>>
        /\ send_chunk(s) = recv_chunk(d)
    BY <1>2, <2>1, StillMatched
  <2>3. send_request(s).len = recv_request(d).len /\ recv_request(d).len \in Nat
    BY <2>1, <2>2, WellCalledChunks DEF send_request, recv_request, sge
  <2> QED
    BY <2>1, <2>2, <2>3, AppendToEmpty
<1> QED BY <1>1, <1>2

(***************************************************************************)
(* Nothing happens to the connections of a rank without an outstanding     *)
(* send but what it does itself.                                           *)
(***************************************************************************)
LEMMA QuietRank ==
  ASSUME TypeOK, [Next]_vars, NEW q \in Rank, \A p \in Rank : sq[q][p] = <<>>,
         \A s \in Rank : ~LengthError(s, q)
  PROVE  \/ RankStep(q)
         \/ /\ qp'[q] = qp[q] /\ response'[q] = response[q] /\ send_cq'[q] = send_cq[q]
            /\ pc'[q] = pc[q] /\ phase'[q] = phase[q] /\ step'[q] = step[q]
            /\ round'[q] = round[q]
<1> DEFINE Same == /\ qp'[q] = qp[q] /\ response'[q] = response[q] /\ send_cq'[q] = send_cq[q]
           Here == /\ pc'[q] = pc[q] /\ phase'[q] = phase[q] /\ step'[q] = step[q]
                   /\ round'[q] = round[q]
<1>1. /\ pc \in [Rank -> {"idle", "post_recv", "post_send", "wait_send",
                          "wait_recv", "threw", "exited", "finished"}]
      /\ phase \in [Rank -> {1, 2}] /\ step \in [Rank -> Nat]
      /\ round \in [Rank -> 0 .. MaxRounds]
      /\ qp \in [Rank -> [Rank -> {"RTS", "ERR", "GONE"}]]
      /\ response \in [Rank -> [Rank -> {"none", "ack", "nak"}]]
      /\ send_cq \in [Rank -> Seq(Completion)]
  BY DEF TypeOK, TransportTypeOK
<1>2. ASSUME NEW r \in Rank, RankStep(r), r # q PROVE Same /\ Here
  <2>1. Here
    BY <1>1, <1>2 DEF RankStep, Call, PostRecv, PostSend, WaitSend, WaitRecv, advance,
                      Throw, Exit, Finish
  <2>2. Same
    BY <1>1, <1>2 DEF RankStep, Call, PostRecv, PostSend, WaitSend, WaitRecv,
                      Throw, Exit, Finish, destroy, take, nic
  <2> QED BY <2>1, <2>2
<1>3. ASSUME UNCHANGED ctl PROVE Here
  BY <1>3 DEF ctl
<1>4. ASSUME NEW a \in Rank, NEW b \in Rank, Deliver(a, b) PROVE Same
  <2>1. a # q /\ qp' = qp /\ send_cq' = send_cq /\ response' = [response EXCEPT ![a][b] = "ack"]
    BY <1>4 DEF Deliver, Arrived
  <2> QED BY <1>1, <2>1
<1>5. ASSUME NEW a \in Rank, NEW b \in Rank, LengthError(a, b) PROVE Same
  <2>1. a # q /\ b # q
    BY <1>5 DEF LengthError, Arrived
  <2>2. /\ qp' = [qp EXCEPT ![b][a] = "ERR"] /\ send_cq' = send_cq
        /\ response' = [response EXCEPT ![a][b] = "nak"]
    BY <1>5 DEF LengthError
  <2> QED BY <1>1, <2>1, <2>2
<1>6. ASSUME NEW a \in Rank, NEW b \in Rank,
             Complete(a, b) \/ RetryExceeded(a, b) \/ FlushSend(a, b)
      PROVE  Same
  <2>1. /\ a # q /\ response' = [response EXCEPT ![a][b] = "none"]
        /\ qp' = qp \/ qp' = [qp EXCEPT ![a][b] = "ERR"]
        /\ \E w : send_cq' = [send_cq EXCEPT ![a] = w]
    BY <1>6 DEF Complete, RetryExceeded, FlushSend, FinishSend
  <2> QED BY <1>1, <2>1
<1>7. ASSUME NEW a \in Rank, NEW b \in Rank, FlushRecv(a, b) PROVE Same
  BY <1>7 DEF FlushRecv
<1>8. CASE UNCHANGED vars
  BY <1>8 DEF vars, nic
<1> QED
  BY <1>2, <1>3, <1>4, <1>5, <1>6, <1>7, <1>8 DEF Next, Nic, AdapterStep, Terminating

(***************************************************************************)
(* A rank goes out of its calls in two ways only: it finishes, or it       *)
(* throws because its adapter gave up on its send.                         *)
(***************************************************************************)
LEMMA WayOut ==
  ASSUME RingInv, WellCalled, Leaving, [Next]_vars, NEW q \in Rank, Alive(q), ~Alive(q)'
  PROVE  Finish(q) \/ (BrokenOf(q) /\ Throw(q))
<1>1. pc \in [Rank -> {"idle", "post_recv", "post_send", "wait_send",
                       "wait_recv", "threw", "exited", "finished"}]
  BY DEF RingInv, Discipline, TypeOK
<1>2. pc'[q] # pc[q]
  BY DEF Alive, InCall
<1>3. RankStep(q)
  <2>1. ASSUME NEW r \in Rank, RankStep(r), r # q PROVE FALSE
    BY <1>1, <1>2, <2>1 DEF RankStep, Call, PostRecv, PostSend, WaitSend, WaitRecv, advance,
                            Throw, Exit, Finish
  <2> QED
    BY <1>2, <2>1 DEF Next, Nic, Terminating, ctl, vars
<1>4. Throw(q) \/ Finish(q)
  BY <1>1, <1>3 DEF RankStep, Call, PostRecv, PostSend, WaitSend, WaitRecv, advance, Exit,
                    WellCalled, Alive, InCall
<1>5. StageOf(q)
  BY DEF Leaving, LeavingOf
<1> QED
  BY <1>4, <1>5, NothingToThrow DEF StageOf, ThrewOf, LeftOf, Alive, InCall

(***************************************************************************)
(* A rank whose adapter has given up on a send.                            *)
(***************************************************************************)
LEMMA GivingUp ==
  ASSUME RingInv, WellCalled, Leaving, NEW a \in Rank, NEW b \in Rank, RetryExceeded(a, b),
         UNCHANGED ctl
  PROVE  BrokenOf(a)'
<1>1. /\ HealthyOf(a) /\ SendPending(a) /\ InCall(a) /\ b = send_to(a) /\ ~Alive(b)
  BY PeerGone
<1>2. /\ qp \in [Rank -> [Rank -> {"RTS", "ERR", "GONE"}]]
      /\ response \in [Rank -> [Rank -> {"none", "ack", "nak"}]]
      /\ send_cq \in [Rank -> Seq(Completion)] /\ SendQueueOf(a)
  BY DEF RingInv, Discipline, TypeOK, TransportTypeOK, SendQueue
<1>3. /\ sq[a][b] # <<>> /\ qp' = [qp EXCEPT ![a][b] = "ERR"]
      /\ response' = [response EXCEPT ![a][b] = "none"]
      /\ send_cq' = [send_cq EXCEPT ![a] = Append(@, cqe("RETRY_EXC_ERR", 0))]
  BY DEF RetryExceeded, FinishSend
<1>4. ~Alive(b)' /\ SendPending(a)'
  BY <1>1 DEF ctl, Alive, InCall, SendPending, send_chunk, chunk
<1>5. GivenUp(a)'
  BY <1>1, <1>2, <1>3, <1>4 DEF GivenUp, HealthyOf
<1>6. send_cq'[a] # <<>> /\ Head(send_cq'[a]) = cqe("RETRY_EXC_ERR", 0)
  <2>1. send_cq[a] = <<>>
    BY <1>1, <1>2, <1>3 DEF SendQueueOf
  <2>2. send_cq'[a] = Append(<<>>, cqe("RETRY_EXC_ERR", 0))
    BY <1>2, <1>3, <2>1
  <2> QED BY <2>2, AppendToEmpty
<1> QED
  BY <1>4, <1>5, <1>6 DEF BrokenOf, wc, cqe

(***************************************************************************)
(* A healthy rank stays healthy, gives up on its send or finishes.         *)
(***************************************************************************)
LEMMA HealthyNext ==
  ASSUME RingInv, WellCalled, CollectiveSync, Leaving, [Next]_vars, NEW q \in Rank, HealthyOf(q)
  PROVE  \/ HealthyOf(q)'
         \/ BrokenOf(q)' /\ UNCHANGED ctl /\ \E b \in Rank : RetryExceeded(q, b)
         \/ LeftOf(q)' /\ pc'[q] = "finished" /\ Finish(q)
<1>1. CASE Finish(q)
  <2>1. pc'[q] = "finished" /\ \A p \in Rank : qp'[q][p] = "GONE"
    BY <1>1 DEF Finish, destroy, RingInv, Discipline, TypeOK, TransportTypeOK
  <2> QED BY <1>1, <2>1 DEF LeftOf
<1>2. CASE \E b \in Rank : RetryExceeded(q, b) /\ UNCHANGED ctl
  BY <1>2, GivingUp
<1>3. CASE ~Finish(q) /\ \A b \in Rank : ~(RetryExceeded(q, b) /\ UNCHANGED ctl)
  <2>1. \A p \in Rank : ~LengthError(q, p)
    BY NoRefusal
  <2> QED BY <1>3, <2>1, HealthyRank
<1> QED BY <1>1, <1>2, <1>3

(***************************************************************************)
(* A rank is healthy, or it goes through the stages of leaving.            *)
(***************************************************************************)
LEMMA StageStep ==
  ASSUME RingInv, WellCalled, CollectiveSync, Leaving, [Next]_vars, NEW q \in Rank
  PROVE  /\ StageOf(q)'
         /\ BrokenOf(q) /\ ~Throw(q) =>
              BrokenOf(q)' /\ round'[q] = round[q] /\ phase'[q] = phase[q] /\ step'[q] = step[q]
<1>1. StageOf(q) /\ SendQueueOf(q) /\ TypeOK /\ send_to(q) \in Rank /\ args' = args
  BY Neighbours, SameArguments DEF Leaving, LeavingOf, RingInv, Discipline, SendQueue
<1>2. pc \in [Rank -> {"idle", "post_recv", "post_send", "wait_send",
                       "wait_recv", "threw", "exited", "finished"}]
  BY <1>1 DEF TypeOK
<1>3. \A s \in Rank : ~LengthError(s, q)
  BY NoRefusal
<1>4. ~Alive(send_to(q)) => ~Alive(send_to(q))'
  BY <1>1, OutStays
<1>5. ASSUME GivenUp(q), qp'[q] = qp[q], response'[q] = response[q] PROVE GivenUp(q)'
  BY <1>4, <1>5 DEF GivenUp
<1>6. CASE HealthyOf(q)
  <2>1. ~BrokenOf(q)
    BY <1>6 DEF HealthyOf, BrokenOf
  <2> QED BY <1>6, <2>1, HealthyNext DEF StageOf
<1>7. CASE BrokenOf(q)
  <2>1. pc[q] = "wait_send" /\ send_chunk(q).count > 0 /\ SendPending(q) /\ GivenUp(q)
    BY <1>7 DEF BrokenOf, SendPending
  <2>2. \A p \in Rank : sq[q][p] = <<>>
    BY <1>1, <1>7, <2>1 DEF BrokenOf, SendQueueOf
  <2>3. RankStep(q) => Throw(q)
    <3>1. send_chunk(q).count # 0
      <4>1. send_chunk(q).count \in Nat
        BY <1>1, StepChunks
      <4> QED BY <2>1, <4>1
    <3>2. ~WaitSend(q)
      BY <1>7, <3>1 DEF WaitSend, completed, BrokenOf
    <3> QED
      BY <2>1, <3>2 DEF RankStep, Call, PostRecv, PostSend, WaitRecv, Exit, Finish
  <2>4. CASE Throw(q)
    <3>1. pc'[q] = "threw" /\ qp' = qp /\ response' = response
      BY <1>2, <2>4 DEF Throw
    <3> QED BY <1>5, <2>1, <2>4, <3>1 DEF StageOf, ThrewOf
  <2>5. CASE ~Throw(q)
    <3>1. /\ qp'[q] = qp[q] /\ response'[q] = response[q] /\ send_cq'[q] = send_cq[q]
          /\ pc'[q] = pc[q] /\ phase'[q] = phase[q] /\ step'[q] = step[q]
          /\ round'[q] = round[q]
      BY <1>1, <1>3, <2>2, <2>3, <2>5, QuietRank
    <3>2. SendPending(q)'
      BY <1>1, <2>1, <3>1 DEF SendPending, send_chunk, chunk
    <3> QED
      BY <1>5, <1>7, <2>1, <3>1, <3>2 DEF StageOf, BrokenOf, wc
  <2> QED BY <2>4, <2>5
<1>8. CASE ThrewOf(q)
  <2>1. pc[q] = "threw" /\ GivenUp(q) /\ ~SendPending(q) /\ ~BrokenOf(q)
    BY <1>8 DEF ThrewOf, SendPending, BrokenOf
  <2>2. \A p \in Rank : sq[q][p] = <<>>
    BY <1>1, <2>1 DEF SendQueueOf
  <2>3. RankStep(q) => Exit(q)
    BY <2>1 DEF RankStep, Call, PostRecv, PostSend, WaitSend, WaitRecv, Throw, Finish
  <2>4. CASE Exit(q)
    <3>1. pc'[q] = "exited" /\ \A p \in Rank : qp'[q][p] = "GONE"
      BY <1>1, <2>4 DEF Exit, destroy, TypeOK, TransportTypeOK
    <3> QED BY <2>1, <3>1 DEF StageOf, LeftOf
  <2>5. CASE ~Exit(q)
    <3>1. qp'[q] = qp[q] /\ response'[q] = response[q] /\ pc'[q] = pc[q]
      BY <1>1, <1>3, <2>2, <2>3, <2>5, QuietRank
    <3> QED BY <1>5, <2>1, <3>1 DEF StageOf, ThrewOf
  <2> QED BY <2>4, <2>5
<1>9. CASE LeftOf(q)
  <2>1. /\ pc[q] \in {"exited", "finished"} /\ ~SendPending(q) /\ ~BrokenOf(q)
        /\ \A p \in Rank : qp[q][p] = "GONE"
    BY <1>9 DEF LeftOf, SendPending, BrokenOf
  <2>2. \A p \in Rank : sq[q][p] = <<>>
    BY <1>1, <2>1 DEF SendQueueOf
  <2>3. ~RankStep(q)
    BY <2>1 DEF RankStep, Call, PostRecv, PostSend, WaitSend, WaitRecv, Throw, Exit, Finish
  <2>4. qp'[q] = qp[q] /\ pc'[q] = pc[q]
    BY <1>1, <1>3, <2>2, <2>3, QuietRank
  <2> QED BY <2>1, <2>4 DEF StageOf, LeftOf
<1> QED BY <1>1, <1>6, <1>7, <1>8, <1>9 DEF StageOf

(***************************************************************************)
(* With at least as many elements as ranks no chunk is empty.              *)
(***************************************************************************)
LEMMA NoneEmpty ==
  ASSUME TypeOK, NEW r \in Rank, NEW c \in Rank, args[r].count >= P
  PROVE  chunk(r, c).count > 0
<1>1. P \in Nat \ {0} /\ args[r].count \in Nat
  BY PAssumption DEF TypeOK, Arg
<1> DEFINE n == args[r].count
<1>2. /\ base(n, P) \in Nat /\ remainder(n, P) \in Nat /\ remainder(n, P) < P
      /\ n = P * base(n, P) + remainder(n, P)
  BY <1>1, DivMod
<1>3. chunk(r, c).count = base(n, P) + (IF c < remainder(n, P) THEN 1 ELSE 0)
  BY DEF chunk, chunk_count
<1>4. n \in Nat /\ n >= P
  BY <1>1
<1> HIDE DEF n
<1>5. base(n, P) # 0
  <2> SUFFICES ASSUME base(n, P) = 0 PROVE FALSE
    OBVIOUS
  <2>1. P * base(n, P) = 0
    BY <1>1
  <2> QED BY <1>1, <1>2, <1>4, <2>1
<1> QED BY <1>2, <1>3, <1>5

(***************************************************************************)
(* Distances along the ring, from a rank and from its successor.           *)
(***************************************************************************)
LEMMA Around ==
  ASSUME NEW a \in Rank, NEW x \in Rank, x # a
  PROVE  /\ mod_p(send_to(a) - a) = 1
         /\ mod_p(x - a) = mod_p(x - send_to(a)) + 1
         /\ mod_p(x - a) \in 0 .. P - 1 /\ mod_p(x - send_to(a)) \in 0 .. P - 1
<1>1. /\ P \in Nat \ {0} /\ a \in Int /\ 0 <= a /\ a < P
      /\ x \in Int /\ 0 <= x /\ x < P
  BY PAssumption DEF Rank
<1>2. CASE a + 1 < P
  <2>1. send_to(a) = a + 1
    BY <1>1, <1>2, ModP DEF send_to
  <2>2. mod_p(1) = 1
    BY <1>1, <1>2, ModP
  <2>3. CASE x < a
    BY <1>1, <1>2, <2>1, <2>2, <2>3, ModP
  <2>4. CASE x > a
    BY <1>1, <1>2, <2>1, <2>2, <2>4, ModP
  <2> QED BY <1>1, <2>3, <2>4
<1>3. CASE a + 1 = P
  <2>1. send_to(a) = 0
    BY <1>1, <1>3, ModP DEF send_to
  <2>2. x < a
    BY <1>1, <1>3
  <2> QED
    BY <1>1, <1>3, <2>1, <2>2, ModP
<1> QED BY <1>1, <1>2, <1>3

(***************************************************************************)
(* A rank whose successor has left is in the last call, and one position   *)
(* before it at most.                                                      *)
(***************************************************************************)
LEMMA GivesUpLate ==
  ASSUME RingInv, WellCalled, CollectiveSync, Leaving,
         NEW a \in Rank, NEW b \in Rank, RetryExceeded(a, b)
  PROVE  LateOf(a)
<1>1. /\ HealthyOf(a) /\ SendPending(a) /\ InCall(a) /\ b = send_to(a) /\ Alive(a)
      /\ pc[b] \in {"exited", "finished"} /\ ~Alive(b) /\ TypeOK /\ SameCount
      /\ pc[a] = "wait_send" /\ send_chunk(a).count > 0 /\ Discipline
  BY PeerGone DEF Alive, RingInv, Discipline, WellCalled, SendPending
<1>2. /\ P > 1 /\ P \in Nat /\ step[a] < P - 1 /\ pos(a) \in Position
  BY <1>1, AtPosition
<1>3. LagOf(a) /\ (pc[b] = "exited" => LateOf(b))
  BY DEF Leaving, LeavingOf, Failed
<1>4. \E x \in Rank : pc[x] = "finished"
  BY <1>1, <1>3 DEF LateOf
<1>5. round[a] = MaxRounds
  <2>1. PICK x \in Rank : pc[x] = "finished"
    BY <1>4
  <2>2. round[x] = MaxRounds
    BY <2>1 DEF Leaving, LeavingOf
  <2>3. args[a].count > 0
    BY <1>1, SomethingToReduce
  <2> QED BY <1>1, <1>2, <2>1, <2>2, <2>3, EverybodyLast
<1>6. pos(a) \in Int
  BY <1>2 DEF Position
<1>7. ASSUME NEW g \in Position, Sent(a, MaxRounds, g) PROVE g <= pos(a)
  BY <1>1, <1>2, <1>5, <1>6, <1>7, MaxRoundsAssumption DEF Sent, Position
<1>8. ASSUME args[a].count >= P
      PROVE  \E x \in Rank \ {a} : pc[x] = "finished" /\ pos(a) >= 2 * P - 2 - mod_p(x - a)
  <2>1. \A g \in Position : Due(a, g)
    BY <1>1, <1>8, NoneEmpty, SameChunk DEF Due
  <2>2. CASE pc[b] = "finished"
    <3>1. 2 * P - 3 \in Position
      BY <1>2 DEF Position
    <3>2. Sent(a, MaxRounds, 2 * P - 3)
      BY <1>1, <1>3, <2>1, <2>2, <3>1 DEF LagOf
    <3>3. 2 * P - 3 <= pos(a)
      BY <1>7, <3>1, <3>2
    <3>4. b \in Rank \ {a} /\ mod_p(b - a) = 1
      BY <1>1, <1>2, Neighbours, Around
    <3>5. pos(a) >= 2 * P - 2 - mod_p(b - a)
      BY <1>2, <1>6, <3>3, <3>4
    <3> QED BY <2>2, <3>4, <3>5
  <2>3. CASE pc[b] = "exited"
    <3>1. args[b].count >= P
      BY <1>1, <1>8 DEF SameCount
    <3>2. PICK x \in Rank \ {b} : pc[x] = "finished" /\ pos(b) >= 2 * P - 2 - mod_p(x - b)
      BY <1>3, <2>3, <3>1 DEF LateOf
    <3>3. Failed(b)
      BY <2>3 DEF Failed
    <3>4. pos(b) \in Position
      BY <3>3, FailedAt
    <3>5. pos(a) >= pos(b) - 1
      <4>1. CASE pos(b) = 0
        BY <1>2, <4>1 DEF Position
      <4>2. CASE pos(b) # 0
        <5>1. pos(b) - 1 \in Position /\ pos(b) - 1 < pos(b)
          BY <1>2, <3>4, <4>2 DEF Position
        <5>2. Sent(a, MaxRounds, pos(b) - 1)
          BY <1>1, <1>3, <2>1, <2>3, <5>1 DEF LagOf
        <5> QED BY <1>7, <5>1, <5>2
      <4> QED BY <4>1, <4>2
    <3>6. x # a /\ x \in Rank
      BY <1>1, <3>2 DEF Alive, InCall
    <3>7. mod_p(x - a) = mod_p(x - b) + 1 /\ mod_p(x - b) \in 0 .. P - 1
      BY <1>1, <3>6, Around
    <3> DEFINE m == mod_p(x - b)
               A == pos(a)
               B == pos(b)
    <3>8. m \in Int /\ A \in Int /\ B \in Int /\ A >= B - 1 /\ B >= 2 * P - 2 - m
      BY <1>2, <1>6, <3>2, <3>4, <3>5, <3>7 DEF Position
    <3> HIDE DEF m, A, B
    <3>9. A >= 2 * P - 2 - (m + 1)
      BY <1>2, <3>8
    <3> QED BY <3>2, <3>6, <3>7, <3>9 DEF m, A
  <2> QED BY <1>1, <2>2, <2>3
<1> QED
  BY <1>2, <1>4, <1>5, <1>8 DEF LateOf

(***************************************************************************)
(* Whoever fails does so in the last call, as late as LateOf says.         *)
(***************************************************************************)
LEMMA LateStep ==
  ASSUME RingInv, WellCalled, CollectiveSync, Leaving, [Next]_vars, NEW q \in Rank, Failed(q)'
  PROVE  LateOf(q)'
<1>1. TypeOK /\ args' = args /\ StageOf(q)
  BY SameArguments DEF RingInv, Discipline, Leaving, LeavingOf
<1>2. \A x \in Rank : pc[x] = "finished" => pc'[x] = "finished"
  BY <1>1, OutStays DEF Alive, InCall
<1>3. ASSUME LateOf(q), round'[q] = round[q], phase'[q] = phase[q], step'[q] = step[q]
      PROVE  LateOf(q)'
  <2>1. pos(q)' = pos(q)
    BY <1>3 DEF pos
  <2> QED BY <1>1, <1>2, <1>3, <2>1 DEF LateOf
<1>4. CASE HealthyOf(q)
  <2>1. ~HealthyOf(q)' /\ pc'[q] # "finished"
    BY DEF Failed, BrokenOf, SendPending, GivenUp, HealthyOf, Alive, InCall
  <2>2. UNCHANGED ctl /\ \E b \in Rank : RetryExceeded(q, b)
    BY <1>4, <2>1, HealthyNext
  <2>3. LateOf(q)
    BY <2>2, GivesUpLate
  <2> QED BY <1>3, <2>2, <2>3 DEF ctl
<1>5. CASE BrokenOf(q)
  <2>1. LateOf(q)
    BY <1>5 DEF Leaving, LeavingOf, Failed
  <2>2. round'[q] = round[q] /\ phase'[q] = phase[q] /\ step'[q] = step[q]
    <3>1. CASE Throw(q)
      BY <3>1 DEF Throw
    <3>2. CASE ~Throw(q)
      BY <1>5, <3>2, StageStep
    <3> QED BY <3>1, <3>2
  <2> QED BY <1>3, <2>1, <2>2
<1>6. CASE ThrewOf(q) \/ LeftOf(q)
  <2>1. ~Alive(q)
    BY <1>6 DEF ThrewOf, LeftOf, Alive, InCall
  <2>2. /\ round'[q] = round[q] /\ phase'[q] = phase[q] /\ step'[q] = step[q]
        /\ pc'[q] = pc[q] \/ (pc[q] = "threw" /\ pc'[q] = "exited")
    BY <1>1, <2>1, OutStays
  <2>3. Failed(q)
    BY <1>6, <2>2 DEF Failed, BrokenOf, SendPending, ThrewOf, LeftOf
  <2> QED
    BY <1>3, <2>2, <2>3 DEF Leaving, LeavingOf
<1> QED BY <1>1, <1>4, <1>5, <1>6 DEF StageOf

(***************************************************************************)
(* Whoever goes out can talk to a predecessor that lives until then.       *)
(***************************************************************************)
LEMMA LinkedToLeaver ==
  ASSUME RingInv, WellCalled, Leaving, NEW s \in Rank, Alive(s),
         pc[send_to(s)] = "idle" \/ BrokenOf(send_to(s))
  PROVE  Linked(s, send_to(s))
<1> DEFINE d == send_to(s)
<1>1. d \in Rank /\ StageOf(s) /\ StageOf(d)
  BY Neighbours DEF Leaving, LeavingOf
<1>2. Alive(d)
  BY DEF Alive, BrokenOf, SendPending, InCall
<1>3. HealthyOf(s)
  BY <1>1, <1>2 DEF StageOf, BrokenOf, GivenUp, ThrewOf, LeftOf, Alive, InCall
<1>4. qp[d][s] = "RTS"
  <2>1. CASE BrokenOf(d)
    BY <2>1 DEF BrokenOf, GivenUp
  <2>2. CASE pc[d] = "idle"
    <3>1. HealthyOf(d)
      BY <1>1, <2>2 DEF StageOf, BrokenOf, SendPending, ThrewOf, LeftOf
    <3> QED BY <3>1 DEF HealthyOf
  <2> QED BY <2>1, <2>2
<1> QED
  BY <1>1, <1>2, <1>3, <1>4 DEF Linked, HealthyOf

(***************************************************************************)
(* Nothing is posted at a rank that has thrown.                            *)
(***************************************************************************)
LEMMA ReceiveLeft ==
  ASSUME Discipline, [Next]_vars, NEW q \in Rank, pc'[q] = "threw"
  PROVE  rq'[q][recv_from(q)] = rq[q][recv_from(q)] \/ rq'[q][recv_from(q)] = <<>>
<1> DEFINE f == recv_from(q)
<1>1. /\ f \in Rank /\ RecvQueueOf(q)
      /\ rq \in [Rank -> [Rank -> Seq(WorkRequest)]]
      /\ pc \in [Rank -> {"idle", "post_recv", "post_send", "wait_send",
                          "wait_recv", "threw", "exited", "finished"}]
  BY Neighbours DEF Discipline, RecvQueue, TypeOK, TransportTypeOK
<1>2. CASE UNCHANGED rq
  BY <1>2
<1>3. ASSUME NEW r \in Rank, PostRecv(r) PROVE rq'[q][f] = rq[q][f]
  <2>1. r # q
    BY <1>1, <1>3 DEF PostRecv
  <2>2. rq' = rq \/ \E x \in Rank : \E w : rq' = [rq EXCEPT ![r][x] = w]
    <3>1. recv_from(r) \in Rank
      BY Neighbours
    <3> QED BY <1>3, <3>1 DEF PostRecv, post_recv
  <2> QED BY <1>1, <2>1, <2>2
<1>4. ASSUME NEW r \in Rank, destroy(r) PROVE rq'[q][f] = rq[q][f] \/ rq'[q][f] = <<>>
  BY <1>1, <1>4 DEF destroy
<1>5. ASSUME NEW a \in Rank, NEW b \in Rank, rq' = [rq EXCEPT ![a][b] = Tail(@)],
             rq[a][b] # <<>>
      PROVE  rq'[q][f] = rq[q][f] \/ rq'[q][f] = <<>>
  <2>1. CASE a = q /\ b = f
    <3>1. Len(rq[q][f]) = 1
      BY <1>1, <1>5, <2>1 DEF RecvQueueOf
    <3>2. Tail(rq[q][f]) = <<>>
      BY <1>1, <3>1, TailOfOne
    <3> QED BY <1>1, <1>5, <2>1, <3>2
  <2>2. CASE ~(a = q /\ b = f)
    BY <1>1, <1>5, <2>2
  <2> QED BY <2>1, <2>2
<1>6. ASSUME NEW a \in Rank, NEW b \in Rank, AdapterStep(a, b)
      PROVE  \/ UNCHANGED rq
             \/ \E x, y \in Rank : rq[x][y] # <<>> /\ rq' = [rq EXCEPT ![x][y] = Tail(@)]
  BY <1>6 DEF AdapterStep, Deliver, LengthError, Arrived, Complete, RetryExceeded, FlushSend,
              FlushRecv, FinishSend
<1>7. ASSUME NEW r \in Rank, RankStep(r)
      PROVE  UNCHANGED rq \/ PostRecv(r) \/ destroy(r)
  BY <1>7 DEF RankStep, Call, PostSend, WaitSend, WaitRecv, Throw, Exit, Finish, nic
<1> QED
  BY <1>2, <1>3, <1>4, <1>5, <1>6, <1>7 DEF Next, Nic, Terminating, vars, nic

(***************************************************************************)
(* The receive a rank leaves behind.                                       *)
(***************************************************************************)
LEMMA BehindStep ==
  ASSUME RingInv, WellCalled, Leaving, [Next]_vars, NEW q \in Rank
  PROVE  BehindOf(q)'
<1> SUFFICES ASSUME pc'[q] = "threw", rq'[q][recv_from(q)] # <<>>
             PROVE  /\ rq'[q][recv_from(q)] = <<recv_request(q)'>>
                    /\ recv_chunk(q)'.count > 0
  BY DEF BehindOf
<1>1. Discipline /\ TypeOK /\ args' = args
  BY SameArguments DEF RingInv, Discipline
<1>2. rq'[q][recv_from(q)] = rq[q][recv_from(q)] /\ rq[q][recv_from(q)] # <<>>
  BY <1>1, ReceiveLeft
<1>3. ASSUME phase'[q] = phase[q], step'[q] = step[q]
      PROVE  recv_request(q)' = recv_request(q) /\ recv_chunk(q)' = recv_chunk(q)
  BY <1>1, <1>3 DEF recv_request, recv_chunk, chunk
<1>4. CASE Alive(q)
  <2>1. ~Alive(q)' /\ pc'[q] # "finished"
    BY DEF Alive, InCall
  <2>2. Throw(q)
    <3>1. ~Finish(q)
      BY <1>1, <2>1 DEF Finish, TypeOK
    <3> QED BY <1>4, <2>1, <3>1, WayOut
  <2>3. phase' = phase /\ step' = step
    BY <2>2 DEF Throw
  <2>4. rq[q][recv_from(q)] = <<recv_request(q)>> /\ RecvPending(q)
    BY <1>1, <1>2, <1>4 DEF Discipline, RecvQueue, RecvQueueOf
  <2> QED
    BY <1>2, <1>3, <2>3, <2>4 DEF RecvPending
<1>5. CASE ~Alive(q)
  <2>1. phase'[q] = phase[q] /\ step'[q] = step[q] /\ pc[q] = "threw"
    BY <1>1, <1>5, OutStays
  <2>2. BehindOf(q)
    BY DEF Leaving, LeavingOf
  <2> QED
    BY <1>2, <1>3, <2>1, <2>2 DEF BehindOf
<1> QED BY <1>4, <1>5

(***************************************************************************)
(* What a rank has sent when its successor finishes or throws.             *)
(***************************************************************************)
LEMMA LagBegins ==
  ASSUME RingInv, WellCalled, CollectiveSync, Leaving, NEW s \in Rank, Alive(s),
         NEW g \in Position, Due(s, g)
  PROVE  LET d == send_to(s)
         IN  /\ Finish(d) => Sent(s, MaxRounds, g)
             /\ BrokenOf(d) /\ g < pos(d) => Sent(s, MaxRounds, g)
             /\ BrokenOf(d) /\ g = pos(d) /\ rq[d][s] # <<>> => ~Sent(s, MaxRounds, g)
<1> DEFINE d == send_to(s)
<1>1. /\ d \in Rank /\ recv_from(d) = s /\ Discipline /\ Paired /\ SameSkips /\ TypeOK
      /\ chunk(s, sends(s, g)).count > 0
  BY Neighbours DEF RingInv, Discipline, WellCalled, SameSkips, Due
<1>2. ASSUME Linked(s, d), MaxRounds > 0
      PROVE  Sent(s, MaxRounds, g) <=> Received(d, MaxRounds, g)
  <2>1. MaxRounds \in 1 .. MaxRounds
    BY <1>2, MaxRoundsAssumption
  <2> QED BY <1>1, <1>2, <2>1 DEF Paired, PairedOf
<1>3. ASSUME Finish(d) PROVE Sent(s, MaxRounds, g)
  <2>1. pc[d] = "idle" /\ round[d] = MaxRounds
    BY <1>3 DEF Finish
  <2>2. CASE MaxRounds > 0
    <3>1. Linked(s, d)
      BY <2>1, LinkedToLeaver
    <3>2. Received(d, MaxRounds, g)
      BY <2>1 DEF Received
    <3> QED BY <1>2, <2>2, <3>1, <3>2
  <2>3. CASE ~(MaxRounds > 0)
    <3>1. round[s] = MaxRounds /\ ~InCall(s)
      <4>1. round[s] \in 0 .. MaxRounds /\ (InCall(s) => round[s] > 0)
        BY <1>1 DEF TypeOK, Discipline, Control, ControlOf
      <4> QED BY <2>3, <4>1, MaxRoundsAssumption
    <3> QED BY <3>1 DEF Sent, Alive
  <2> QED BY <2>2, <2>3
<1>4. ASSUME BrokenOf(d)
      PROVE  /\ g < pos(d) => Sent(s, MaxRounds, g)
             /\ g = pos(d) /\ rq[d][s] # <<>> => ~Sent(s, MaxRounds, g)
  <2>1. Linked(s, d)
    BY <1>4, LinkedToLeaver
  <2>2. pc[d] = "wait_send" /\ InCall(d) /\ Alive(d) /\ Failed(d)
    BY <1>4 DEF BrokenOf, SendPending, InCall, Alive, Failed
  <2>3. round[d] = MaxRounds /\ MaxRounds > 0
    <3>1. round[d] \in 1 .. MaxRounds
      BY <1>1, <2>2, AtPosition
    <3> QED BY <1>1, <2>2, <3>1, FailedAt, MaxRoundsAssumption
  <2>4. Sent(s, MaxRounds, g) <=> Received(d, MaxRounds, g)
    BY <1>2, <2>1, <2>3
  <2>5. g < pos(d) => Received(d, MaxRounds, g)
    BY <2>3 DEF Received
  <2>6. ASSUME g = pos(d), rq[d][s] # <<>> PROVE ~Received(d, MaxRounds, g)
    <3>1. recv_cq[d] = <<>>
      BY <1>1, <2>2, <2>6 DEF Discipline, RecvQueue, RecvQueueOf
    <3>2. pos(d) \in Int
      BY <1>1, <2>2, AtPosition DEF Position
    <3> QED
      BY <2>2, <2>3, <2>6, <3>1, <3>2, MaxRoundsAssumption DEF Received
  <2> QED BY <2>4, <2>5, <2>6
<1> QED BY <1>3, <1>4

(***************************************************************************)
(* A rank is not behind a successor that is out.                           *)
(***************************************************************************)
LEMMA LagStep ==
  ASSUME RingInv, WellCalled, CollectiveSync, Leaving, [Next]_vars, NEW s \in Rank
  PROVE  LagOf(s)'
<1> DEFINE d == send_to(s)
<1> SUFFICES ASSUME Alive(s)'
             PROVE  /\ pc'[d] = "finished" =>
                         \A g \in Position : Due(s, g)' => Sent(s, MaxRounds, g)'
                    /\ pc'[d] \in {"threw", "exited"} =>
                         \A g \in Position : Due(s, g)' /\ g < pos(d)' => Sent(s, MaxRounds, g)'
                    /\ pc'[d] = "threw" /\ rq'[d][s] # <<>> =>
                         ~Sent(s, MaxRounds, pos(d))'
  BY DEF LagOf
<1>1. /\ d \in Rank /\ recv_from(d) = s /\ TypeOK /\ Discipline /\ args' = args /\ SameCount
      /\ LagOf(s) /\ Alive(s)
  BY Neighbours, SameArguments, OutStays DEF RingInv, Discipline, Leaving, LeavingOf, WellCalled
<1>2. \A g : Due(s, g)' = Due(s, g)
  BY <1>1 DEF Due, chunk
<1>3. ASSUME NEW g \in Position, Due(s, g), Sent(s, MaxRounds, g) PROVE Sent(s, MaxRounds, g)'
  <2>1. CASE MaxRounds > 0
    <3>1. MaxRounds \in 1 .. MaxRounds
      BY <2>1, MaxRoundsAssumption
    <3> QED BY <1>1, <1>3, <3>1, SentStep DEF Due
  <2>2. CASE ~(MaxRounds > 0)
    <3>1. pc'[s] = "idle" /\ round'[s] = MaxRounds
      <4>1. TypeOK' /\ Control'
        BY <1>1, TypeStep, ControlStep DEF Discipline
      <4>2. round'[s] \in 0 .. MaxRounds /\ (InCall(s)' => round'[s] > 0)
        BY <4>1 DEF TypeOK, Control, ControlOf
      <4> QED BY <2>2, <4>2, MaxRoundsAssumption DEF Alive
    <3> QED BY <3>1 DEF Sent
  <2> QED BY <2>1, <2>2
<1>4. ASSUME Alive(d), ~Alive(d)' PROVE Finish(d) \/ (BrokenOf(d) /\ Throw(d))
  BY <1>1, <1>4, WayOut
<1>5. pc \in [Rank -> {"idle", "post_recv", "post_send", "wait_send",
                       "wait_recv", "threw", "exited", "finished"}]
  BY <1>1 DEF TypeOK
<1>6. (Finish(d) => pc'[d] = "finished") /\ (Throw(d) => pc'[d] = "threw")
  BY <1>1, <1>5 DEF Finish, Throw
<1>7. ~Alive(d) => /\ phase'[d] = phase[d] /\ step'[d] = step[d]
                   /\ pc'[d] = pc[d] \/ (pc[d] = "threw" /\ pc'[d] = "exited")
  BY <1>1, OutStays
<1>8. Throw(d) => phase' = phase /\ step' = step /\ rq' = rq /\ sq' = sq
                  /\ response' = response /\ round' = round
  BY DEF Throw
<1>9. ASSUME pc'[d] = "finished", NEW g \in Position, Due(s, g) PROVE Sent(s, MaxRounds, g)'
  <2>1. CASE ~Alive(d)
    <3>1. pc[d] = "finished"
      BY <1>7, <1>9, <2>1
    <3>2. Sent(s, MaxRounds, g)
      BY <1>1, <1>9, <3>1 DEF LagOf
    <3> QED BY <1>3, <1>9, <3>2
  <2>2. CASE Alive(d)
    <3>1. Finish(d)
      BY <1>4, <1>6, <1>9, <2>2 DEF Alive, InCall
    <3>2. Sent(s, MaxRounds, g)
      BY <1>1, <1>9, <3>1, LagBegins
    <3> QED BY <1>3, <1>9, <3>2
  <2> QED BY <2>1, <2>2
<1>10. ASSUME pc'[d] \in {"threw", "exited"}, Alive(d) PROVE BrokenOf(d) /\ Throw(d)
  BY <1>4, <1>6, <1>10 DEF Alive, InCall
<1>11. ASSUME pc'[d] \in {"threw", "exited"} PROVE pos(d)' = pos(d)
  <2>1. phase'[d] = phase[d] /\ step'[d] = step[d]
    BY <1>7, <1>8, <1>10, <1>11
  <2> QED BY <2>1 DEF pos
<1>12. ASSUME pc'[d] \in {"threw", "exited"}, NEW g \in Position, Due(s, g), g < pos(d)
       PROVE  Sent(s, MaxRounds, g)'
  <2>1. CASE ~Alive(d)
    <3>1. pc[d] \in {"threw", "exited"}
      BY <1>7, <1>12, <2>1
    <3>2. Sent(s, MaxRounds, g)
      BY <1>1, <1>12, <3>1 DEF LagOf
    <3> QED BY <1>3, <1>12, <3>2
  <2>2. CASE Alive(d)
    <3>1. BrokenOf(d)
      BY <1>10, <1>12, <2>2
    <3>2. Sent(s, MaxRounds, g)
      BY <1>1, <1>12, <3>1, LagBegins
    <3> QED BY <1>3, <1>12, <3>2
  <2> QED BY <2>1, <2>2
<1>13. ASSUME pc'[d] = "threw", rq'[d][s] # <<>> PROVE ~Sent(s, MaxRounds, pos(d))'
  <2>1. pos(d)' = pos(d)
    BY <1>11, <1>13
  <2>2. rq[d][s] # <<>> /\ rq'[d][s] = rq[d][s]
    BY <1>1, <1>13, ReceiveLeft
  <2>3. ASSUME Failed(d), recv_chunk(d).count > 0 PROVE pos(d) \in Position /\ Due(s, pos(d))
    <3>1. /\ pos(d) \in Position /\ receives(d, pos(d)) \in Rank
          /\ recv_chunk(d) = chunk(d, receives(d, pos(d)))
      BY <1>1, <2>3, FailedAt
    <3>2. receives(d, pos(d)) = sends(s, pos(d))
      BY <3>1, SameChunk
    <3>3. chunk(d, receives(d, pos(d))) = chunk(s, sends(s, pos(d)))
      BY <1>1, <3>2, AgreedChunks
    <3> QED
      BY <2>3, <3>1, <3>3 DEF Due
  <2>4. CASE Alive(d)
    <3>1. BrokenOf(d) /\ Throw(d) /\ Failed(d)
      BY <1>10, <1>13, <2>4 DEF Failed
    <3>2. recv_chunk(d).count > 0
      BY <1>1, <2>2, <2>4 DEF Discipline, RecvQueue, RecvQueueOf, RecvPending
    <3>3. pos(d) \in Position /\ Due(s, pos(d))
      BY <2>3, <3>1, <3>2
    <3>4. ~Sent(s, MaxRounds, pos(d))
      BY <1>1, <2>2, <3>1, <3>3, LagBegins
    <3>5. pc'[s] = pc[s]
      <4>1. s # d
        BY <1>13 DEF Alive, InCall
      <4> QED BY <1>5, <3>1, <4>1 DEF Throw
    <3>6. Sent(s, MaxRounds, pos(d))' = Sent(s, MaxRounds, pos(d))
      BY <1>8, <2>1, <3>1, <3>5 DEF Sent, pos
    <3> QED BY <3>4, <3>6
  <2>5. CASE ~Alive(d)
    <3>1. pc[d] = "threw" /\ Failed(d)
      BY <1>7, <1>13, <2>5 DEF Failed
    <3>2. recv_chunk(d).count > 0
      BY <1>1, <2>2, <3>1 DEF Leaving, LeavingOf, BehindOf
    <3>3. pos(d) \in Position /\ Due(s, pos(d))
      BY <2>3, <3>1, <3>2
    <3>4. ~Sent(s, MaxRounds, pos(d))
      BY <1>1, <2>2, <3>1 DEF LagOf
    <3>5. MaxRounds \in 1 .. MaxRounds
      <4> SUFFICES ASSUME ~(MaxRounds > 0) PROVE FALSE
        BY MaxRoundsAssumption
      <4>1. round[s] \in 0 .. MaxRounds /\ (InCall(s) => round[s] > 0)
        BY <1>1 DEF TypeOK, Discipline, Control, ControlOf
      <4>2. round[s] = MaxRounds /\ pc[s] = "idle"
        BY <1>1, <4>1, MaxRoundsAssumption DEF Alive
      <4> QED BY <3>4, <4>2 DEF Sent
    <3>6. ~Settles(s, d)
      <4>1. ~Deliver(s, d)
        <5> SUFFICES ASSUME Deliver(s, d) PROVE FALSE
          OBVIOUS
        <5>1. rq' = [rq EXCEPT ![d][s] = Tail(@)]
          BY DEF Deliver
        <5>2. Len(rq[d][s]) = 1 /\ rq \in [Rank -> [Rank -> Seq(WorkRequest)]]
          BY <1>1, <2>2 DEF Discipline, RecvQueue, RecvQueueOf, TypeOK, TransportTypeOK
        <5>3. rq'[d][s] = <<>>
          BY <1>1, <5>1, <5>2, TailOfOne
        <5> QED BY <1>13, <5>3
      <4>2. ~LengthError(s, d)
        BY <1>1, NoRefusal
      <4>3. ~RetryExceeded(s, d)
        BY <1>1, <3>1, PeerGone
      <4>4. ~FlushSend(s, d)
        <5> SUFFICES ASSUME FlushSend(s, d) PROVE FALSE
          OBVIOUS
        <5>1. HealthyOf(s)
          BY <1>1, SenderHealthy DEF FlushSend
        <5> QED BY <1>1, <5>1 DEF HealthyOf, FlushSend
      <4> QED BY <4>1, <4>2, <4>3, <4>4 DEF Settles
    <3>7. PICK g \in Position : g = pos(d) /\ chunk(s, sends(s, g)).count > 0
      BY <3>3 DEF Due
    <3>8. ~Sent(s, MaxRounds, g)'
      BY <1>1, <3>4, <3>5, <3>6, <3>7, SentStep
    <3> QED BY <2>1, <3>7, <3>8 DEF Sent
  <2> QED BY <2>4, <2>5
<1> QED BY <1>1, <1>2, <1>9, <1>11, <1>12, <1>13

(***************************************************************************)
(* Whoever fails with a full chunk for everybody is in the allgather, and  *)
(* what it may still receive is not the chunk it has reduced.              *)
(***************************************************************************)
LEMMA FailedInAllgather ==
  ASSUME RingInv, WellCalled, Leaving, NEW q \in Rank, Failed(q), args[q].count >= P
  PROVE  /\ phase[q] = 2 /\ pos(q) >= P - 1 /\ mod_p(q + 1) \in Rank
         /\ mod_p(q - mod_p(q + 1)) = P - 1 /\ receives(q, pos(q)) # mod_p(q + 1)
<1>1. /\ LateOf(q) /\ P > 1 /\ P \in Nat /\ pos(q) \in Position /\ phase[q] \in {1, 2}
      /\ step[q] \in Nat /\ step[q] < P - 1
  BY FailedAt
<1>2. PICK x \in Rank \ {q} : pos(q) >= 2 * P - 2 - mod_p(x - q)
  BY <1>1 DEF LateOf
<1>3. mod_p(x - q) \in 0 .. P - 1
  BY <1>2, Around
<1>4. pos(q) \in Int /\ pos(q) <= 2 * P - 3
  BY <1>1 DEF Position
<1>5. pos(q) >= P - 1
  <2> DEFINE m == mod_p(x - q)
             g == pos(q)
  <2>1. m \in Int /\ m <= P - 1 /\ g \in Int /\ g >= 2 * P - 2 - m
    BY <1>1, <1>2, <1>3, <1>4
  <2> HIDE DEF m, g
  <2>2. g >= P - 1
    BY <1>1, <2>1
  <2> QED BY <2>2 DEF g
<1>6. phase[q] = 2
  BY <1>1, <1>5 DEF pos
<1>7. q \in Int /\ 0 <= q /\ q < P
  BY <1>1 DEF Rank
<1>8. mod_p(q + 1) \in Rank /\ mod_p(q - mod_p(q + 1)) = P - 1
  <2>1. CASE q + 1 < P
    BY <1>1, <1>7, <2>1, ModP
  <2>2. CASE q + 1 = P
    BY <1>1, <1>7, <2>2, ModP
  <2> QED BY <1>1, <1>7, <2>1, <2>2
<1>9. receives(q, pos(q)) = mod_p(q + 1) => pos(q) = P - 2 \/ pos(q) = 2 * P - 2
  <2>1. receives(q, pos(q)) = mod_p(q + 1) => pos(q) = (P - 1) - 1 \/ pos(q) = P - 1 + (P - 1)
    BY <1>1, <1>8, Distance
  <2> QED BY <1>1, <1>4, <2>1
<1> QED
  BY <1>1, <1>4, <1>5, <1>6, <1>8, <1>9

(***************************************************************************)
(* The chunk a failed rank has reduced is final and stays as it is.        *)
(***************************************************************************)
LEMMA ReducedStep ==
  ASSUME RingInv, WellCalled, Leaving, [Next]_vars, NEW q \in Rank
  PROVE  ReducedOf(q)'
<1> DEFINE c == mod_p(q + 1)
<1> SUFFICES ASSUME pc'[q] \in {"threw", "exited"}, args'[q].count >= P
             PROVE  /\ phase'[q] = 2
                    /\ \A e \in Index : InChunk(q, c, e)' =>
                         mem'[q]["data"][e] = RingFold(c, MaxRounds, e)[P - 1]
  BY DEF ReducedOf
<1>1. TypeOK /\ Discipline /\ args' = args /\ args[q].count >= P /\ SameCount
  BY SameArguments DEF RingInv, Discipline, WellCalled
<1>2. \A e : InChunk(q, c, e)' = InChunk(q, c, e)
  BY <1>1 DEF InChunk, chunk
<1>3. CASE Alive(q)
  <2>1. ~Alive(q)' /\ pc'[q] # "finished"
    BY DEF Alive, InCall
  <2>2. BrokenOf(q) /\ Throw(q)
    <3>1. ~Finish(q)
      BY <1>1, <2>1 DEF Finish, TypeOK
    <3> QED BY <1>3, <2>1, <3>1, WayOut
  <2>3. Failed(q) /\ InCall(q) /\ mem' = mem /\ phase' = phase
    BY <2>2 DEF Failed, BrokenOf, SendPending, InCall, Throw
  <2>4. /\ phase[q] = 2 /\ pos(q) >= P - 1 /\ c \in Rank /\ mod_p(q - c) = P - 1
    BY <1>1, <2>3, FailedInAllgather
  <2>5. round[q] = MaxRounds /\ pos(q) \in Position /\ P \in Nat
    BY <1>1, <2>3, FailedAt
  <2>6. ~(pos(q) < P - 1)
    BY <2>4, <2>5 DEF Position
  <2>7. chunk(q, c).count < SgeLimit
    <3>1. chunk(q, c).count \in Nat /\ chunk(q, c).count <= max_chunk_elems(q)
          /\ max_chunk_elems(q) \in Nat
      BY <1>1, <2>4, ChunkInData DEF TypeOK
    <3>2. max_chunk_elems(q) < SgeLimit /\ SgeLimit \in Nat
      BY SgeLimitAssumption DEF WellCalled
    <3> QED BY <3>1, <3>2
  <2>8. ASSUME NEW e \in Index, InChunk(q, c, e)
        PROVE  mem[q]["data"][e] = RingFold(c, MaxRounds, e)[P - 1]
    <3>1. ValuesOf(q)
      BY <1>1 DEF RingInv, Values
    <3> QED
      BY <2>3, <2>4, <2>5, <2>6, <2>7, <2>8, <3>1 DEF ValuesOf
  <2> QED BY <1>2, <2>3, <2>4, <2>8
<1>4. CASE ~Alive(q)
  <2>1. phase'[q] = phase[q] /\ pc[q] \in {"threw", "exited"}
    BY <1>1, <1>4, OutStays
  <2>2. Failed(q) /\ ReducedOf(q)
    BY <2>1 DEF Failed, Leaving, LeavingOf
  <2>3. phase[q] = 2 /\ c \in Rank /\ receives(q, pos(q)) # c
    BY <1>1, <2>2, FailedInAllgather
  <2>4. ASSUME NEW e \in Index, InChunk(q, c, e) PROVE mem'[q]["data"][e] = mem[q]["data"][e]
    <3>1. CASE \A b \in Buffer, i \in Index : mem'[q][b][i] = mem[q][b][i]
      BY <3>1 DEF Buffer
    <3>2. ~Call(q) /\ ~WaitRecv(q)
      BY <2>1 DEF Call, WaitRecv
    <3>3. ASSUME NEW s \in Rank, Deliver(s, q) PROVE mem'[q]["data"][e] = mem[q]["data"][e]
      <4> SUFFICES ASSUME mem'[q]["data"][e] # mem[q]["data"][e] PROVE FALSE
        OBVIOUS
      <4> DEFINE rcv == Head(rq[q][recv_from(q)])
      <4>1. /\ s = recv_from(q) /\ rq[q][recv_from(q)] # <<>>
            /\ e \in rcv.off .. rcv.off + rcv.len - 1
        BY <1>1, <3>3, DeliverWrites DEF Discipline, Buffer
      <4>2. pc[q] = "threw"
        <5>1. qp[q][s] = "RTS" /\ StageOf(q)
          BY <3>3 DEF Deliver, Arrived, Leaving, LeavingOf
        <5> QED
          BY <2>1, <5>1 DEF StageOf, HealthyOf, BrokenOf, SendPending, ThrewOf, LeftOf,
                            Alive, InCall
      <4>3. rq[q][recv_from(q)] = <<recv_request(q)>>
        BY <4>1, <4>2 DEF Leaving, LeavingOf, BehindOf
      <4>4. rcv = recv_request(q)
        BY <4>3, AppendToEmpty
      <4>5. /\ receives(q, pos(q)) \in Rank
            /\ recv_chunk(q) = chunk(q, receives(q, pos(q)))
            /\ recv_chunk(q).count \in Nat /\ recv_chunk(q).offset \in Nat
        BY <2>2, FailedAt
      <4>6. /\ recv_request(q).off = recv_chunk(q).offset
            /\ recv_request(q).len \in Nat /\ recv_request(q).len <= recv_chunk(q).count
        BY <2>3, <4>5, SgeShape DEF recv_request
      <4>7. e \in recv_chunk(q).offset .. recv_chunk(q).offset + recv_chunk(q).count - 1
        <5>1. e \in recv_chunk(q).offset .. recv_chunk(q).offset + recv_request(q).len - 1
          BY <4>1, <4>4, <4>6
        <5> QED BY <4>5, <4>6, <5>1
      <4>8. InChunk(q, receives(q, pos(q)), e) /\ e \in Int
        BY <4>5, <4>7 DEF InChunk
      <4>9. receives(q, pos(q)) = c
        BY <1>1, <2>3, <2>4, <4>5, <4>8, ChunksDisjoint DEF TypeOK
      <4> QED BY <2>3, <4>9
    <3> QED BY <3>1, <3>2, <3>3, Writers
  <2> QED
    BY <1>1, <1>2, <2>1, <2>2, <2>3, <2>4 DEF ReducedOf
<1> QED BY <1>3, <1>4

(***************************************************************************)
(* Leaving is kept by every step of every rank and of every adapter.       *)
(***************************************************************************)
LEMMA LeavingStep == RingInv /\ CollectiveSync /\ Leaving /\ [Next]_vars => Leaving'
<1> SUFFICES ASSUME RingInv, CollectiveSync, Leaving, [Next]_vars, WellCalled', NEW q \in Rank
             PROVE  LeavingOf(q)'
  BY DEF Leaving
<1>1. WellCalled /\ TypeOK
  BY WellCalledStays DEF RingInv, Discipline
<1>2. StageOf(q)'
  BY <1>1, StageStep
<1>3. (Failed(q) => LateOf(q))'
  BY <1>1, LateStep
<1>4. LagOf(q)' /\ BehindOf(q)' /\ ReducedOf(q)'
  BY <1>1, LagStep, BehindStep, ReducedStep
<1>5. ASSUME pc'[q] = "finished" PROVE round'[q] = MaxRounds
  <2>1. CASE ~Alive(q)
    <3>1. pc[q] = "finished" /\ round'[q] = round[q]
      BY <1>1, <1>5, <2>1, OutStays
    <3> QED BY <1>1, <3>1 DEF Leaving, LeavingOf
  <2>2. CASE Alive(q)
    <3>1. ~Alive(q)' /\ ~Throw(q)
      BY <1>1, <1>5 DEF Alive, InCall, Throw, TypeOK
    <3>2. Finish(q)
      BY <1>1, <2>2, <3>1, WayOut
    <3> QED BY <3>2 DEF Finish
  <2> QED BY <2>1, <2>2
<1> QED BY <1>2, <1>3, <1>4, <1>5 DEF LeavingOf

(***************************************************************************)
(* When agreeing ranks with legal buffers leave one after the other, with  *)
(* no barrier, an exception comes only in the last call and, if no chunk   *)
(* is empty, only in its allgather, when the chunk the rank reduces is     *)
(* final: for every number of ranks and every order of leaving.            *)
(***************************************************************************)
THEOREM OnlyLastAllgatherFailsTheorem == Spec => []OnlyLastAllgatherFails
<1>1. Init => Leaving
  <2> SUFFICES ASSUME Init, NEW q \in Rank PROVE LeavingOf(q)
    BY DEF Leaving
  <2>1. \A r \in Rank : pc[r] = "idle"
    BY DEF Init
  <2>2. HealthyOf(q)
    BY <2>1 DEF Init, TransportInit, HealthyOf, Alive
  <2>3. ~Failed(q)
    BY <2>1 DEF Failed, BrokenOf, SendPending
  <2> QED
    BY <2>1, <2>2, <2>3, Neighbours DEF LeavingOf, StageOf, LagOf, BehindOf, ReducedOf
<1>2. Leaving => OnlyLastAllgatherFails
  BY DEF Leaving, LeavingOf, Failed, LateOf, ReducedOf, OnlyLastAllgatherFails
<1> QED
  BY <1>1, <1>2, LeavingStep, RingInvariant, CollectiveSyncTheorem, PTL DEF Spec

-----------------------------------------------------------------------------
(* What the ring promises, without the ring.                               *)

(***************************************************************************)
(* Every element of data lies in a chunk, and RingReduction folds it from  *)
(* the rank of that chunk.                                                 *)
(***************************************************************************)
LEMMA HomeChunk ==
  ASSUME args \in [Rank -> Arg], NEW r \in Rank, NEW e \in 0 .. args[r].count - 1
  PROVE  \E c \in Rank : /\ InChunk(r, c, e)
                         /\ \A it : RingReduction(args[r].count, it, e) = RingFold(c, it, e)[P - 1]
<1> DEFINE n == args[r].count
           T == {k \in Nat : k < P /\ e < chunk_offset(n, P, k + 1)}
           home(c) == e \in chunk_offset(n, P, c) .. chunk_offset(n, P, c + 1) - 1
           H == CHOOSE c \in Rank : home(c)
<1>1. P \in Nat \ {0} /\ n \in Nat /\ e \in Nat /\ e < n
  BY PAssumption DEF Arg
<1> HIDE DEF n
<1>2. \A k \in Nat : k < P => /\ chunk_offset(n, P, k) \in Nat /\ chunk_count(n, P, k) \in Nat
                              /\ chunk_offset(n, P, k + 1) =
                                   chunk_offset(n, P, k) + chunk_count(n, P, k)
                              /\ chunk_offset(n, P, 0) = 0
                              /\ chunk_offset(n, P, P) = n
  BY <1>1, ChunkStep
<1>3. P - 1 \in T
  <2>1. P - 1 \in Nat /\ P - 1 < P /\ (P - 1) + 1 = P /\ chunk_offset(n, P, P) = n
    BY <1>1, <1>2
  <2> QED BY <1>1, <2>1
<1>4. PICK k \in T : \A m \in T : k <= m
  BY <1>3, Least
<1>5. chunk_offset(n, P, k) <= e
  <2>1. CASE k = 0
    BY <1>1, <1>2, <2>1
  <2>2. CASE k # 0
    <3>1. k - 1 \in Nat /\ k - 1 < P /\ (k - 1) + 1 = k /\ ~(k <= k - 1)
      BY <1>1, <2>2
    <3>2. k - 1 \notin T
      BY <1>4, <3>1
    <3>3. chunk_offset(n, P, k) \in Nat
      BY <1>2
    <3> QED BY <1>1, <3>1, <3>2, <3>3
  <2> QED BY <2>1, <2>2
<1>6. k \in Rank /\ home(k)
  BY <1>1, <1>2, <1>5 DEF Rank
<1>7. H \in Rank /\ home(H)
  BY <1>6, Zenon
<1>8. InChunk(r, H, e)
  <2>1. H \in Nat /\ H < P
    BY <1>1, <1>7 DEF Rank
  <2>2. \A c : /\ chunk(r, c).offset = chunk_offset(n, P, c)
               /\ chunk(r, c).count = chunk_count(n, P, c)
    BY DEF chunk, n
  <2>3. /\ chunk_offset(n, P, H) \in Nat /\ chunk_count(n, P, H) \in Nat
        /\ chunk_offset(n, P, H + 1) = chunk_offset(n, P, H) + chunk_count(n, P, H)
    BY <1>2, <2>1
  <2>4. e \in chunk_offset(n, P, H) .. chunk_offset(n, P, H + 1) - 1
    BY <1>7
  <2> HIDE DEF H
  <2> QED
    BY <2>2, <2>3, <2>4 DEF InChunk
<1>9. \A it : RingReduction(n, it, e) = RingFold(H, it, e)[P - 1]
  BY DEF RingReduction
<1> QED
  BY <1>7, <1>8, <1>9 DEF n

(* Every rank that has returned holds the reduction.                       *)
HandedReduction ==
  SameCount => \A r \in Rank : Returned(r) =>
    handed(r) = [e \in 0 .. args[r].count - 1 |-> RingReduction(args[r].count, round[r], e)]

(***************************************************************************)
(* FullyReduced, with the chunks hidden: what a rank has returned with is  *)
(* what an allreduce promises.                                             *)
(***************************************************************************)
LEMMA ReturnedReduction == Discipline /\ FullyReduced => HandedReduction
<1> SUFFICES ASSUME Discipline, FullyReduced, SameCount, NEW r \in Rank, Returned(r)
             PROVE  handed(r) = [e \in 0 .. args[r].count - 1 |->
                                   RingReduction(args[r].count, round[r], e)]
  BY DEF HandedReduction
<1>1. handed(r) = [e \in 0 .. args[r].count - 1 |-> mem[r]["data"][e]]
  BY DEF Returned, handed, Outside
<1>2. args \in [Rank -> Arg] /\ args[r].count \in Nat /\ args[r].count <= Span
  <2>1. args \in [Rank -> Arg] /\ args[r].count \in Nat /\ args[r].mr \in 0 .. Span
    BY DEF Discipline, TypeOK, Arg
  <2>2. ~(args[r].count > args[r].mr)
    BY DEF Discipline, Control, ControlOf, bad_arguments, Returned
  <2> QED BY <2>1, <2>2, SpanAssumption
<1>3. ASSUME NEW e \in 0 .. args[r].count - 1
      PROVE  mem[r]["data"][e] = RingReduction(args[r].count, round[r], e)
  <2>1. PICK c \in Rank :
          /\ InChunk(r, c, e)
          /\ \A it : RingReduction(args[r].count, it, e) = RingFold(c, it, e)[P - 1]
    BY <1>2, HomeChunk
  <2>2. e \in Index
    BY <1>2, SpanAssumption DEF Index
  <2> QED
    BY <2>1, <2>2 DEF FullyReduced, LoudOrCorrect, Correct
<1> QED
  BY <1>1, <1>3

(***************************************************************************)
(* A rank enters by a call and leaves by the end of its last position;     *)
(* nothing else can be seen from outside.                                  *)
(***************************************************************************)
LEMMA Visible ==
  ASSUME MemoryInv, MemoryInv', P > 1, [Next]_vars, NEW q \in Rank,
         ~Call(q), ~(WaitRecv(q) /\ pc'[q] = "idle")
  PROVE  round'[q] = round[q] /\ returns(q)' = returns(q) /\ handed(q)' = handed(q)
<1>1. /\ args' = args
      /\ pc \in [Rank -> {"idle", "post_recv", "post_send", "wait_send",
                          "wait_recv", "threw", "exited", "finished"}]
      /\ round \in [Rank -> 0 .. MaxRounds]
  BY SameArguments DEF MemoryInv, Discipline, TypeOK
<1>2. round'[q] = round[q] /\ Outside(q)' = Outside(q)
  <2>1. CASE UNCHANGED <<pc, round>>
    BY <2>1 DEF Outside
  <2>2. ASSUME NEW r \in Rank, Call(r) PROVE round'[q] = round[q] /\ Outside(q)' = Outside(q)
    BY <1>1, <2>2 DEF Call, Outside
  <2>3. ASSUME NEW r \in Rank, PostRecv(r) \/ PostSend(r) \/ WaitSend(r) \/ Throw(r)
                               \/ Exit(r) \/ Finish(r)
        PROVE  round'[q] = round[q] /\ Outside(q)' = Outside(q)
    BY <1>1, <2>3 DEF PostRecv, PostSend, WaitSend, Throw, Exit, Finish, Outside
  <2>4. ASSUME NEW r \in Rank, WaitRecv(r)
        PROVE  round'[q] = round[q] /\ Outside(q)' = Outside(q)
    <3>1. round' = round /\ pc[r] = "wait_recv" /\ pc'[r] \in {"idle", "post_recv"}
          /\ (r # q => pc'[q] = pc[q])
      BY <1>1, <2>4 DEF WaitRecv, advance
    <3> QED
      BY <2>4, <3>1 DEF Outside
  <2> QED
    BY <2>1, <2>2, <2>3, <2>4 DEF Next, RankStep, Nic, Terminating, ctl, vars
<1>3. Outside(q) => mem'[q] = mem[q]
  BY <1>2, ResultKept
<1> QED
  BY <1>1, <1>2, <1>3 DEF returns, handed

(***************************************************************************)
(* One step of the ring is one step of the allreduce it implements, or     *)
(* none.                                                                   *)
(***************************************************************************)
LEMMA PromiseStep ==
  ASSUME MemoryInv, MemoryInv', HandedReduction', CollectiveSync', SameCount, P > 1, [Next]_vars
  PROVE  [Promise!Next]_(Promise!vars)
<1> DEFINE left == [r \in Rank |-> returns(r)]
           result == [r \in Rank |-> handed(r)]
<1>1. /\ args' = args /\ SameCount' /\ 0 \in Rank /\ P \in Nat
      /\ args[0].count \in Nat /\ \A r \in Rank : args[r].count = args[0].count
      /\ round \in [Rank -> 0 .. MaxRounds]
      /\ pc \in [Rank -> {"idle", "post_recv", "post_send", "wait_send",
                          "wait_recv", "threw", "exited", "finished"}]
  BY SameArguments, PAssumption
     DEF MemoryInv, Discipline, TypeOK, Rank, Arg, SameCount
<1>2. ASSUME NEW q \in Rank, Call(q) PROVE Promise!Enter(q)
  <2>1. /\ pc[q] = "idle" /\ round[q] < MaxRounds
        /\ round' = [round EXCEPT ![q] = @ + 1]
        /\ pc'[q] \in {"threw", "post_recv"} /\ round[q] \in Nat
    BY <1>1, <1>2, MaxRoundsAssumption DEF Call
  <2>2. ASSUME NEW r \in Rank, r # q PROVE returns(r)' = returns(r) /\ handed(r)' = handed(r)
    <3>1. round'[r] = round[r] /\ round' # round
      BY <1>1, <2>1, <2>2
    <3>2. ~Call(r) /\ ~WaitRecv(r)
      BY <1>1, <3>1, MaxRoundsAssumption DEF Call, WaitRecv
    <3> QED
      BY <2>2, <3>2, Visible
  <2>3. returns(q)' = returns(q) /\ returns(q) = round[q] /\ handed(q)' = <<>>
    <3>1. Outside(q) /\ ~Outside(q)' /\ round'[q] = round[q] + 1
      BY <1>1, <2>1 DEF Outside
    <3> QED
      BY <2>1, <3>1 DEF returns, handed
  <2>4. left' = left /\ result' = [result EXCEPT ![q] = <<>>]
    BY <2>2, <2>3
  <2> QED
    BY <1>1, <2>1, <2>3, <2>4 DEF Promise!Enter
<1>3. ASSUME NEW q \in Rank, WaitRecv(q), pc'[q] = "idle" PROVE Promise!Leave(q)
  <2>1. /\ pc[q] = "wait_recv" /\ round' = round /\ round[q] \in Nat /\ round[q] > 0
        /\ \A r \in Rank : r # q => pc'[r] = pc[r]
    <3>1. InCall(q)
      BY <1>3 DEF WaitRecv, InCall
    <3> QED
      BY <1>1, <1>3, <3>1, AtPosition DEF WaitRecv, advance, MemoryInv
  <2>2. ASSUME NEW r \in Rank, r # q PROVE returns(r)' = returns(r) /\ handed(r)' = handed(r)
    <3>1. ~Call(r) /\ ~(WaitRecv(r) /\ pc'[r] = "idle")
      BY <1>1, <2>1, <2>2, MaxRoundsAssumption DEF Call, WaitRecv
    <3> QED
      BY <2>2, <3>1, Visible
  <2>3. returns(q) = round[q] - 1 /\ returns(q)' = round[q]
    BY <1>3, <2>1 DEF returns, Outside
  <2>4. args[0].count > 0 => \A s \in Rank : round[s] >= round[q]
    <3> SUFFICES ASSUME args[0].count > 0, NEW s \in Rank PROVE round[s] >= round[q]
      OBVIOUS
    <3>1. returns(q)' <= round'[s]
      BY <1>1 DEF CollectiveSync
    <3> QED
      BY <1>1, <2>1, <2>3, <3>1, MaxRoundsAssumption
  <2>5. handed(q)' = [e \in 0 .. args[0].count - 1 |->
                        RingReduction(args[0].count, round[q], e)]
    <3>1. Returned(q)'
      BY <1>3, <2>1 DEF Returned
    <3>2. handed(q)' = [e \in 0 .. args'[q].count - 1 |->
                          RingReduction(args'[q].count, round'[q], e)]
      BY <1>1, <3>1 DEF HandedReduction
    <3> QED
      BY <1>1, <2>1, <3>2
  <2>6. left' = [left EXCEPT ![q] = round[q]] /\ result' = [result EXCEPT ![q] = handed(q)']
    BY <2>2, <2>3
  <2> QED
    BY <1>1, <2>1, <2>3, <2>4, <2>5, <2>6 DEF Promise!Leave, Promise!Reduced
<1>4. CASE \A q \in Rank : ~Call(q) /\ ~(WaitRecv(q) /\ pc'[q] = "idle")
  <2>1. \A q \in Rank : /\ round'[q] = round[q] /\ returns(q)' = returns(q)
                        /\ handed(q)' = handed(q)
    BY <1>4, Visible
  <2>2. round' \in [Rank -> 0 .. MaxRounds]
    BY DEF MemoryInv, Discipline, TypeOK
  <2>3. round' = round /\ left' = left /\ result' = result
    BY <1>1, <2>1, <2>2
  <2> QED
    BY <1>1, <2>3 DEF Promise!vars
<1> QED
  BY <1>2, <1>3, <1>4 DEF Promise!Next

(***************************************************************************)
(* allreduce_ring implements the safety part of the allreduce its header   *)
(* promises, for every number of ranks greater than one that agree on      *)
(* count, whatever else they pass and whatever fails: a rank leaves its    *)
(* k-th call only when every rank has entered that call, with the          *)
(* reduction of everybody's k-th contribution, and owns it until it calls  *)
(* again.  (One rank alone enters and leaves in one step.)                 *)
(***************************************************************************)
THEOREM Refinement ==
  ASSUME P > 1
  PROVE  Spec /\ SameCount => Promise!Safe
<1>1. Init => Promise!Init
  <2> SUFFICES ASSUME Init PROVE Promise!Init
    OBVIOUS
  <2>1. 0 \in Rank /\ args \in [Rank -> Arg]
    BY PAssumption, InitDiscipline DEF Rank, Discipline, TypeOK
  <2>2. args[0].count \in Nat /\ round = [r \in Rank |-> 0]
    BY <2>1 DEF Arg, Init
  <2>3. \A r \in Rank : returns(r) = 0 /\ handed(r) = <<>>
    BY DEF Init, returns, handed, Outside
  <2> QED
    BY <2>2, <2>3 DEF Promise!Init
<1>2. SameCount /\ [Next]_vars => SameCount'
  BY SameArguments
<1>3. /\ MemoryInv /\ MemoryInv' /\ HandedReduction' /\ CollectiveSync' /\ SameCount
      /\ [Next]_vars
      => [Promise!Next]_(Promise!vars)
  BY PromiseStep
<1> QED
  BY <1>1, <1>2, <1>3, QueueDiscipline, MemoryInvariant, FullyReducedTheorem,
     ReturnedReduction, CollectiveSyncTheorem, PTL
     DEF Spec, Promise!Safe
=============================================================================
