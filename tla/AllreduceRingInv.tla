-------------------------- MODULE AllreduceRingInv --------------------------
(***************************************************************************)
(* The inductive invariant behind FullyReduced.                            *)
(*                                                                         *)
(* The two loops of allreduce_ring are one sequence of 2(P - 1) positions: *)
(* at position g rank r sends chunk r - g and receives chunk r - g - 1     *)
(* (mod P), in both phases.  Rank r's send at position g is the message    *)
(* rank r + 1 expects at its position g, and the two positions that are    *)
(* matched by a delivery are always the same one of the same round: this   *)
(* is Paired, and it is what makes the values in Values right.             *)
(***************************************************************************)
EXTENDS AllreduceRing

InCall(r) == pc[r] \in {"post_recv", "post_send", "wait_send", "wait_recv"}
Alive(r) == pc[r] = "idle" \/ InCall(r)

Position == 0 .. 2 * P - 3
pos(r) == IF phase[r] = 1 THEN step[r] ELSE P - 1 + step[r]

sends(r, g) == mod_p(r - g)
receives(r, g) == mod_p(r - g - 1)

(* The request a rank is waiting for, and whether there is one.            *)
send_request(r) == sge("data", send_chunk(r).offset, send_chunk(r).count)
recv_request(r) ==
  IF phase[r] = 1 THEN sge("scratch", 0, recv_chunk(r).count)
  ELSE sge("data", recv_chunk(r).offset, recv_chunk(r).count)

SendPending(r) == pc[r] = "wait_send" /\ send_chunk(r).count > 0
RecvPending(r) ==
  pc[r] \in {"post_send", "wait_send", "wait_recv"} /\ recv_chunk(r).count > 0

(* Control: who is in a call, and where.                                   *)
ControlOf(r) ==
  /\ InCall(r) => P > 1 /\ step[r] < P - 1 /\ round[r] > 0
  /\ InCall(r) \/ (pc[r] = "idle" /\ round[r] > 0) => ~bad_arguments(r)

Control == \A r \in Rank : ControlOf(r)

(* Queues: the adapter holds at most the request that is waited for or its *)
(* completion, and an acknowledgement is for a request that is there.      *)
SendQueueOf(r) ==
  /\ \A p \in Rank \ {send_to(r)} : sq[r][p] = <<>>
  /\ SendPending(r) =>
       \/ sq[r][send_to(r)] = <<send_request(r)>> /\ send_cq[r] = <<>>
       \/ sq[r][send_to(r)] = <<>> /\ Len(send_cq[r]) = 1
  /\ ~SendPending(r) => sq[r][send_to(r)] = <<>> /\ send_cq[r] = <<>>
  /\ \A p \in Rank : response[r][p] # "none" => sq[r][p] # <<>>

SendQueue == \A r \in Rank : SendQueueOf(r)

(* A rank that threw at the wait for its send leaves the receive behind.   *)
RecvQueueOf(r) ==
  /\ \A p \in Rank \ {recv_from(r)} : rq[r][p] = <<>>
  /\ \/ Len(rq[r][recv_from(r)]) = 1 /\ recv_cq[r] = <<>>
     \/ rq[r][recv_from(r)] = <<>> /\ Len(recv_cq[r]) <= 1
  /\ Alive(r) /\ RecvPending(r) =>
       \/ rq[r][recv_from(r)] = <<recv_request(r)>> /\ recv_cq[r] = <<>>
       \/ rq[r][recv_from(r)] = <<>> /\ Len(recv_cq[r]) = 1
  /\ Alive(r) /\ ~RecvPending(r) => rq[r][recv_from(r)] = <<>> /\ recv_cq[r] = <<>>

RecvQueue == \A r \in Rank : RecvQueueOf(r)

Discipline == TypeOK /\ Control /\ SendQueue /\ RecvQueue

(* Has the message of position g of round k left r, or reached r?          *)
Sent(r, k, g) ==
  \/ k < round[r]
  \/ k = round[r] /\ (pc[r] = "idle" \/ g < pos(r))
  \/ /\ k = round[r] /\ g = pos(r)
     /\ \/ pc[r] = "wait_recv"
        \/ pc[r] = "wait_send" /\ (sq[r][send_to(r)] = <<>> \/ response[r][send_to(r)] # "none")

Received(r, k, g) ==
  \/ k < round[r]
  \/ k = round[r] /\ (pc[r] = "idle" \/ g < pos(r))
  \/ k = round[r] /\ g = pos(r) /\ RecvPending(r) /\ recv_cq[r] # <<>>

(* Neighbours that can still talk agree on what has passed between them.   *)
Linked(s, d) == Alive(s) /\ Alive(d) /\ qp[s][d] = "RTS" /\ qp[d][s] = "RTS"

PairedOf(s) ==
  Linked(s, send_to(s)) =>
    \A k \in 1 .. MaxRounds, g \in Position :
      chunk(s, sends(s, g)).count > 0 =>
        (Sent(s, k, g) <=> Received(send_to(s), k, g))

(* This takes that neighbours skip the same positions.                     *)
SameSkips == SameCount \/ NoEmptyChunk

Paired == SameSkips => \A s \in Rank : PairedOf(s)

(* A message that arrived has the length that was expected, truncated, and *)
(* in the reduce-scatter the partial reduction of the sender.              *)
Landed(r) == RecvPending(r) /\ recv_cq[r] # <<>> /\ wc(recv_cq, r).status = "SUCCESS"

(* The message of position h of this round is in.                         *)
Got(r, h) == pos(r) > h \/ (pos(r) = h /\ Landed(r))

ArrivalsOf(r) ==
  Alive(r) /\ Landed(r) =>
    /\ wc(recv_cq, r).byte_len = recv_chunk(r).count % SgeLimit
    /\ phase[r] = 1 /\ recv_chunk(r).count < SgeLimit =>
         \A e \in Index : InChunk(r, receives(r, step[r]), e) =>
           mem[r]["scratch"][e - recv_chunk(r).offset] =
             RingFold(receives(r, step[r]), round[r], e)[step[r]]

Arrivals == SameCount => \A r \in Rank : ArrivalsOf(r)

(* A rank gets past a position only with a message that was not truncated. *)
WholeOf(r) ==
  InCall(r) =>
    \A g \in Position : g < pos(r) => chunk(r, receives(r, g)).count < SgeLimit

Whole == SameCount => \A r \in Rank : WholeOf(r)

(* The contents of data.  Chunk c reaches rank r, at distance D from rank  *)
(* c, at position D - 1 as a partial reduction and at position P - 1 + D   *)
(* as the result.                                                          *)
Final(r, D) == Got(r, P - 1 + D)

ValuesOf(r) ==
  InCall(r) => \A c \in Rank, e \in Index :
    InChunk(r, c, e) /\ chunk(r, c).count < SgeLimit =>
      LET D == mod_p(r - c)
      IN  mem[r]["data"][e] =
            IF pos(r) < D THEN Input(r, round[r], e)
            ELSE IF Final(r, D) THEN RingFold(c, round[r], e)[P - 1]
            ELSE RingFold(c, round[r], e)[D]

Values == SameCount => \A r \in Rank : ValuesOf(r)

(***************************************************************************)
(* The invariant of allreduce_ring: neighbours are matched position by     *)
(* position of the same round, whatever has failed elsewhere, and every    *)
(* element of data and scratch is the partial reduction its rank's         *)
(* position says.                                                          *)
(***************************************************************************)
RingInv ==
  /\ Discipline
  /\ Paired /\ Arrivals /\ Whole /\ Values /\ FullyReduced

-----------------------------------------------------------------------------
(* Memory: a receive that is outstanding lies in the buffer it was posted  *)
(* for, also at a rank that threw and left it behind.                      *)
Fits(r, wr) ==
  wr.off + wr.len <= IF wr.buf = "data" THEN args[r].count ELSE args[r].scratch

ReceiveFitsOf(r) ==
  rq[r][recv_from(r)] # <<>> => Fits(r, Head(rq[r][recv_from(r)]))

ReceivesFit == \A r \in Rank : ReceiveFitsOf(r)

(* A rank that destroyed its Communicator has no receive left.             *)
GoneOf(r) == pc[r] \in {"exited", "finished"} => \A p \in Rank : rq[r][p] = <<>>

Gone == \A r \in Rank : GoneOf(r)

(* A rank's memory is its two buffers and nothing else.                    *)
MemShape == mem = [r \in Rank |-> [b \in Buffer |-> [e \in Index |-> mem[r][b][e]]]]

(***************************************************************************)
(* The invariant behind MemorySafe: what the adapter may still write to    *)
(* has been checked against the buffers before it was posted.              *)
(***************************************************************************)
MemoryInv == Discipline /\ MemShape /\ ReceivesFit /\ Gone /\ MemorySafe

-----------------------------------------------------------------------------
(* Synchronisation: chunk 0, which is not empty when anything is reduced,  *)
(* starts at rank 0.  Its partial reduction reaches rank r at position     *)
(* r - 1, after ranks 0 .. r - 1 have entered the round, and its result at *)
(* position P - 1 + r, after all of them have.                             *)
SyncOf(r) ==
  InCall(r) =>
    /\ Got(r, r - 1) => \A s \in 0 .. r : round[s] >= round[r]
    /\ Got(r, P - 1 + r) => \A s \in Rank : round[s] >= round[r]

(***************************************************************************)
(* The invariant behind CollectiveSync.                                    *)
(***************************************************************************)
SyncInv ==
  /\ Discipline /\ Paired
  /\ SameCount /\ P > 1 => \A r \in Rank : args[r].count > 0 => SyncOf(r)
  /\ CollectiveSync

-----------------------------------------------------------------------------
(* Sizes: what it takes for rank q to get past its position i.             *)
Fit(q, i) ==
  /\ ~bad_arguments(q)
  /\ chunk(q, receives(q, i)).count < SgeLimit
  /\ chunk(q, receives(q, i)).count =
       chunk(recv_from(q), receives(q, i)).count % SgeLimit

(* To get past position h a rank needs that its predecessor got past       *)
(* h - 1, which needs that the one before got past h - 2, and so on.       *)
Passed(q, h) ==
  \A x \in Rank, i \in Position : mod_p(q - x) + i <= h => Fit(x, i)

FitsSoFar(r) ==
  /\ InCall(r) => Passed(r, pos(r) - 1)
  /\ Returned(r) => Passed(r, 2 * P - 3)
  /\ InCall(r) /\ Landed(r) =>
       /\ wc(recv_cq, r).byte_len =
            chunk(recv_from(r), receives(r, pos(r))).count % SgeLimit
       /\ Passed(recv_from(r), pos(r) - 1)

(***************************************************************************)
(* The invariant behind FailsEverywhere.                                   *)
(***************************************************************************)
SizesInv ==
  /\ Discipline /\ Paired
  /\ NoEmptyChunk /\ P > 1 => \A r \in Rank : FitsSoFar(r)

-----------------------------------------------------------------------------
(* Nothing goes wrong at a rank: it is in a call or between two, its QPs   *)
(* are connected and nothing it was or will be told is an error.           *)
HealthyOf(r) ==
  /\ Alive(r)
  /\ \A p \in Rank : qp[r][p] = "RTS" /\ response[r][p] # "nak"
  /\ send_cq[r] # <<>> => wc(send_cq, r).status = "SUCCESS"
  /\ recv_cq[r] # <<>> => wc(recv_cq, r).status = "SUCCESS"

(***************************************************************************)
(* The invariant behind NeverThrows.                                       *)
(***************************************************************************)
Healthy == WellCalled /\ ~Teardown => \A r \in Rank : HealthyOf(r)

-----------------------------------------------------------------------------
(* Leaving: what a rank is after its peers have begun to leave.  It gives  *)
(* up on a send when its successor is gone, throws and leaves in turn.     *)
GivenUp(r) ==
  /\ qp[r][send_to(r)] = "ERR" /\ ~Alive(send_to(r))
  /\ \A p \in Rank : response[r][p] # "nak" /\ (p # send_to(r) => qp[r][p] = "RTS")

BrokenOf(r) ==
  /\ GivenUp(r) /\ SendPending(r)
  /\ send_cq[r] # <<>> /\ wc(send_cq, r).status # "SUCCESS"

ThrewOf(r) == GivenUp(r) /\ pc[r] = "threw"

LeftOf(r) == pc[r] \in {"exited", "finished"} /\ \A p \in Rank : qp[r][p] = "GONE"

StageOf(r) == HealthyOf(r) \/ BrokenOf(r) \/ ThrewOf(r) \/ LeftOf(r)

(* Somebody has finished the last call, and the failure is as many         *)
(* positions before the end as there are ranks between.                    *)
Failed(r) == BrokenOf(r) \/ pc[r] \in {"threw", "exited"}

LateOf(r) ==
  /\ P > 1 /\ step[r] < P - 1 /\ round[r] = MaxRounds
  /\ \E x \in Rank : pc[x] = "finished"
  /\ args[r].count >= P => \E x \in Rank \ {r} :
       pc[x] = "finished" /\ pos(r) >= 2 * P - 2 - mod_p(x - r)

(* A rank is not behind a successor that is out.                           *)
Due(s, g) == g \in Position /\ chunk(s, sends(s, g)).count > 0

LagOf(s) ==
  LET d == send_to(s)
  IN  Alive(s) =>
        /\ pc[d] = "finished" => \A g \in Position : Due(s, g) => Sent(s, MaxRounds, g)
        /\ pc[d] \in {"threw", "exited"} =>
             \A g \in Position : Due(s, g) /\ g < pos(d) => Sent(s, MaxRounds, g)
        /\ pc[d] = "threw" /\ rq[d][s] # <<>> => ~Sent(s, MaxRounds, pos(d))

(* The receive a rank leaves behind is that of its position, which is not  *)
(* the chunk it has completed.                                             *)
BehindOf(r) ==
  pc[r] = "threw" /\ rq[r][recv_from(r)] # <<>> =>
    rq[r][recv_from(r)] = <<recv_request(r)>> /\ recv_chunk(r).count > 0

ReducedOf(r) ==
  pc[r] \in {"threw", "exited"} /\ args[r].count >= P =>
    /\ phase[r] = 2
    /\ \A e \in Index : InChunk(r, mod_p(r + 1), e) =>
         mem[r]["data"][e] = RingFold(mod_p(r + 1), MaxRounds, e)[P - 1]

LeavingOf(r) ==
  /\ StageOf(r) /\ (pc[r] = "finished" => round[r] = MaxRounds)
  /\ (Failed(r) => LateOf(r)) /\ LagOf(r) /\ BehindOf(r) /\ ReducedOf(r)

(***************************************************************************)
(* The invariant behind OnlyLastAllgatherFails.                            *)
(***************************************************************************)
Leaving == WellCalled => \A r \in Rank : LeavingOf(r)
=============================================================================
