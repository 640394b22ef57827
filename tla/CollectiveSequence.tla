------------------------- MODULE CollectiveSequence -------------------------
(***************************************************************************)
(* Programs of P ranks that call allgather, broadcast and barrier one      *)
(* after the other on one registered buffer, with nothing else between the *)
(* calls, or that run the ping-pong example; at the end of its program a   *)
(* rank leaves main and its Communicator goes.  All calls of a rank share  *)
(* its queue pairs and its two completion queues.                          *)
(***************************************************************************)
EXTENDS Allgather, Broadcast, PingPong

CONSTANTS
  Programs,   \* set of programs: what each rank calls, and its registered length
  Zero        \* what the buffers hold before

VARIABLES
  program,   \* program[r].calls: the calls of r; program[r].mr: MemoryRegion::length()
  at,        \* at[r]: the call r is in or has returned from last
  todo,      \* todo[r]: the transport calls it still has to make in it
  pc         \* pc[r]: "run", "threw", "exited" or "finished"

ctl == <<program, at, todo, pc>>
vars == <<program, at, todo, pc, mem, nic>>

call(r) == program[r].calls[at[r]]
Idle(r) == pc[r] = "run" /\ todo[r] = <<>>
Doing(r, what) == pc[r] = "run" /\ todo[r] # <<>> /\ Head(todo[r]).do = what

Init ==
  /\ program \in Programs
  /\ at = [r \in Rank |-> 0]
  /\ todo = [r \in Rank |-> <<>>]
  /\ pc = [r \in Rank |-> "run"]
  /\ mem = [r \in Rank |-> [b \in Buffer |-> [e \in Index |-> Zero]]]
  /\ TransportInit

-----------------------------------------------------------------------------
(* The ranks.  The caller writes its own segment before an allgather, and  *)
(* the whole buffer before a broadcast from itself.                        *)
rejects(r, c) ==
  \/ c.op = "allgather" /\ allgather_rejects(c, program[r].mr)
  \/ c.op = "broadcast" /\ broadcast_rejects(c)

body(r, c, k) ==
  CASE c.op = "allgather" -> <<Fill(r * c.count, c.count, k)>> \o allgather(r, c)
    [] c.op = "broadcast" ->
         (IF r = c.root THEN <<Fill(0, c.count, k)>> ELSE <<>>) \o broadcast(r, c)
    [] c.op = "pingpong" -> pingpong(r, c)
    [] c.op = "barrier" -> <<Meet>>

Call(r) ==
  /\ Idle(r) /\ at[r] < Len(program[r].calls)
  /\ at' = [at EXCEPT ![r] = @ + 1]
  /\ LET c == program[r].calls[at[r] + 1]
     IN  IF rejects(r, c)
         THEN pc' = [pc EXCEPT ![r] = "threw"] /\ UNCHANGED todo
         ELSE todo' = [todo EXCEPT ![r] = body(r, c, at[r] + 1)] /\ UNCHANGED pc
  /\ UNCHANGED <<program, mem, nic>>

Done(r) == todo' = [todo EXCEPT ![r] = Tail(@)] /\ UNCHANGED <<program, at, pc>>

(* The caller writes to memory it owns.                                    *)
DoFill(r) ==
  LET f == Head(todo[r])
  IN  /\ Doing(r, "fill") /\ Done(r)
      /\ mem' = [mem EXCEPT ![r]["data"] = [e \in Index |->
                   IF e \in f.off .. f.off + f.len - 1 /\ e < program[r].mr
                   THEN <<r, f.tag, e>> ELSE @[e]]]
      /\ UNCHANGED nic

DoPostRecv(r) ==
  LET c == Head(todo[r])
  IN  /\ Doing(r, "post_recv") /\ Done(r)
      /\ post_recv(r, c.peer, c.buf, c.off, c.len)
      /\ UNCHANGED <<mem, qp, sq, response, send_cq, recv_cq>>

DoPostSend(r) ==
  LET c == Head(todo[r])
  IN  /\ Doing(r, "post_send") /\ Done(r)
      /\ post_send(r, c.peer, c.buf, c.off, c.len)
      /\ UNCHANGED <<mem, qp, rq, response, send_cq, recv_cq>>

(* Bug: a send is not waited for.                                          *)
DoWaitSend_NotAwaited(r) == Doing(r, "wait_send") /\ Done(r) /\ UNCHANGED <<mem, nic>>

DoWaitSend(r) ==
  /\ Doing(r, "wait_send") /\ Done(r)
  /\ completed(send_cq, r) /\ send_cq' = take(send_cq, r)
  /\ UNCHANGED <<mem, qp, sq, rq, response, recv_cq>>

(* Bug: a shorter message will do.                                         *)
received_AnyLength(r) == completed(recv_cq, r)

received(r) == completed(recv_cq, r) /\ wc(recv_cq, r).byte_len = Head(todo[r]).len

DoWaitRecv(r) ==
  /\ Doing(r, "wait_recv") /\ Done(r)
  /\ received(r) /\ recv_cq' = take(recv_cq, r)
  /\ UNCHANGED <<mem, qp, sq, rq, response, send_cq>>

same(r) == \A e \in 0 .. Head(todo[r]).len - 1 : mem[r]["data"][e] = mem[r]["scratch"][e]

DoMemcmp(r) == Doing(r, "memcmp") /\ same(r) /\ Done(r) /\ UNCHANGED <<mem, nic>>

(* Bug: a rank does not wait for the others.                               *)
DoBarrier_NoWait(r) == Doing(r, "barrier") /\ Done(r) /\ UNCHANGED <<mem, nic>>

(* The exchange behind a barrier (module Exchange) returns when every rank *)
(* has entered it and fails when one has gone that has not.                *)
DoBarrier(r) ==
  /\ Doing(r, "barrier") /\ Done(r)
  /\ \A s \in Rank : at[s] >= at[r]
  /\ UNCHANGED <<mem, nic>>

Throw(r) ==
  /\ \/ /\ Doing(r, "wait_send") /\ completion_error(send_cq, r)
        /\ send_cq' = take(send_cq, r) /\ UNCHANGED recv_cq
     \/ /\ Doing(r, "wait_recv")
        /\ \/ completion_error(recv_cq, r)
           \/ completed(recv_cq, r) /\ ~received(r)
        /\ recv_cq' = take(recv_cq, r) /\ UNCHANGED send_cq
     \/ /\ \/ Doing(r, "memcmp") /\ ~same(r)
           \/ Doing(r, "barrier") /\ \E s \in Rank : at[s] < at[r] /\ pc[s] = "exited"
        /\ UNCHANGED <<send_cq, recv_cq>>
  /\ pc' = [pc EXCEPT ![r] = "threw"]
  /\ UNCHANGED <<program, at, todo, mem, qp, sq, rq, response>>

(* main is left, by the exception or after the last call.                  *)
Leave(r) ==
  /\ \/ pc[r] = "threw" /\ pc' = [pc EXCEPT ![r] = "exited"]
     \/ /\ Idle(r) /\ at[r] = Len(program[r].calls)
        /\ pc' = [pc EXCEPT ![r] = "finished"]
  /\ destroy(r)
  /\ UNCHANGED <<program, at, todo, mem>>

RankStep(r) ==
  \/ Call(r) \/ DoFill(r) \/ DoPostRecv(r) \/ DoPostSend(r) \/ DoWaitSend(r)
  \/ DoWaitRecv(r) \/ DoMemcmp(r) \/ DoBarrier(r) \/ Throw(r) \/ Leave(r)

-----------------------------------------------------------------------------
(* The adapters know the length of a registered region: a request that     *)
(* lies outside is refused, the send before anything leaves, the receive   *)
(* when a message has to be placed.                                        *)
Inside(r, off, len) == len = 0 \/ off + len <= program[r].mr

Readable(s, d) == LET snd == Head(sq[s][d]) IN Inside(s, snd.off, snd.len)

Placeable(s, d) ==
  LET len == Head(sq[s][d]).len
      rcv == Head(rq[d][s])
  IN  len <= rcv.len => Inside(d, rcv.off, len)

SendProtectionError(s, d) ==
  /\ qp[s][d] = "RTS" /\ sq[s][d] # <<>> /\ response[s][d] = "none"
  /\ ~Readable(s, d)
  /\ FinishSend(s, d, "LOC_PROT_ERR")

RecvProtectionError(s, d) ==
  /\ Arrived(s, d) /\ Readable(s, d) /\ ~Placeable(s, d)
  /\ rq' = [rq EXCEPT ![d][s] = Tail(@)]
  /\ recv_cq' = [recv_cq EXCEPT ![d] = Append(@, cqe("LOC_PROT_ERR", 0))]
  /\ qp' = [qp EXCEPT ![d][s] = "ERR"]
  /\ response' = [response EXCEPT ![s][d] = "nak"]
  /\ UNCHANGED <<mem, sq, send_cq>>

Nic(s, d) ==
  /\ \/ (Arrived(s, d) => Readable(s, d) /\ Placeable(s, d)) /\ AdapterStep(s, d)
     \/ SendProtectionError(s, d) \/ RecvProtectionError(s, d)
  /\ UNCHANGED ctl

Next == (\E r \in Rank : RankStep(r)) \/ (\E s, d \in Rank : Nic(s, d))

Fairness ==
  /\ \A r \in Rank : WF_vars(RankStep(r))
  /\ \A s, d \in Rank : WF_vars(Nic(s, d))

Spec == Init /\ [][Next]_vars
FairSpec == Spec /\ Fairness

-----------------------------------------------------------------------------
Returned(r, op) == Idle(r) /\ at[r] > 0 /\ call(r).op = op

(* The ranks make the same calls, with sizes that neither the region nor a *)
(* work request cuts.                                                      *)
WellCalled ==
  /\ \A r \in Rank : program[r] = program[0]
  /\ \A r \in Rank, k \in 1 .. Len(program[0].calls) :
       LET c == program[0].calls[k]
       IN  /\ ~rejects(r, c)
           /\ c.op # "barrier" => c.count < SgeLimit /\ c.count <= program[r].mr
           /\ c.op = "allgather" => P * c.count <= program[r].mr

PingPongs ==
  /\ program[0] = program[1]
  /\ program[0].calls # <<>> /\ program[0].calls[1].op = "pingpong"

(* The ranks agree on call k, or no size they pass to it is cut to 32      *)
(* bits.  Sizes that differ by 4 GiB look alike to byte_len: the rank that *)
(* passed the larger one throws, but the others may return.  Around three  *)
(* ranks or more it is missed before an allgather can return anywhere.     *)
LengthsTell(k) ==
  \/ \A r, s \in Rank : program[r].calls[k] = program[s].calls[k]
  \/ \A r \in Rank : program[r].calls[k].count < SgeLimit

GatheredBy(r) == Returned(r, "allgather") /\ (P = 2 => LengthsTell(at[r]))

(***************************************************************************)
(* Whatever sizes the ranks pass, a call throws, hangs or is right on the  *)
(* rank it returns on, however far ahead the others are: after allgather   *)
(* the buffer holds every rank's segment of this call, after broadcast the *)
(* root's data of this call ("every rank's segment is visible in every     *)
(* buf", allgather.hpp).  Between two ranks, sizes 4 GiB apart are set     *)
(* aside.                                                                  *)
(***************************************************************************)
RightWhereReturned ==
  \A r \in Rank :
    LET c == call(r)
        holds(s, from) == \A e \in Index : e \in from .. from + c.count - 1 =>
                            mem[r]["data"][e] = <<s, at[r], e>>
    IN  /\ GatheredBy(r) => \A s \in Rank : holds(s, s * c.count)
        /\ Returned(r, "broadcast") => holds(c.root, 0)

(***************************************************************************)
(* An allgather that the ranks do not agree on, or whose total size wraps  *)
(* and so passes the check against the region, returns nowhere: every      *)
(* segment has to pass through every rank, with the right length.  Between *)
(* two ranks, sizes 4 GiB apart are set aside.                             *)
(***************************************************************************)
AllgatherNeedsAll ==
  \A r \in Rank : GatheredBy(r) =>
    \A s \in Rank :
      /\ at[s] >= at[r]
      /\ program[s].calls[at[r]].count = call(r).count
      /\ P * call(r).count <= program[s].mr

(***************************************************************************)
(* A broadcast that has returned, on the root, has been taken by every     *)
(* rank that agrees on its size; on another rank it has been called by the *)
(* root with the same size.  The root may return although a rank with a    *)
(* larger buffer throws, never when one with a smaller buffer refuses.     *)
(* Sizes that disagree are below 4 GiB here: a longer one arrives cut, and *)
(* fits a receive that is shorter than it.                                 *)
(***************************************************************************)
BroadcastTaken ==
  \A r \in Rank : Returned(r, "broadcast") /\ LengthsTell(at[r]) =>
    \A s \in {call(r).root} \cup (IF r = call(r).root THEN Rank ELSE {}) :
      LET theirs == program[s].calls[at[r]]
      IN  /\ at[s] >= at[r]
          /\ theirs.count >= call(r).count
          /\ s = call(r).root => theirs.count = call(r).count

(***************************************************************************)
(* A barrier before the Communicators go is enough: ranks whose program    *)
(* ends with one never see an exception.  Two ping-pong processes of the   *)
(* same size, that have none, can lose the acknowledgement of a last       *)
(* message to the other's exit; but no echo is ever missing, stale, of     *)
(* another round or of the wrong size.                                     *)
(***************************************************************************)
NeverThrows ==
  /\ WellCalled /\ Last(program[0].calls).op = "barrier" =>
       \A r \in Rank : pc[r] \notin {"threw", "exited"}
  /\ PingPongs => \A r \in {0, 1} : pc[r] \in {"threw", "exited"} =>
       Head(todo[r]).do = "wait_send" /\ Len(todo[r]) <= 3

(* A rank polls for the message of a root that has thrown: a receiver that *)
(* left at once took the acknowledgement of its message with it.           *)
Abandoned(r) ==
  /\ Doing(r, "wait_recv") /\ call(r).op = "broadcast"
  /\ pc[call(r).root] = "exited"

(***************************************************************************)
(* Every program ends on every rank, in an error if the last call was not  *)
(* a barrier, except that a rank can be left behind in a broadcast.        *)
(***************************************************************************)
AllStop ==
  WellCalled \/ PingPongs =>
    <>(\A r \in Rank : pc[r] \in {"exited", "finished"} \/ Abandoned(r))
=============================================================================
