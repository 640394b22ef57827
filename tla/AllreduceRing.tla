--------------------------- MODULE AllreduceRing ----------------------------
(***************************************************************************)
(* allreduce_ring (src/collectives/allreduce_ring.cc), run by P ranks that *)
(* call it MaxRounds times on the same two buffers with nothing between    *)
(* the calls but the refill of the data, as the timing loop of             *)
(* bench/bench_allreduce.cc does.                                          *)
(*                                                                         *)
(* A rank's program counter stops wherever another process or an adapter   *)
(* can be observed: before each post and at each wait.  What happens       *)
(* between two such points is local and is one action.                     *)
(***************************************************************************)
EXTENDS ChunkRanges, Transport

CONSTANTS
  Calls,           \* set of argument vectors: Calls \subseteq [Rank -> Arg]
  MaxRounds,       \* bound on the calls each rank makes
  Teardown,        \* do ranks destroy their Communicator after the last call?
  Op(_, _),        \* reduce_inplace on one element: dst, src |-> dst
  Input(_, _, _),  \* Input(r, k, e): what rank r fills element e with in round k
  Zero             \* what the buffers hold before

ASSUME MaxRoundsAssumption == MaxRounds \in Nat
ASSUME TeardownAssumption == Teardown \in BOOLEAN

(* count, data_mr.length() in elements, and scratch_capacity_elems, which  *)
(* every caller in the repository takes from the buffer behind scratch_mr. *)
Arg == [count : Nat, mr : 0 .. Span, scratch : 0 .. Span]

ASSUME CallsAssumption == Calls \subseteq [Rank -> Arg]

VARIABLES
  args,    \* args[r]: the arguments rank r calls with, every time
  round,   \* round[r]: calls made so far
  phase,   \* phase[r]: 1 = reduce-scatter, 2 = allgather
  step,    \* step[r]: the loop variable of that phase
  pc       \* pc[r]: where rank r stands

ctl == <<args, round, phase, step, pc>>
vars == <<args, round, phase, step, pc, mem, nic>>

-----------------------------------------------------------------------------
mod_p(x) == ((x % P) + P) % P

(* Bug: both neighbours are the successor.                                 *)
recv_from_Next(r) == mod_p(r + 1)

send_to(r) == mod_p(r + 1)
recv_from(r) == mod_p(r - 1)

(* Bug: the allgather receives the chunk it is sending.                    *)
recv_index_Own(r, ph, st) == IF ph = 1 THEN mod_p(r - st - 1) ELSE mod_p(r - st + 1)

(* Index of the chunk sent and of the chunk received in a step.            *)
send_index(r, ph, st) == IF ph = 1 THEN mod_p(r - st) ELSE mod_p(r - st + 1)
recv_index(r, ph, st) == IF ph = 1 THEN mod_p(r - st - 1) ELSE mod_p(r - st)

chunk(r, c) == [offset |-> chunk_offset(args[r].count, P, c),
                count |-> chunk_count(args[r].count, P, c)]

send_chunk(r) == chunk(r, send_index(r, phase[r], step[r]))
recv_chunk(r) == chunk(r, recv_index(r, phase[r], step[r]))

(* Chunk 0 is a longest one, so this is the maximum the code loops for.    *)
max_chunk_elems(r) == chunk(r, 0).count

(* Bug: the scratch buffer is taken as it is.                              *)
bad_arguments_AnyScratch(r) == args[r].count > args[r].mr

(* Sizes are compared in elements.  count * elem_size is a size_t: a count *)
(* for which it wraps is one whose chunks no scratch can hold.             *)
bad_arguments(r) ==
  \/ args[r].count > args[r].mr
  \/ P > 1 /\ args[r].scratch < max_chunk_elems(r)

Init ==
  /\ args \in Calls
  /\ round = [r \in Rank |-> 0]
  /\ phase = [r \in Rank |-> 1]
  /\ step = [r \in Rank |-> 0]
  /\ pc = [r \in Rank |-> "idle"]
  /\ mem = [r \in Rank |-> [b \in Buffer |-> [e \in Index |-> Zero]]]
  /\ TransportInit

(* The caller refills data and calls; the arguments are checked before     *)
(* anything is posted.  One rank alone has nothing to do.                  *)
Call(r) ==
  /\ pc[r] = "idle" /\ round[r] < MaxRounds
  /\ round' = [round EXCEPT ![r] = @ + 1]
  /\ mem' = [s \in Rank |-> [b \in Buffer |-> [e \in Index |->
               IF s = r /\ b = "data" /\ e < args[r].count /\ e < args[r].mr
               THEN Input(r, round[r] + 1, e) ELSE mem[s][b][e]]]]
  /\ phase' = [phase EXCEPT ![r] = 1]
  /\ step' = [step EXCEPT ![r] = 0]
  /\ pc' = [pc EXCEPT ![r] = IF bad_arguments(r) THEN "threw"
                             ELSE IF P = 1 THEN "idle" ELSE "post_recv"]
  /\ UNCHANGED <<args, nic>>

(* Reduce-scatter receives land in scratch, allgather receives in place.   *)
PostRecv(r) ==
  /\ pc[r] = "post_recv"
  /\ pc' = [pc EXCEPT ![r] = "post_send"]
  /\ IF recv_chunk(r).count = 0 THEN UNCHANGED rq
     ELSE IF phase[r] = 1
     THEN post_recv(r, recv_from(r), "scratch", 0, recv_chunk(r).count)
     ELSE post_recv(r, recv_from(r), "data", recv_chunk(r).offset,
                    recv_chunk(r).count)
  /\ UNCHANGED <<args, round, phase, step, mem, qp, sq, response, send_cq, recv_cq>>

PostSend(r) ==
  /\ pc[r] = "post_send"
  /\ pc' = [pc EXCEPT ![r] = "wait_send"]
  /\ IF send_chunk(r).count = 0 THEN UNCHANGED sq
     ELSE post_send(r, send_to(r), "data", send_chunk(r).offset,
                    send_chunk(r).count)
  /\ UNCHANGED <<args, round, phase, step, mem, qp, rq, response, send_cq, recv_cq>>

(* Bug: a send is not waited for.                                          *)
WaitSend_NotAwaited(r) ==
  /\ pc[r] = "wait_send"
  /\ pc' = [pc EXCEPT ![r] = "wait_recv"]
  /\ UNCHANGED <<args, round, phase, step, mem, nic>>

(* Bug: the very last send of a call is not waited for.                    *)
WaitSend_LastNotAwaited(r) ==
  /\ pc[r] = "wait_send"
  /\ pc' = [pc EXCEPT ![r] = "wait_recv"]
  /\ \/ /\ send_chunk(r).count = 0 \/ (phase[r] = 2 /\ step[r] = P - 2)
        /\ UNCHANGED send_cq
     \/ completed(send_cq, r) /\ send_cq' = take(send_cq, r)
  /\ UNCHANGED <<args, round, phase, step, mem, qp, sq, rq, response, recv_cq>>

WaitSend(r) ==
  /\ pc[r] = "wait_send"
  /\ pc' = [pc EXCEPT ![r] = "wait_recv"]
  /\ \/ send_chunk(r).count = 0 /\ UNCHANGED send_cq
     \/ /\ send_chunk(r).count > 0 /\ completed(send_cq, r)
        /\ send_cq' = take(send_cq, r)
  /\ UNCHANGED <<args, round, phase, step, mem, qp, sq, rq, response, recv_cq>>

(* Bug: the phases are not told apart, a third one begins.                 *)
advance_NoEnd(r) ==
  LET last == step[r] + 1 = P - 1
  IN  /\ step' = [step EXCEPT ![r] = IF last THEN 0 ELSE @ + 1]
      /\ phase' = [phase EXCEPT ![r] = IF last THEN @ + 1 ELSE @]
      /\ pc' = [pc EXCEPT ![r] = "post_recv"]

(* Bug: the call returns after the reduce-scatter.                         *)
advance_NoAllgather(r) ==
  LET last == step[r] + 1 = P - 1
  IN  /\ step' = [step EXCEPT ![r] = IF last THEN 0 ELSE @ + 1]
      /\ phase' = phase
      /\ pc' = [pc EXCEPT ![r] = IF last THEN "idle" ELSE "post_recv"]

(* The end of a loop body: the next step, the next phase, or the return.   *)
advance(r) ==
  LET last == step[r] + 1 = P - 1
  IN  /\ step' = [step EXCEPT ![r] = IF last THEN 0 ELSE @ + 1]
      /\ phase' = [phase EXCEPT ![r] = IF last /\ @ = 1 THEN 2 ELSE @]
      /\ pc' = [pc EXCEPT ![r] = IF last /\ phase[r] = 2 THEN "idle"
                                 ELSE "post_recv"]

(* Bug: scratch is read at the chunk's place in data.                      *)
reduced_AtOffset(r, c) ==
  [s \in Rank |-> [b \in Buffer |-> [e \in Index |->
     IF s = r /\ b = "data" /\ e \in c.offset .. c.offset + c.count - 1
     THEN Op(mem[r]["data"][e], mem[r]["scratch"][e])
     ELSE mem[s][b][e]]]]

(* reduce_inplace(data + c.offset, scratch, c.count).                      *)
reduced(r, c) ==
  [s \in Rank |-> [b \in Buffer |-> [e \in Index |->
     IF s = r /\ b = "data" /\ e \in c.offset .. c.offset + c.count - 1
     THEN Op(mem[r]["data"][e], mem[r]["scratch"][e - c.offset])
     ELSE mem[s][b][e]]]]

(* Bug: whatever arrived is taken for the chunk.                           *)
received_AnyLength(r) == completed(recv_cq, r)

received(r) ==
  completed(recv_cq, r) /\ wc(recv_cq, r).byte_len = recv_chunk(r).count

(* Bug: the step ends without its message, always or in the last step.     *)
WaitRecv_NotAwaited(r) ==
  /\ pc[r] = "wait_recv"
  /\ advance(r)
  /\ UNCHANGED <<args, round, mem, nic>>

WaitRecv_LastNotAwaited(r) ==
  /\ pc[r] = "wait_recv"
  /\ advance(r)
  /\ \/ /\ recv_chunk(r).count = 0 \/ (phase[r] = 2 /\ step[r] = P - 2)
        /\ UNCHANGED <<mem, recv_cq>>
     \/ /\ recv_chunk(r).count > 0 /\ received(r)
        /\ recv_cq' = take(recv_cq, r)
        /\ mem' = IF phase[r] = 1 THEN reduced(r, recv_chunk(r)) ELSE mem
  /\ UNCHANGED <<args, round, qp, sq, rq, response, send_cq>>

WaitRecv(r) ==
  /\ pc[r] = "wait_recv"
  /\ advance(r)
  /\ \/ recv_chunk(r).count = 0 /\ UNCHANGED <<mem, recv_cq>>
     \/ /\ recv_chunk(r).count > 0 /\ received(r)
        /\ recv_cq' = take(recv_cq, r)
        /\ mem' = IF phase[r] = 1 THEN reduced(r, recv_chunk(r)) ELSE mem
  /\ UNCHANGED <<args, round, qp, sq, rq, response, send_cq>>

(* An exception: a completion in error, or a message of the wrong size.    *)
Throw(r) ==
  /\ \/ /\ pc[r] = "wait_send" /\ send_chunk(r).count > 0
        /\ completion_error(send_cq, r)
        /\ send_cq' = take(send_cq, r) /\ UNCHANGED recv_cq
     \/ /\ pc[r] = "wait_recv" /\ recv_chunk(r).count > 0
        /\ \/ completion_error(recv_cq, r)
           \/ completed(recv_cq, r) /\ ~received(r)
        /\ recv_cq' = take(recv_cq, r) /\ UNCHANGED send_cq
  /\ pc' = [pc EXCEPT ![r] = "threw"]
  /\ UNCHANGED <<args, round, phase, step, mem, qp, sq, rq, response>>

(* Bug: the exception leaves the queue pairs behind.                       *)
Exit_KeepsQueuePairs(r) ==
  /\ pc[r] = "threw"
  /\ pc' = [pc EXCEPT ![r] = "exited"]
  /\ UNCHANGED <<args, round, phase, step, mem, nic>>

(* The callers catch the exception and leave main: the Communicator goes.  *)
Exit(r) ==
  /\ pc[r] = "threw"
  /\ pc' = [pc EXCEPT ![r] = "exited"]
  /\ destroy(r)
  /\ UNCHANGED <<args, round, phase, step, mem>>

(* Bug: the Communicator goes when the rank is idle.                       *)
Finish_Early(r) ==
  /\ Teardown
  /\ pc[r] = "idle"
  /\ pc' = [pc EXCEPT ![r] = "finished"]
  /\ destroy(r)
  /\ UNCHANGED <<args, round, phase, step, mem>>

(* The same after the last call, with no barrier before it.                *)
Finish(r) ==
  /\ Teardown
  /\ pc[r] = "idle" /\ round[r] = MaxRounds
  /\ pc' = [pc EXCEPT ![r] = "finished"]
  /\ destroy(r)
  /\ UNCHANGED <<args, round, phase, step, mem>>

RankStep(r) ==
  \/ Call(r) \/ PostRecv(r) \/ PostSend(r) \/ WaitSend(r) \/ WaitRecv(r)
  \/ Throw(r) \/ Exit(r) \/ Finish(r)

Nic(s, d) == AdapterStep(s, d) /\ UNCHANGED ctl

(* The program is over: a deadlock is any other state without a step.      *)
Terminating ==
  /\ \A r \in Rank : \/ pc[r] \in {"exited", "finished"}
                     \/ pc[r] = "idle" /\ round[r] = MaxRounds
  /\ UNCHANGED vars

Next ==
  \/ \E r \in Rank : RankStep(r)
  \/ \E s, d \in Rank : Nic(s, d)
  \/ Terminating

(* A rank spins or works until it returns, and an adapter eventually does  *)
(* what it can do for a connection.                                        *)
Fairness ==
  /\ \A r \in Rank : WF_vars(RankStep(r))
  /\ \A s, d \in Rank : WF_vars(Nic(s, d))

Spec == Init /\ [][Next]_vars
FairSpec == Spec /\ Fairness

-----------------------------------------------------------------------------
TypeOK ==
  /\ TransportTypeOK
  /\ args \in [Rank -> Arg]
  /\ round \in [Rank -> 0 .. MaxRounds]
  /\ phase \in [Rank -> {1, 2}]
  /\ step \in [Rank -> Nat]
  /\ pc \in [Rank -> {"idle", "post_recv", "post_send", "wait_send",
                      "wait_recv", "threw", "exited", "finished"}]

(* The ranks agree on how much is reduced.                                 *)
SameCount == \A r, s \in Rank : args[r].count = args[s].count

(* ... and every one passes the argument checks, with chunks that fit in   *)
(* one work request.                                                       *)
WellCalled ==
  /\ SameCount
  /\ \A r \in Rank : ~bad_arguments(r) /\ max_chunk_elems(r) < SgeLimit

(* Contributions of ranks c, c+1, ..., c+k (mod P) to element e in round   *)
(* it, folded in the order in which they pass around the ring.             *)
RingFold(c, it, e) ==
  LET fold[k \in 0 .. P - 1] ==
        IF k = 0 THEN Input(c, it, e)
        ELSE Op(Input(mod_p(c + k), it, e), fold[k - 1])
  IN  fold

InChunk(r, c, e) == e \in chunk(r, c).offset .. chunk(r, c).offset + chunk(r, c).count - 1

Returned(r) == pc[r] = "idle" /\ round[r] > 0

Correct(r) ==
  Returned(r) => \A c \in Rank, e \in Index :
    InChunk(r, c, e) => mem[r]["data"][e] = RingFold(c, round[r], e)[P - 1]

(***************************************************************************)
(* Whatever the ranks pass, a call either throws or is right: when         *)
(* allreduce_ring returns, every element of every chunk is the reduction   *)
(* of all P contributions to that element of that call.  The comment of    *)
(* test/integration_mismatched_scratch.cc expects this of ranks that       *)
(* disagree on the size, by the byte_len check on every receive.           *)
(***************************************************************************)
LoudOrCorrect == \A r \in Rank : Correct(r)

NoEmptyChunk == \A r, c \in Rank : chunk(r, c).count > 0

(***************************************************************************)
(* Where every chunk has an element, a call that the ranks do not agree    *)
(* on, or that one of them makes with illegal buffers, succeeds nowhere:   *)
(* every chunk passes through every rank, and somewhere on its way the     *)
(* byte_len check, the length of a receive or a missing message stops it.  *)
(***************************************************************************)
FailsEverywhere ==
  NoEmptyChunk /\ (~SameCount \/ \E r \in Rank : bad_arguments(r)) =>
    \A r \in Rank : ~Returned(r)

(***************************************************************************)
(* LoudOrCorrect when the ranks agree on count, also when some throw or    *)
(* chunks exceed a work request: one value per element, in an order that   *)
(* does not depend on the rank, with no contribution lost, taken twice, of *)
(* another element or left over from another round.                        *)
(***************************************************************************)
FullyReduced == SameCount => LoudOrCorrect

(***************************************************************************)
(* Agreeing ranks with legal buffers never see an exception from           *)
(* allreduce_ring while all Communicators live, although receives are      *)
(* posted late, one rank may be a whole round ahead, and wait_completion   *)
(* takes whatever completion comes first.                                  *)
(***************************************************************************)
NeverThrows ==
  WellCalled /\ ~Teardown => \A r \in Rank : pc[r] \notin {"threw", "exited"}

Region(wr) == {wr.buf} \X (wr.off .. wr.off + wr.len - 1)

Outstanding(q, r) ==
  UNION {{q[r][p][i] : i \in 1 .. Len(q[r][p])} : p \in Rank}

(***************************************************************************)
(* The adapter never writes where it may still be reading: no receive that *)
(* is outstanding at a rank overlaps a send that is outstanding there.  In *)
(* the allgather phase both point into data.                               *)
(***************************************************************************)
NoDmaConflict ==
  \A r \in Rank : \A snd \in Outstanding(sq, r), rcv \in Outstanding(rq, r) :
    Region(snd) \cap Region(rcv) = {}

AtMostOne(q, cq, r) ==
  /\ Len(cq[r]) <= 1
  /\ \A p \in Rank : q[r][p] # <<>> =>
       /\ Len(q[r][p]) = 1 /\ cq[r] = <<>>
       /\ \A o \in Rank \ {p} : q[r][o] = <<>>

(***************************************************************************)
(* wait_completion may ignore wr_id and qp_num, and the queues' capacities *)
(* (64 requests, 128 completions) need no check, because a rank never has  *)
(* more than one send and one receive in the hands of its adapter, counted *)
(* over all QPs and from the post to the poll.  transport.hpp says that    *)
(* the ring pipelines its sends, unsignaled; it does not: every send is    *)
(* signaled and waited for.                                                *)
(***************************************************************************)
OneOutstanding ==
  \A r \in Rank : AtMostOne(sq, send_cq, r) /\ AtMostOne(rq, recv_cq, r)

(***************************************************************************)
(* "Fails loudly instead of silently corrupting memory" (test/             *)
(* integration_mismatched_scratch.cc): whatever the ranks pass, elements   *)
(* of data from count on and elements of scratch from its capacity on are  *)
(* never written.                                                          *)
(***************************************************************************)
MemorySafe ==
  \A r \in Rank, e \in Index :
    /\ e >= args[r].count => mem[r]["data"][e] = Zero
    /\ e >= args[r].scratch => mem[r]["scratch"][e] = Zero

(* Calls of r that have returned.                                          *)
Outside(r) == pc[r] \in {"idle", "finished"}

returns(r) == IF Outside(r) THEN round[r] ELSE round[r] - 1

(***************************************************************************)
(* Nothing but the data flow separates two calls: still, when one rank has *)
(* returned from its k-th call every rank has made its k-th call, unless   *)
(* there is nothing to reduce.                                             *)
(***************************************************************************)
CollectiveSync ==
  SameCount /\ P > 1 =>
    \A r, s \in Rank : args[r].count > 0 => returns(r) <= round[s]

KeepsSendBuffers ==
  \A r, p \in Rank : \A i \in 1 .. Len(sq[r][p]) :
    sq'[r][p] = sq[r][p] =>
      \A x \in Region(sq[r][p][i]) : mem'[r][x[1]][x[2]] = mem[r][x[1]][x[2]]

(***************************************************************************)
(* Data handed to the adapter stays as it is until its completion is out:  *)
(* no step of a rank (refill, reduce_inplace) and no incoming message      *)
(* changes an element of a send that is outstanding.                       *)
(***************************************************************************)
SendBufferStable == [][KeepsSendBuffers]_vars

KeepsResults ==
  \A r \in Rank : Outside(r) /\ round'[r] = round[r] => mem'[r] = mem[r]

(***************************************************************************)
(* Once allreduce_ring has returned, the buffers belong to the caller: no  *)
(* late message writes to them before the next call, or after the last     *)
(* one.                                                                    *)
(***************************************************************************)
ResultStable == [][KeepsResults]_vars

(***************************************************************************)
(* No set of ranks waits on each other for ever: with legal arguments      *)
(* every rank returns from every call.                                     *)
(***************************************************************************)
AllReturn ==
  WellCalled /\ ~Teardown => <>(\A r \in Rank : returns(r) = MaxRounds)

(***************************************************************************)
(* A rank that returns from the last call and destroys its Communicator at *)
(* once, with no barrier, can make its predecessor's send fail, whose exit *)
(* can make the next one's fail, and so on around the ring: an agreeing    *)
(* rank may throw, but only in the last call and, if no chunk is empty,    *)
(* only in its allgather, when the rank's contribution is in and the chunk *)
(* it reduces is final.                                                    *)
(***************************************************************************)
OnlyLastAllgatherFails ==
  WellCalled => \A r \in Rank : pc[r] \in {"threw", "exited"} =>
    /\ round[r] = MaxRounds
    /\ args[r].count >= P =>
         /\ phase[r] = 2
         /\ \A e \in Index : InChunk(r, mod_p(r + 1), e) =>
              mem[r]["data"][e] = RingFold(mod_p(r + 1), MaxRounds, e)[P - 1]

(***************************************************************************)
(* ... and everybody stops: nobody is left polling for a completion that   *)
(* never comes when the Communicators go one after the other.              *)
(***************************************************************************)
AllStop ==
  WellCalled /\ Teardown => <>(\A r \in Rank : pc[r] \in {"exited", "finished"})

(***************************************************************************)
(* What the ring promises, without the ring: the reduction of element e is *)
(* the fold that starts at the rank whose number is that of e's chunk.     *)
(***************************************************************************)
RingReduction(n, it, e) ==
  LET home == CHOOSE c \in Rank :
                e \in chunk_offset(n, P, c) .. chunk_offset(n, P, c + 1) - 1
  IN  RingFold(home, it, e)[P - 1]

(* What a rank was handed and still owns.                                  *)
handed(r) ==
  IF Outside(r) /\ round[r] > 0
  THEN [e \in 0 .. args[r].count - 1 |-> mem[r]["data"][e]]
  ELSE <<>>

Promise == INSTANCE Allreduce WITH
  Reduction <- RingReduction,
  count <- args[0].count,
  entered <- round,
  left <- [r \in Rank |-> returns(r)],
  result <- [r \in Rank |-> handed(r)]

ImplementsAllreduce == Promise!Spec
=============================================================================
