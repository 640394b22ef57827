-------------------------- MODULE RecursiveDoubling -------------------------
(***************************************************************************)
(* allreduce_recursive_doubling (src/collectives/                          *)
(* allreduce_recursive_doubling.cc), called MaxRounds times in a row by P  *)
(* ranks, as the timing loop of bench/bench_allreduce.cc does.  In step k  *)
(* a rank exchanges its whole buffer with rank R XOR 2^k and folds what it *)
(* got into its own.  Over the rounds of one call a rank talks to several  *)
(* peers, all of whose completions arrive in its two shared queues.  After *)
(* the last call the benchmark leaves main, with no barrier.               *)
(***************************************************************************)
EXTENDS Transport

CONSTANTS
  Calls,           \* set of argument vectors: Calls \subseteq [Rank -> Arg]
  MaxRounds,       \* bound on the calls each rank makes
  Op(_, _),        \* reduce_inplace on one element: dst, src |-> dst
  Input(_, _, _),  \* Input(r, k, e): what rank r fills element e with in round k
  Zero             \* what the buffers hold before

ASSUME MaxRoundsAssumption == MaxRounds \in Nat

Arg == [count : Nat, mr : 0 .. Span, scratch : 0 .. Span]

ASSUME CallsAssumption == Calls \subseteq [Rank -> Arg]

VARIABLES
  args,    \* args[r]: the arguments rank r calls with, every time
  round,   \* round[r]: calls made so far
  step,    \* step[r]: the loop variable
  pc       \* pc[r]: where rank r stands

ctl == <<args, round, step, pc>>
vars == <<args, round, step, pc, mem, nic>>

-----------------------------------------------------------------------------
(* 1 << k.                                                                 *)
bit[k \in 0 .. P] == IF k = 0 THEN 1 ELSE 2 * bit[k - 1]

(* p & (p - 1) is 0 exactly for the powers of two; steps is their exponent. *)
is_power_of_two == \E k \in 0 .. P : bit[k] = P
steps == CHOOSE k \in 0 .. P : bit[k] = P

(* Bug: the same partner in every step.                                    *)
partner_Same(r, st) == IF r % 2 = 0 THEN r + 1 ELSE r - 1

(* Bug: the rank at this distance around a ring.                           *)
partner_Shift(r, st) == (r + bit[st]) % P

(* R ^ (1 << step): bit number step is flipped.                            *)
partner(r, st) == IF (r \div bit[st]) % 2 = 0 THEN r + bit[st] ELSE r - bit[st]

(* Sizes are compared in elements.  count * elem_size is a size_t: a count *)
(* for which it wraps is larger than any scratch there can be.             *)
bad_arguments(r) ==
  \/ args[r].count > args[r].mr
  \/ ~is_power_of_two
  \/ P > 1 /\ args[r].scratch < args[r].count

Init ==
  /\ args \in Calls
  /\ round = [r \in Rank |-> 0]
  /\ step = [r \in Rank |-> 0]
  /\ pc = [r \in Rank |-> "idle"]
  /\ mem = [r \in Rank |-> [b \in Buffer |-> [e \in Index |-> Zero]]]
  /\ TransportInit

Call(r) ==
  /\ pc[r] = "idle" /\ round[r] < MaxRounds
  /\ round' = [round EXCEPT ![r] = @ + 1]
  /\ mem' = [s \in Rank |-> [b \in Buffer |-> [e \in Index |->
               IF s = r /\ b = "data" /\ e < args[r].count /\ e < args[r].mr
               THEN Input(r, round[r] + 1, e) ELSE mem[s][b][e]]]]
  /\ step' = [step EXCEPT ![r] = 0]
  /\ pc' = [pc EXCEPT ![r] = IF bad_arguments(r) THEN "threw"
                             ELSE IF P = 1 THEN "idle" ELSE "post_recv"]
  /\ UNCHANGED <<args, nic>>

PostRecv(r) ==
  /\ pc[r] = "post_recv"
  /\ pc' = [pc EXCEPT ![r] = "post_send"]
  /\ post_recv(r, partner(r, step[r]), "scratch", 0, args[r].count)
  /\ UNCHANGED <<args, round, step, mem, qp, sq, response, send_cq, recv_cq>>

PostSend(r) ==
  /\ pc[r] = "post_send"
  /\ pc' = [pc EXCEPT ![r] = "wait_send"]
  /\ post_send(r, partner(r, step[r]), "data", 0, args[r].count)
  /\ UNCHANGED <<args, round, step, mem, qp, rq, response, send_cq, recv_cq>>

(* Bug: a send is not waited for.                                          *)
WaitSend_NotAwaited(r) ==
  /\ pc[r] = "wait_send"
  /\ pc' = [pc EXCEPT ![r] = "wait_recv"]
  /\ UNCHANGED <<args, round, step, mem, nic>>

WaitSend(r) ==
  /\ pc[r] = "wait_send" /\ completed(send_cq, r)
  /\ pc' = [pc EXCEPT ![r] = "wait_recv"]
  /\ send_cq' = take(send_cq, r)
  /\ UNCHANGED <<args, round, step, mem, qp, sq, rq, response, recv_cq>>

received(r) == completed(recv_cq, r) /\ wc(recv_cq, r).byte_len = args[r].count

last_step(r) == step[r] + 1 = steps

(* Bug: scratch is reduced before anything has arrived.                    *)
WaitRecv_NotAwaited(r) ==
  /\ pc[r] = "wait_recv"
  /\ mem' = [s \in Rank |-> [b \in Buffer |-> [e \in Index |->
               IF s = r /\ b = "data" /\ e < args[r].count
               THEN Op(mem[r]["data"][e], mem[r]["scratch"][e])
               ELSE mem[s][b][e]]]]
  /\ step' = [step EXCEPT ![r] = IF last_step(r) THEN 0 ELSE @ + 1]
  /\ pc' = [pc EXCEPT ![r] = IF last_step(r) THEN "idle" ELSE "post_recv"]
  /\ UNCHANGED <<args, round, nic>>

(* reduce_inplace(data, scratch, count) and the end of the loop body.      *)
WaitRecv(r) ==
  LET last == last_step(r)
  IN  /\ pc[r] = "wait_recv" /\ received(r)
      /\ recv_cq' = take(recv_cq, r)
      /\ mem' = [s \in Rank |-> [b \in Buffer |-> [e \in Index |->
                   IF s = r /\ b = "data" /\ e < args[r].count
                   THEN Op(mem[r]["data"][e], mem[r]["scratch"][e])
                   ELSE mem[s][b][e]]]]
      /\ step' = [step EXCEPT ![r] = IF last THEN 0 ELSE @ + 1]
      /\ pc' = [pc EXCEPT ![r] = IF last THEN "idle" ELSE "post_recv"]
      /\ UNCHANGED <<args, round, qp, sq, rq, response, send_cq>>

Throw(r) ==
  /\ \/ /\ pc[r] = "wait_send" /\ completion_error(send_cq, r)
        /\ send_cq' = take(send_cq, r) /\ UNCHANGED recv_cq
     \/ /\ pc[r] = "wait_recv"
        /\ \/ completion_error(recv_cq, r)
           \/ completed(recv_cq, r) /\ ~received(r)
        /\ recv_cq' = take(recv_cq, r) /\ UNCHANGED send_cq
  /\ pc' = [pc EXCEPT ![r] = "threw"]
  /\ UNCHANGED <<args, round, step, mem, qp, sq, rq, response>>

Exit(r) ==
  /\ pc[r] = "threw"
  /\ pc' = [pc EXCEPT ![r] = "exited"]
  /\ destroy(r)
  /\ UNCHANGED <<args, round, step, mem>>

(* Bug: the Communicator goes when the rank is idle.                       *)
Finish_Early(r) ==
  /\ pc[r] = "idle"
  /\ pc' = [pc EXCEPT ![r] = "finished"]
  /\ destroy(r)
  /\ UNCHANGED <<args, round, step, mem>>

(* main is left after the last call, with no barrier before it.            *)
Finish(r) ==
  /\ pc[r] = "idle" /\ round[r] = MaxRounds
  /\ pc' = [pc EXCEPT ![r] = "finished"]
  /\ destroy(r)
  /\ UNCHANGED <<args, round, step, mem>>

Work(r) ==
  \/ Call(r) \/ PostRecv(r) \/ PostSend(r) \/ WaitSend(r) \/ WaitRecv(r)
  \/ Throw(r) \/ Exit(r)

RankStep(r) == Work(r) \/ Finish(r)

Nic(s, d) == AdapterStep(s, d) /\ UNCHANGED ctl

Terminating ==
  /\ \A r \in Rank : \/ pc[r] \in {"exited", "finished"}
                     \/ pc[r] = "idle" /\ round[r] = MaxRounds
  /\ UNCHANGED vars

Next ==
  \/ \E r \in Rank : RankStep(r)
  \/ \E s, d \in Rank : Nic(s, d)
  \/ Terminating

(* A rank works until it returns or throws.  When it leaves main is up to  *)
(* its program, which may have something else to do.                       *)
Fairness ==
  /\ \A r \in Rank : WF_vars(Work(r))
  /\ \A s, d \in Rank : WF_vars(Nic(s, d))

Spec == Init /\ [][Next]_vars
FairSpec == Spec /\ Fairness

-----------------------------------------------------------------------------
SameCount == \A r, s \in Rank : args[r].count = args[s].count

WellCalled ==
  SameCount /\ \A r \in Rank : ~bad_arguments(r) /\ args[r].count < SgeLimit

(* The byte_len a rank checks tells it the count of its partner: always,   *)
(* but for counts that differ by 4 GiB, which ibv_sge.length does not      *)
(* distinguish.                                                            *)
LengthsTell == SameCount \/ \A r \in Rank : args[r].count < SgeLimit

Outside(r) == pc[r] \in {"idle", "finished"}

Returned(r) == Outside(r) /\ round[r] > 0

(* What rank r holds of element e of round it before step k: the tree of   *)
(* the 2^k ranks that agree with r from bit k on, r's own branch first.    *)
Tree(it, e) ==
  LET fold[k \in 0 .. steps] ==
        IF k = 0 THEN [r \in Rank |-> Input(r, it, e)]
        ELSE [r \in Rank |-> Op(fold[k - 1][r], fold[k - 1][partner(r, k - 1)])]
  IN  fold

TreeFold(it, e) == Tree(it, e)[steps]

(***************************************************************************)
(* "Each rank already ends up with the complete answer" (allreduce_        *)
(* recursive_doubling.hpp): ranks that have returned from the same call    *)
(* hold the same data, bit for bit.                                        *)
(***************************************************************************)
SameAnswer ==
  SameCount =>
    \A r, s \in Rank : Returned(r) /\ Returned(s) /\ round[r] = round[s] =>
      \A e \in Index : e < args[r].count => mem[r]["data"][e] = mem[s]["data"][e]

Left == \E r \in Rank : pc[r] = "finished"

(***************************************************************************)
(* While all Communicators live, agreeing ranks with legal buffers never   *)
(* see an exception.  A rank that leaves main after its last call takes    *)
(* with it an acknowledgement its partner of any step still waits for, and *)
(* the exit of that partner makes the sends of others fail: so a rank may  *)
(* throw once another has left, but only in the last call, and at the wait *)
(* for a send.  A rank that gets past that wait is always handed what its  *)
(* partner sent.                                                           *)
(***************************************************************************)
OnlyLastCallThrows ==
  WellCalled => \A r \in Rank :
    /\ pc[r] \in {"threw", "exited"} => Left /\ round[r] = MaxRounds
    /\ pc[r] = "wait_recv" /\ recv_cq[r] # <<>> => received(r)

AtMostOne(q, cq, r) ==
  /\ Len(cq[r]) <= 1
  /\ \A p \in Rank : q[r][p] # <<>> =>
       /\ Len(q[r][p]) = 1 /\ cq[r] = <<>>
       /\ \A o \in Rank \ {p} : q[r][o] = <<>>

(***************************************************************************)
(* A completion can only be the one that is waited for: a rank never has   *)
(* more than one send and one receive outstanding or unpolled, whichever   *)
(* of its partners they belong to.                                         *)
(***************************************************************************)
OneOutstanding ==
  \A r \in Rank : AtMostOne(sq, send_cq, r) /\ AtMostOne(rq, recv_cq, r)

(***************************************************************************)
(* A call that the ranks do not agree on, or that one of them makes with   *)
(* illegal buffers, succeeds nowhere: a result needs every rank, and of    *)
(* two partners that disagree neither gets past the exchange, unless the   *)
(* counts differ by a multiple of what a length can hold.                  *)
(***************************************************************************)
FailsEverywhere ==
  LengthsTell /\ (~SameCount \/ \E r \in Rank : bad_arguments(r)) =>
    \A r \in Rank : ~Returned(r)

(***************************************************************************)
(* The exchanges never wait on each other in a cycle, and nobody polls for *)
(* ever when Communicators go: with legal arguments every rank returns     *)
(* from every call, but for those that throw in the last one because       *)
(* another has left (OnlyLastCallThrows).                                  *)
(***************************************************************************)
AllReturn ==
  WellCalled =>
    <>(\A r \in Rank : round[r] = MaxRounds /\ (Outside(r) \/ pc[r] = "exited"))

TreeReduction(n, it, e) == TreeFold(it, e)[0]

(* The calls r has returned from, and the data it was handed and owns.     *)
returns(r) == IF Outside(r) THEN round[r] ELSE round[r] - 1

handed(r) ==
  IF Returned(r) THEN [e \in 0 .. args[r].count - 1 |-> mem[r]["data"][e]] ELSE <<>>

Promise == INSTANCE Allreduce WITH
  Reduction <- TreeReduction,
  count <- args[0].count,
  entered <- round,
  left <- [r \in Rank |-> returns(r)],
  result <- [r \in Rank |-> handed(r)]

(***************************************************************************)
(* What recursive doubling promises, without the exchanges: the abstract   *)
(* allreduce, for any reduction whose value does not depend on the rank    *)
(* that computes it.  This is its safe part, which callers that fail or,   *)
(* where LengthsTell, disagree cannot break either; AllReturn is the rest. *)
(***************************************************************************)
ImplementsAllreduce == Promise!Safe
=============================================================================
