------------------------ MODULE AllreduceRingProofs -------------------------
(***************************************************************************)
(* The arithmetic of the ring, type correctness and the queue discipline   *)
(* of allreduce_ring, for every number of ranks, every set of calls, every *)
(* number of rounds and every reduction.                                   *)
(***************************************************************************)
EXTENDS AllreduceRingInv, ChunkLemmas, TransportLemmas

-----------------------------------------------------------------------------
(* Arithmetic of the ring.                                                 *)

(***************************************************************************)
(* The wrap-around lambda mod_p on the arguments it is called with.        *)
(***************************************************************************)
LEMMA ModP ==
  ASSUME NEW x \in Int, -(2 * P) <= x, x < 2 * P
  PROVE  /\ mod_p(x) \in Rank
         /\ x < -P => mod_p(x) = x + 2 * P
         /\ -P <= x /\ x < 0 => mod_p(x) = x + P
         /\ 0 <= x /\ x < P => mod_p(x) = x
         /\ P <= x => mod_p(x) = x - P
<1>1. P \in Nat \ {0}
  BY PAssumption
<1>2. x % P \in 0 .. P - 1 /\ ((x % P) + P) % P = x % P
  BY <1>1
<1>3. /\ x < -P => x % P = x + 2 * P
      /\ -P <= x /\ x < 0 => x % P = x + P
      /\ 0 <= x /\ x < P => x % P = x
      /\ P <= x => x % P = x - P
  BY <1>1
<1> QED
  BY <1>1, <1>2, <1>3 DEF mod_p, Rank

(***************************************************************************)
(* The ring: the successor's predecessor is the rank itself, and nobody is *)
(* his own neighbour.                                                      *)
(***************************************************************************)
LEMMA Neighbours ==
  ASSUME NEW r \in Rank
  PROVE  /\ send_to(r) \in Rank /\ recv_from(r) \in Rank
         /\ recv_from(send_to(r)) = r /\ send_to(recv_from(r)) = r
         /\ P > 1 => send_to(r) # r /\ recv_from(r) # r
<1>1. P \in Nat \ {0} /\ r \in Int /\ 0 <= r /\ r < P
  BY PAssumption DEF Rank
<1>2. send_to(r) = IF r + 1 < P THEN r + 1 ELSE 0
  BY <1>1, ModP DEF send_to
<1>3. recv_from(r) = IF r = 0 THEN P - 1 ELSE r - 1
  BY <1>1, ModP DEF recv_from
<1>4. recv_from(send_to(r)) = r
  <2>1. CASE r + 1 < P
    BY <1>1, <1>2, <2>1, ModP DEF recv_from
  <2>2. CASE r + 1 = P
    BY <1>1, <1>2, <2>2, ModP DEF recv_from
  <2> QED BY <2>1, <2>2, <1>1
<1>5. send_to(recv_from(r)) = r
  <2>1. CASE r = 0
    BY <1>1, <1>3, <2>1, ModP DEF send_to
  <2>2. CASE r # 0
    BY <1>1, <1>3, <2>2, ModP DEF send_to
  <2> QED BY <2>1, <2>2
<1> QED
  BY <1>1, <1>2, <1>3, <1>4, <1>5 DEF Rank

(***************************************************************************)
(* What rank r sends at a position is what its successor receives there.   *)
(***************************************************************************)
LEMMA SameChunk ==
  ASSUME NEW r \in Rank, NEW g \in Position
  PROVE  /\ sends(r, g) \in Rank /\ receives(r, g) \in Rank
         /\ receives(send_to(r), g) = sends(r, g)
<1>1. P \in Nat \ {0} /\ r \in Int /\ 0 <= r /\ r < P /\ g \in Int /\ 0 <= g /\ g <= 2 * P - 3
  BY PAssumption DEF Rank, Position
<1>2. send_to(r) = IF r + 1 < P THEN r + 1 ELSE 0
  BY <1>1, ModP DEF send_to
<1>3. CASE r + 1 < P
  BY <1>1, <1>2, <1>3, ModP DEF sends, receives
<1>4. CASE r + 1 = P
  <2>1. sends(r, g) = mod_p(P - 1 - g) /\ receives(0, g) = mod_p(-1 - g)
    BY <1>1, <1>4 DEF sends, receives
  <2>2. mod_p(P - 1 - g) = mod_p(-1 - g)
    <3>1. CASE g < P
      BY <1>1, <3>1, ModP
    <3>2. CASE g >= P
      BY <1>1, <3>2, ModP
    <3> QED BY <3>1, <3>2, <1>1
  <2> QED
    BY <1>1, <1>2, <1>4, <2>1, <2>2, ModP DEF sends, receives
<1> QED
  BY <1>1, <1>3, <1>4

(***************************************************************************)
(* The two loops are one sequence of positions.                            *)
(***************************************************************************)
LEMMA Positions ==
  ASSUME NEW r \in Rank, phase[r] \in {1, 2}, step[r] \in Nat, step[r] < P - 1
  PROVE  /\ pos(r) \in Position
         /\ send_index(r, phase[r], step[r]) = sends(r, pos(r))
         /\ recv_index(r, phase[r], step[r]) = receives(r, pos(r))
<1>1. P \in Nat \ {0} /\ r \in Int /\ 0 <= r /\ r < P
  BY PAssumption DEF Rank
<1>2. CASE phase[r] = 1
  BY <1>1, <1>2 DEF pos, Position, send_index, recv_index, sends, receives
<1>3. CASE phase[r] = 2
  <2> DEFINE s == step[r]
  <2>1. s \in Nat /\ s < P - 1 /\ pos(r) = P - 1 + s
    BY <1>3 DEF pos
  <2> HIDE DEF s
  <2>2. mod_p(r - (P - 1 + s)) = mod_p(r - s + 1)
    <3>1. CASE r - s + 1 < 0
      BY <1>1, <2>1, <3>1, ModP
    <3>2. CASE r - s + 1 >= 0 /\ r - s + 1 < P
      BY <1>1, <2>1, <3>2, ModP
    <3>3. CASE r - s + 1 >= P
      BY <1>1, <2>1, <3>3, ModP
    <3> QED BY <3>1, <3>2, <3>3, <1>1, <2>1
  <2>3. mod_p(r - (P - 1 + s) - 1) = mod_p(r - s)
    <3>1. CASE r - s < 0
      BY <1>1, <2>1, <3>1, ModP
    <3>2. CASE r - s >= 0
      BY <1>1, <2>1, <3>2, ModP
    <3> QED BY <3>1, <3>2, <1>1, <2>1
  <2> QED
    BY <1>1, <1>3, <2>1, <2>2, <2>3 DEF Position, send_index, recv_index, sends, receives, s
<1> QED
  BY <1>2, <1>3

(***************************************************************************)
(* Distances: chunk c meets rank r at distance D = r - c (mod P), as the   *)
(* chunk received at positions D - 1 and P - 1 + D, and as the chunk sent  *)
(* at positions D and P + D.                                               *)
(***************************************************************************)
LEMMA Distance ==
  ASSUME NEW r \in Rank, NEW c \in Rank
  PROVE  /\ mod_p(r - c) \in 0 .. P - 1
         /\ mod_p(c + mod_p(r - c)) = r
         /\ \A g \in Position :
              /\ receives(r, g) = c <=> g = mod_p(r - c) - 1 \/ g = P - 1 + mod_p(r - c)
              /\ sends(r, g) = c <=> g = mod_p(r - c) \/ g = P + mod_p(r - c)
<1>1. /\ P \in Nat \ {0} /\ r \in Int /\ 0 <= r /\ r < P
      /\ c \in Int /\ 0 <= c /\ c < P
  BY PAssumption DEF Rank
<1>2. mod_p(r - c) = IF r - c < 0 THEN r - c + P ELSE r - c
  BY <1>1, ModP
<1>3. mod_p(c + mod_p(r - c)) = r
  <2>1. CASE r - c < 0
    BY <1>1, <1>2, <2>1, ModP
  <2>2. CASE r - c >= 0
    BY <1>1, <1>2, <2>2, ModP
  <2> QED BY <2>1, <2>2, <1>1
<1>4. ASSUME NEW g \in Position
      PROVE  /\ receives(r, g) = c <=> g = mod_p(r - c) - 1 \/ g = P - 1 + mod_p(r - c)
             /\ sends(r, g) = c <=> g = mod_p(r - c) \/ g = P + mod_p(r - c)
  <2>1. g \in Int /\ 0 <= g /\ g <= 2 * P - 3
    BY <1>1, <1>4 DEF Position
  <2>2. sends(r, g) = IF r - g < -P THEN r - g + 2 * P
                      ELSE IF r - g < 0 THEN r - g + P ELSE r - g
    BY <1>1, <2>1, ModP DEF sends
  <2>3. receives(r, g) = IF r - g - 1 < -P THEN r - g - 1 + 2 * P
                         ELSE IF r - g - 1 < 0 THEN r - g - 1 + P ELSE r - g - 1
    BY <1>1, <2>1, ModP DEF receives
  <2> QED
    BY <1>1, <1>2, <2>1, <2>2, <2>3
<1> QED
  BY <1>1, <1>2, <1>3, <1>4

-----------------------------------------------------------------------------
(* The reference value.                                                    *)

(***************************************************************************)
(* RingFold is the left-to-right fold its definition describes: there is a *)
(* function that satisfies the recursion, by a least counterexample.       *)
(***************************************************************************)
LEMMA RingFoldDef ==
  ASSUME NEW c, NEW it, NEW e
  PROVE  /\ RingFold(c, it, e)[0] = Input(c, it, e)
         /\ \A k \in 1 .. P - 1 :
              RingFold(c, it, e)[k] =
                Op(Input(mod_p(c + k), it, e), RingFold(c, it, e)[k - 1])
<1> DEFINE body(f, k) == IF k = 0 THEN Input(c, it, e)
                         ELSE Op(Input(mod_p(c + k), it, e), f[k - 1])
           Good(n) == \E f : \A k \in 0 .. n : f[k] = body(f, k)
           T == {n \in Nat : ~Good(n)}
<1>1. T = {}
  <2> SUFFICES ASSUME T # {} PROVE FALSE
    OBVIOUS
  <2>1. PICK n \in T : \A m \in T : n <= m
    <3>1. T \subseteq Nat
      OBVIOUS
    <3> HIDE DEF T
    <3> QED BY <3>1, Least
  <2>2. CASE n = 0
    <3> DEFINE f == [k \in 0 .. 0 |-> Input(c, it, e)]
    <3>1. \A k \in 0 .. 0 : f[k] = body(f, k)
      OBVIOUS
    <3>2. Good(0)
      BY <3>1
    <3> QED BY <2>2, <3>2
  <2>3. CASE n # 0
    <3>1. n - 1 \in Nat /\ n \in Nat /\ ~(n <= n - 1)
      BY <2>3
    <3>2. Good(n - 1)
      BY <3>1, <2>1
    <3>3. PICK h : \A k \in 0 .. n - 1 : h[k] = body(h, k)
      BY <3>2
    <3> DEFINE f == [k \in 0 .. n |-> IF k = n THEN body(h, n) ELSE h[k]]
    <3>4. \A k \in 0 .. n - 1 : f[k] = h[k]
      BY <3>1
    <3>5. \A k \in 0 .. n : body(f, k) = body(h, k)
      BY <3>1, <3>4
    <3>6. \A k \in 0 .. n : f[k] = body(f, k)
      BY <3>1, <3>3, <3>5
    <3>7. Good(n)
      BY <3>6
    <3> QED BY <3>7
  <2> QED BY <2>2, <2>3
<1>2. P - 1 \in Nat
  BY PAssumption
<1>3. PICK h : \A k \in 0 .. P - 1 : h[k] = body(h, k)
  BY <1>1, <1>2
<1>4. \E f : f = [k \in 0 .. P - 1 |-> body(f, k)]
  <2> DEFINE f == [k \in 0 .. P - 1 |-> h[k]]
  <2>1. \A k \in 0 .. P - 1 : body(f, k) = body(h, k)
    BY <1>2
  <2>2. f = [k \in 0 .. P - 1 |-> body(f, k)]
    BY <1>3, <2>1
  <2> QED BY <2>2
<1>5. RingFold(c, it, e) = [k \in 0 .. P - 1 |-> body(RingFold(c, it, e), k)]
  BY <1>4, Zenon DEF RingFold
<1> HIDE DEF Good, T
<1> QED
  BY <1>2, <1>5

-----------------------------------------------------------------------------
(* The chunks of a rank.                                                   *)

(***************************************************************************)
(* mod_p always yields a rank.                                             *)
(***************************************************************************)
LEMMA ModPRank ==
  ASSUME NEW x \in Int
  PROVE  mod_p(x) \in Rank
BY PAssumption DEF mod_p, Rank

(***************************************************************************)
(* The chunks of a rank lie in the count elements it passed, and max_chunk *)
(* is what it is called.                                                   *)
(***************************************************************************)
LEMMA ChunkInData ==
  ASSUME args \in [Rank -> Arg], NEW r \in Rank, NEW c \in Rank
  PROVE  /\ args[r].count \in Nat /\ args[r].mr \in 0 .. Span /\ args[r].scratch \in 0 .. Span
         /\ chunk(r, c).offset \in Nat /\ chunk(r, c).count \in Nat
         /\ chunk(r, c).offset + chunk(r, c).count <= args[r].count
         /\ max_chunk_elems(r) \in Nat
         /\ chunk(r, c).count <= max_chunk_elems(r)
<1>1. P \in Nat \ {0} /\ c \in Nat /\ c < P /\ 0 \in Nat /\ 0 < P
  BY PAssumption DEF Rank
<1>2. args[r].count \in Nat /\ args[r].mr \in 0 .. Span /\ args[r].scratch \in 0 .. Span
  BY DEF Arg
<1> DEFINE n == args[r].count
<1>3. n \in Nat
  BY <1>2
<1> HIDE DEF n
<1>4. /\ chunk_offset(n, P, c) \in Nat /\ chunk_count(n, P, c) \in Nat
      /\ chunk_offset(n, P, c) + chunk_count(n, P, c) <= n
      /\ chunk_count(n, P, 0) \in Nat
      /\ chunk_count(n, P, c) <= chunk_count(n, P, 0)
  BY <1>1, <1>3, ChunkStep, ChunkBounds
<1> QED
  BY <1>2, <1>4 DEF chunk, max_chunk_elems, n

(***************************************************************************)
(* Two chunks of a rank share no element.                                  *)
(***************************************************************************)
LEMMA ChunksDisjoint ==
  ASSUME args \in [Rank -> Arg], NEW r \in Rank, NEW c \in Rank, NEW d \in Rank,
         NEW e \in Int, InChunk(r, c, e), InChunk(r, d, e)
  PROVE  c = d
<1>1. P \in Nat \ {0} /\ c \in Nat /\ c < P /\ d \in Nat /\ d < P
  BY PAssumption DEF Rank
<1> DEFINE n == args[r].count
<1>2. n \in Nat
  BY DEF Arg
<1>3. /\ e \in chunk_offset(n, P, c) .. chunk_offset(n, P, c) + chunk_count(n, P, c) - 1
      /\ e \in chunk_offset(n, P, d) .. chunk_offset(n, P, d) + chunk_count(n, P, d) - 1
  BY DEF InChunk, chunk
<1> HIDE DEF n
<1>4. /\ chunk_offset(n, P, c) \in Nat /\ chunk_count(n, P, c) \in Nat
      /\ chunk_offset(n, P, d) \in Nat /\ chunk_count(n, P, d) \in Nat
  BY <1>1, <1>2, ChunkStep
<1>5. c < d => chunk_offset(n, P, c) + chunk_count(n, P, c) <= chunk_offset(n, P, d)
  BY <1>1, <1>2, ChunkBounds
<1>6. d < c => chunk_offset(n, P, d) + chunk_count(n, P, d) <= chunk_offset(n, P, c)
  BY <1>1, <1>2, ChunkBounds
<1> QED
  BY <1>1, <1>3, <1>4, <1>5, <1>6

(***************************************************************************)
(* The chunk a rank sends and the chunk it receives are chunks.            *)
(***************************************************************************)
LEMMA StepChunks ==
  ASSUME TypeOK, NEW r \in Rank
  PROVE  /\ send_index(r, phase[r], step[r]) \in Rank
         /\ recv_index(r, phase[r], step[r]) \in Rank
         /\ send_chunk(r).offset \in Nat /\ send_chunk(r).count \in Nat
         /\ send_chunk(r).offset + send_chunk(r).count <= args[r].count
         /\ recv_chunk(r).offset \in Nat /\ recv_chunk(r).count \in Nat
         /\ recv_chunk(r).offset + recv_chunk(r).count <= args[r].count
         /\ recv_chunk(r).count <= max_chunk_elems(r)
<1>1. args \in [Rank -> Arg] /\ step[r] \in Int /\ r \in Int
  BY PAssumption DEF TypeOK, Rank
<1>2. /\ send_index(r, phase[r], step[r]) \in Rank
      /\ recv_index(r, phase[r], step[r]) \in Rank
  BY <1>1, ModPRank DEF send_index, recv_index
<1> QED
  BY <1>1, <1>2, ChunkInData DEF send_chunk, recv_chunk

-----------------------------------------------------------------------------
(* Types.                                                                  *)

(***************************************************************************)
(* Every step of a rank or of an adapter keeps the types.                  *)
(***************************************************************************)
LEMMA TypeStep == TypeOK /\ [Next]_vars => TypeOK'
<1> SUFFICES ASSUME TypeOK, [Next]_vars PROVE TypeOK'
  OBVIOUS
<1> USE DEF TypeOK, TransportTypeOK
<1>1. ASSUME NEW r \in Rank, Call(r) PROVE TypeOK'
  <2>1. round[r] + 1 \in 0 .. MaxRounds
    BY <1>1, MaxRoundsAssumption DEF Call
  <2> QED
    BY <1>1, <2>1 DEF Call, nic
<1>2. ASSUME NEW r \in Rank, PostRecv(r) PROVE TypeOK'
  <2>1. recv_from(r) \in Rank
    BY Neighbours
  <2>2. /\ sge("scratch", 0, recv_chunk(r).count) \in WorkRequest
        /\ sge("data", recv_chunk(r).offset, recv_chunk(r).count) \in WorkRequest
    BY SgeType, StepChunks DEF Buffer
  <2>3. rq' \in [Rank -> [Rank -> Seq(WorkRequest)]]
    <3>1. CASE rq' = rq
      BY <3>1
    <3>2. CASE post_recv(r, recv_from(r), "scratch", 0, recv_chunk(r).count)
      BY <2>1, <2>2, <3>2, WorkQueueType DEF post_recv
    <3>3. CASE post_recv(r, recv_from(r), "data", recv_chunk(r).offset, recv_chunk(r).count)
      BY <2>1, <2>2, <3>3, WorkQueueType DEF post_recv
    <3> QED
      BY <1>2, <3>1, <3>2, <3>3 DEF PostRecv
  <2> QED
    BY <1>2, <2>3 DEF PostRecv
<1>3. ASSUME NEW r \in Rank, PostSend(r) PROVE TypeOK'
  <2>1. send_to(r) \in Rank
    BY Neighbours
  <2>2. sge("data", send_chunk(r).offset, send_chunk(r).count) \in WorkRequest
    BY SgeType, StepChunks DEF Buffer
  <2>3. sq' \in [Rank -> [Rank -> Seq(WorkRequest)]]
    <3>1. CASE sq' = sq
      BY <3>1
    <3>2. CASE post_send(r, send_to(r), "data", send_chunk(r).offset, send_chunk(r).count)
      BY <2>1, <2>2, <3>2, WorkQueueType DEF post_send
    <3> QED
      BY <1>3, <3>1, <3>2 DEF PostSend
  <2> QED
    BY <1>3, <2>3 DEF PostSend
<1>4. ASSUME NEW r \in Rank, WaitSend(r) PROVE TypeOK'
  <2>1. send_cq' \in [Rank -> Seq(Completion)]
    <3>1. CASE send_cq' = send_cq
      BY <3>1
    <3>2. CASE send_cq[r] # <<>> /\ send_cq' = take(send_cq, r)
      BY <3>2, TakeType
    <3> QED
      BY <1>4, <3>1, <3>2 DEF WaitSend, completed
  <2> QED
    BY <1>4, <2>1 DEF WaitSend
<1>5. ASSUME NEW r \in Rank, WaitRecv(r) PROVE TypeOK'
  <2>1. recv_cq' \in [Rank -> Seq(Completion)]
    <3>1. CASE recv_cq' = recv_cq
      BY <3>1
    <3>2. CASE recv_cq[r] # <<>> /\ recv_cq' = take(recv_cq, r)
      BY <3>2, TakeType
    <3> QED
      BY <1>5, <3>1, <3>2 DEF WaitRecv, received, completed
  <2>2. \A s \in Rank, b \in Buffer : DOMAIN mem'[s][b] = Index
    <3>1. CASE mem' = mem
      BY <3>1
    <3>2. CASE mem' = reduced(r, recv_chunk(r))
      BY <3>2 DEF reduced
    <3> QED
      BY <1>5, <3>1, <3>2 DEF WaitRecv
  <2>3. /\ step' \in [Rank -> Nat] /\ phase' \in [Rank -> {1, 2}]
        /\ pc' \in [Rank -> {"idle", "post_recv", "post_send", "wait_send",
                             "wait_recv", "threw", "exited", "finished"}]
    BY <1>5 DEF WaitRecv, advance
  <2> QED
    BY <1>5, <2>1, <2>2, <2>3 DEF WaitRecv
<1>6. ASSUME NEW r \in Rank, Throw(r) PROVE TypeOK'
  <2>1. send_cq' \in [Rank -> Seq(Completion)] /\ recv_cq' \in [Rank -> Seq(Completion)]
    <3>1. /\ send_cq' = send_cq \/ (send_cq[r] # <<>> /\ send_cq' = take(send_cq, r))
          /\ recv_cq' = recv_cq \/ (recv_cq[r] # <<>> /\ recv_cq' = take(recv_cq, r))
      BY <1>6 DEF Throw, received, completed, completion_error
    <3>2. /\ send_cq[r] # <<>> => take(send_cq, r) \in [Rank -> Seq(Completion)]
          /\ recv_cq[r] # <<>> => take(recv_cq, r) \in [Rank -> Seq(Completion)]
      <4>1. CASE send_cq[r] # <<>>
        BY <4>1, TakeType
      <4>2. CASE recv_cq[r] # <<>>
        BY <4>2, TakeType
      <4> QED
        BY <4>1, <4>2, TakeType
    <3> QED
      BY <3>1, <3>2
  <2> QED
    BY <1>6, <2>1 DEF Throw
<1>7. ASSUME NEW r \in Rank, Exit(r) \/ Finish(r) PROVE TypeOK'
  <2>1. destroy(r) /\ UNCHANGED <<args, round, phase, step, mem>>
    BY <1>7 DEF Exit, Finish
  <2>2. pc' \in [Rank -> {"idle", "post_recv", "post_send", "wait_send",
                          "wait_recv", "threw", "exited", "finished"}]
    BY <1>7 DEF Exit, Finish
  <2>3. TransportTypeOK'
    BY <2>1, DestroyType
  <2> QED
    BY <2>1, <2>2, <2>3
<1>8. ASSUME NEW s \in Rank, NEW d \in Rank, AdapterStep(s, d), UNCHANGED ctl PROVE TypeOK'
  <2>1. TransportTypeOK'
    BY <1>8, AdapterType
  <2> QED
    BY <1>8, <2>1 DEF ctl
<1>9. CASE UNCHANGED vars
  BY <1>9 DEF vars, nic
<1> QED
  BY <1>1, <1>2, <1>3, <1>4, <1>5, <1>6, <1>7, <1>8, <1>9
     DEF Next, RankStep, Nic, Terminating

-----------------------------------------------------------------------------
(* Control.                                                                *)

(***************************************************************************)
(* The arguments of a rank are the same in every call, and so are its      *)
(* chunks and the outcome of its argument checks.                          *)
(***************************************************************************)
LEMMA SameArguments ==
  ASSUME [Next]_vars
  PROVE  /\ args' = args
         /\ \A r, c \in Rank : chunk(r, c)' = chunk(r, c)
         /\ \A r \in Rank : bad_arguments(r)' = bad_arguments(r)
         /\ SameCount' = SameCount
<1>1. args' = args
  BY DEF Next, RankStep, Nic, AdapterStep, Terminating, Call, PostRecv, PostSend,
         WaitSend, WaitRecv, Throw, Exit, Finish, ctl, vars
<1> QED
  BY <1>1 DEF chunk, bad_arguments, max_chunk_elems, SameCount

(***************************************************************************)
(* A rank that is in a call has passed the argument checks and is in a     *)
(* loop that has a body.                                                   *)
(***************************************************************************)
LEMMA ControlStep == TypeOK /\ Control /\ [Next]_vars => Control'
<1> SUFFICES ASSUME TypeOK, Control, [Next]_vars, NEW q \in Rank PROVE ControlOf(q)'
  BY DEF Control
<1>1. /\ bad_arguments(q)' = bad_arguments(q) /\ ControlOf(q)
      /\ round \in [Rank -> 0 .. MaxRounds] /\ phase \in [Rank -> {1, 2}]
      /\ step \in [Rank -> Nat]
      /\ pc \in [Rank -> {"idle", "post_recv", "post_send", "wait_send",
                          "wait_recv", "threw", "exited", "finished"}]
      /\ P \in Nat \ {0}
  BY SameArguments, PAssumption DEF Control, TypeOK
<1> USE DEF ControlOf, InCall
<1>2. CASE UNCHANGED ctl
  BY <1>1, <1>2 DEF ctl
<1>3. ASSUME NEW r \in Rank, Call(r) PROVE ControlOf(q)'
  BY <1>1, <1>3 DEF Call
<1>4. ASSUME NEW r \in Rank, PostRecv(r) \/ PostSend(r) \/ WaitSend(r) PROVE ControlOf(q)'
  BY <1>1, <1>4 DEF PostRecv, PostSend, WaitSend
<1>5. ASSUME NEW r \in Rank, WaitRecv(r) PROVE ControlOf(q)'
  BY <1>1, <1>5 DEF WaitRecv, advance
<1>6. ASSUME NEW r \in Rank, Throw(r) \/ Exit(r) \/ Finish(r) PROVE ControlOf(q)'
  BY <1>1, <1>6 DEF Throw, Exit, Finish
<1> QED
  BY <1>2, <1>3, <1>4, <1>5, <1>6 DEF Next, RankStep, Nic, Terminating, vars, ctl

-----------------------------------------------------------------------------
(* Queues.                                                                 *)

(***************************************************************************)
(* What a rank does not touch: the queues of the others stay as they are.  *)
(***************************************************************************)
LEMMA SendFrame ==
  ASSUME NEW q \in Rank, SendQueueOf(q), args' = args,
         pc'[q] = pc[q], phase'[q] = phase[q], step'[q] = step[q],
         sq'[q] = sq[q], response'[q] = response[q], send_cq'[q] = send_cq[q]
  PROVE  SendQueueOf(q)'
BY DEF SendQueueOf, SendPending, send_request, send_chunk, chunk

(***************************************************************************)
(* The adapter holds at most the send a rank waits for, or its completion. *)
(***************************************************************************)
LEMMA SendQueueStep == TypeOK /\ SendQueue /\ [Next]_vars => SendQueue'
<1> SUFFICES ASSUME TypeOK, SendQueue, [Next]_vars, NEW q \in Rank PROVE SendQueueOf(q)'
  BY DEF SendQueue
<1>1. /\ args' = args /\ SendQueueOf(q) /\ send_to(q) \in Rank
      /\ sq \in [Rank -> [Rank -> Seq(WorkRequest)]]
      /\ response \in [Rank -> [Rank -> {"none", "ack", "nak"}]]
      /\ send_cq \in [Rank -> Seq(Completion)]
      /\ phase \in [Rank -> {1, 2}] /\ step \in [Rank -> Nat]
      /\ pc \in [Rank -> {"idle", "post_recv", "post_send", "wait_send",
                          "wait_recv", "threw", "exited", "finished"}]
  BY SameArguments, Neighbours DEF SendQueue, TypeOK, TransportTypeOK
<1>2. send_chunk(q).count \in Nat
  BY StepChunks
<1>3. CASE UNCHANGED <<pc, phase, step, sq, response, send_cq>>
  BY <1>1, <1>3, SendFrame
<1>4. ASSUME NEW r \in Rank, Call(r) \/ PostRecv(r) \/ WaitRecv(r) PROVE SendQueueOf(q)'
  <2>1. UNCHANGED <<sq, response, send_cq>>
    BY <1>4 DEF Call, PostRecv, WaitRecv, nic
  <2>2. /\ pc[r] # "wait_send" /\ pc'[r] # "wait_send"
        /\ q # r => pc'[q] = pc[q] /\ phase'[q] = phase[q] /\ step'[q] = step[q]
    BY <1>1, <1>4 DEF Call, PostRecv, WaitRecv, advance
  <2>3. CASE q # r
    BY <1>1, <2>1, <2>2, <2>3, SendFrame
  <2>4. CASE q = r
    BY <1>1, <2>1, <2>2, <2>4 DEF SendQueueOf, SendPending
  <2> QED BY <2>3, <2>4
<1>5. ASSUME NEW r \in Rank, PostSend(r) PROVE SendQueueOf(q)'
  <2>1. /\ UNCHANGED <<phase, step, response, send_cq>>
        /\ pc' = [pc EXCEPT ![r] = "wait_send"] /\ pc[r] = "post_send"
    BY <1>5 DEF PostSend
  <2>2. CASE q # r
    <3>1. sq'[q] = sq[q]
      BY <1>1, <1>5, <2>2 DEF PostSend, post_send
    <3> QED
      BY <1>1, <2>1, <2>2, <3>1, SendFrame
  <2>3. CASE q = r
    <3>1. /\ send_chunk(q)' = send_chunk(q) /\ send_request(q)' = send_request(q)
      BY <1>1, <2>1 DEF send_request, send_chunk, chunk
    <3>2. /\ \A p \in Rank : sq[q][p] = <<>> /\ response[q][p] = "none"
          /\ send_cq[q] = <<>>
      BY <1>1, <2>1, <2>3 DEF SendQueueOf, SendPending
    <3>3. CASE send_chunk(q).count = 0
      <4>1. sq' = sq
        BY <1>5, <2>3, <3>3 DEF PostSend
      <4> QED
        BY <1>1, <2>1, <2>3, <3>1, <3>2, <3>3, <4>1 DEF SendQueueOf, SendPending
    <3>4. CASE send_chunk(q).count > 0
      <4>1. sq' = [sq EXCEPT ![q][send_to(q)] = Append(@, send_request(q))]
        BY <1>5, <2>3, <3>4 DEF PostSend, post_send, send_request
      <4>2. Append(sq[q][send_to(q)], send_request(q)) = <<send_request(q)>>
        BY <1>1, <3>2, AppendToEmpty
      <4>3. /\ \A p \in Rank \ {send_to(q)} : sq'[q][p] = <<>>
            /\ sq'[q][send_to(q)] = <<send_request(q)>>
        BY <1>1, <3>2, <4>1, <4>2
      <4>4. <<send_request(q)>> # <<>>
        OBVIOUS
      <4> QED
        BY <1>1, <2>1, <2>3, <3>1, <3>2, <3>4, <4>3, <4>4 DEF SendQueueOf, SendPending
    <3> QED BY <1>2, <3>3, <3>4
  <2> QED BY <2>2, <2>3
<1>6. ASSUME NEW r \in Rank, WaitSend(r) \/ Throw(r) PROVE SendQueueOf(q)'
  <2>1. /\ UNCHANGED <<phase, step, response, sq>>
        /\ pc' = [pc EXCEPT ![r] = pc'[r]] /\ pc'[r] # "wait_send"
    BY <1>1, <1>6 DEF WaitSend, Throw
  <2>2. CASE q # r
    <3>1. send_cq'[q] = send_cq[q]
      BY <1>1, <1>6, <2>2 DEF WaitSend, Throw, take
    <3> QED
      BY <1>1, <2>1, <2>2, <3>1, SendFrame
  <2>3. CASE q = r
    <3>1. CASE send_cq' = send_cq /\ ~SendPending(q)
      BY <1>1, <2>1, <2>3, <3>1 DEF SendQueueOf, SendPending
    <3>2. CASE SendPending(q) /\ send_cq[q] # <<>> /\ send_cq' = take(send_cq, q)
      <4>1. Len(send_cq[q]) = 1 /\ sq[q][send_to(q)] = <<>>
        BY <1>1, <3>2 DEF SendQueueOf
      <4>2. send_cq'[q] = <<>>
        BY <1>1, <3>2, <4>1, TailOfOne DEF take
      <4> QED
        BY <1>1, <2>1, <2>3, <4>1, <4>2 DEF SendQueueOf, SendPending
    <3> QED
      BY <1>2, <1>6, <2>3, <3>1, <3>2
         DEF WaitSend, Throw, SendPending, completed, completion_error
  <2> QED BY <2>2, <2>3
<1>7. ASSUME NEW r \in Rank, Exit(r) \/ Finish(r) PROVE SendQueueOf(q)'
  <2>1. /\ UNCHANGED <<phase, step>> /\ destroy(r) /\ pc' = [pc EXCEPT ![r] = pc'[r]]
        /\ pc'[r] # "wait_send"
    BY <1>1, <1>7 DEF Exit, Finish
  <2>2. CASE q # r
    BY <1>1, <2>1, <2>2, SendFrame DEF destroy
  <2>3. CASE q = r
    BY <1>1, <2>1, <2>3 DEF destroy, SendQueueOf, SendPending
  <2> QED BY <2>2, <2>3
<1>8. ASSUME NEW s \in Rank, NEW d \in Rank, Deliver(s, d) \/ LengthError(s, d) \/ FlushRecv(s, d),
             UNCHANGED ctl
      PROVE  SendQueueOf(q)'
  <2>1. UNCHANGED <<pc, phase, step, sq, send_cq>>
    BY <1>8 DEF Deliver, LengthError, FlushRecv, ctl
  <2>2. \A p \in Rank : response'[q][p] # "none" => sq[q][p] # <<>>
    <3>1. CASE response' = response
      BY <1>1, <3>1 DEF SendQueueOf
    <3>2. ASSUME NEW answer, sq[s][d] # <<>>, response' = [response EXCEPT ![s][d] = answer]
          PROVE  \A p \in Rank : response'[q][p] # "none" => sq[q][p] # <<>>
      BY <1>1, <3>2 DEF SendQueueOf
    <3> QED
      BY <1>8, <3>1, <3>2 DEF Deliver, LengthError, FlushRecv, Arrived
  <2> QED
    BY <1>1, <2>1, <2>2 DEF SendQueueOf, SendPending, send_request, send_chunk, chunk
<1>9. ASSUME NEW s \in Rank, NEW d \in Rank, NEW status, sq[s][d] # <<>>,
             FinishSend(s, d, status), UNCHANGED ctl
      PROVE  SendQueueOf(q)'
  <2>1. /\ UNCHANGED <<pc, phase, step>>
        /\ sq' = [sq EXCEPT ![s][d] = Tail(@)]
        /\ response' = [response EXCEPT ![s][d] = "none"]
        /\ send_cq' = [send_cq EXCEPT ![s] = Append(@, cqe(status, 0))]
    BY <1>9 DEF FinishSend, ctl
  <2>2. CASE q # s
    BY <1>1, <2>1, <2>2, SendFrame
  <2>3. CASE q = s
    <3>1. /\ d = send_to(q) /\ SendPending(q)
          /\ sq[q][d] = <<send_request(q)>> /\ send_cq[q] = <<>>
      BY <1>1, <1>9, <2>3 DEF SendQueueOf
    <3>2. sq'[q][d] = <<>> /\ \A p \in Rank \ {d} : sq'[q][p] = <<>>
      BY <1>1, <2>1, <2>3, <3>1 DEF SendQueueOf
    <3>3. Len(send_cq'[q]) = 1
      BY <1>1, <2>1, <2>3, <3>1
    <3>4. \A p \in Rank : response'[q][p] = "none"
      BY <1>1, <2>1, <2>3, <3>1 DEF SendQueueOf
    <3>5. SendPending(q)'
      BY <1>1, <2>1, <3>1 DEF SendPending, send_chunk, chunk
    <3> QED
      BY <3>1, <3>2, <3>3, <3>4, <3>5 DEF SendQueueOf
  <2> QED BY <2>2, <2>3
<1>10. ASSUME NEW s \in Rank, NEW d \in Rank,
              Complete(s, d) \/ RetryExceeded(s, d) \/ FlushSend(s, d), UNCHANGED ctl
       PROVE  SendQueueOf(q)'
  BY <1>9, <1>10 DEF Complete, RetryExceeded, FlushSend
<1> QED
  BY <1>3, <1>4, <1>5, <1>6, <1>7, <1>8, <1>10
     DEF Next, RankStep, Nic, AdapterStep, Terminating, vars, nic

(***************************************************************************)
(* The same frame for the receive side.                                    *)
(***************************************************************************)
LEMMA RecvFrame ==
  ASSUME NEW q \in Rank, RecvQueueOf(q), args' = args,
         pc'[q] = pc[q], phase'[q] = phase[q], step'[q] = step[q],
         rq'[q] = rq[q], recv_cq'[q] = recv_cq[q]
  PROVE  RecvQueueOf(q)'
BY DEF RecvQueueOf, Alive, InCall, RecvPending, recv_request, recv_chunk, chunk

(***************************************************************************)
(* The adapter holds at most the receive a rank waits for, or its          *)
(* completion.                                                             *)
(***************************************************************************)
LEMMA RecvQueueStep == TypeOK /\ RecvQueue /\ [Next]_vars => RecvQueue'
<1> SUFFICES ASSUME TypeOK, RecvQueue, [Next]_vars, NEW q \in Rank PROVE RecvQueueOf(q)'
  BY DEF RecvQueue
<1>1. /\ args' = args /\ RecvQueueOf(q) /\ recv_from(q) \in Rank
      /\ rq \in [Rank -> [Rank -> Seq(WorkRequest)]]
      /\ recv_cq \in [Rank -> Seq(Completion)]
      /\ phase \in [Rank -> {1, 2}] /\ step \in [Rank -> Nat]
      /\ pc \in [Rank -> {"idle", "post_recv", "post_send", "wait_send",
                          "wait_recv", "threw", "exited", "finished"}]
  BY SameArguments, Neighbours DEF RecvQueue, TypeOK, TransportTypeOK
<1>2. recv_chunk(q).count \in Nat
  BY StepChunks
<1>3. CASE UNCHANGED <<pc, phase, step, rq, recv_cq>>
  BY <1>1, <1>3, RecvFrame
<1>4. ASSUME NEW r \in Rank, Call(r) PROVE RecvQueueOf(q)'
  <2>1. /\ UNCHANGED <<rq, recv_cq>> /\ pc[r] = "idle"
        /\ pc'[r] \in {"idle", "threw", "post_recv"}
        /\ q # r => pc'[q] = pc[q] /\ phase'[q] = phase[q] /\ step'[q] = step[q]
    BY <1>1, <1>4 DEF Call, nic
  <2>2. CASE q # r
    BY <1>1, <2>1, <2>2, RecvFrame
  <2>3. CASE q = r
    BY <1>1, <2>1, <2>3, EmptySeq DEF RecvQueueOf, Alive, InCall, RecvPending
  <2> QED BY <2>2, <2>3
<1>5. ASSUME NEW r \in Rank, PostSend(r) \/ WaitSend(r) PROVE RecvQueueOf(q)'
  <2>1. /\ UNCHANGED <<rq, recv_cq, phase, step>>
        /\ pc[r] \in {"post_send", "wait_send"}
        /\ pc'[r] \in {"wait_send", "wait_recv"}
        /\ q # r => pc'[q] = pc[q]
    BY <1>1, <1>5 DEF PostSend, WaitSend
  <2>2. CASE q # r
    BY <1>1, <2>1, <2>2, RecvFrame
  <2>3. CASE q = r
    <3>1. recv_request(q)' = recv_request(q) /\ recv_chunk(q)' = recv_chunk(q)
      BY <1>1, <2>1 DEF recv_request, recv_chunk, chunk
    <3> QED
      BY <1>1, <2>1, <2>3, <3>1 DEF RecvQueueOf, Alive, InCall, RecvPending
  <2> QED BY <2>2, <2>3
<1>6. ASSUME NEW r \in Rank, PostRecv(r) PROVE RecvQueueOf(q)'
  <2>1. /\ UNCHANGED <<phase, step, recv_cq>>
        /\ pc' = [pc EXCEPT ![r] = "post_send"] /\ pc[r] = "post_recv"
    BY <1>6 DEF PostRecv
  <2>2. CASE q # r
    <3>1. rq'[q] = rq[q]
      BY <1>1, <1>6, <2>2 DEF PostRecv, post_recv
    <3> QED
      BY <1>1, <2>1, <2>2, <3>1, RecvFrame
  <2>3. CASE q = r
    <3>1. recv_request(q)' = recv_request(q) /\ recv_chunk(q)' = recv_chunk(q)
      BY <1>1, <2>1 DEF recv_request, recv_chunk, chunk
    <3>2. (\A p \in Rank : rq[q][p] = <<>>) /\ recv_cq[q] = <<>>
      BY <1>1, <2>1, <2>3 DEF RecvQueueOf, Alive, InCall, RecvPending
    <3>3. CASE recv_chunk(q).count = 0
      <4>1. rq' = rq
        BY <1>6, <2>3, <3>3 DEF PostRecv
      <4> QED
        BY <1>1, <2>1, <2>3, <3>1, <3>2, <3>3, <4>1, EmptySeq DEF RecvQueueOf, RecvPending
    <3>4. CASE recv_chunk(q).count > 0
      <4>1. rq' = [rq EXCEPT ![q][recv_from(q)] = Append(@, recv_request(q))]
        BY <1>6, <2>3, <3>4 DEF PostRecv, post_recv, recv_request
      <4>2. Append(rq[q][recv_from(q)], recv_request(q)) = <<recv_request(q)>>
        BY <1>1, <3>2, AppendToEmpty
      <4>3. /\ \A p \in Rank \ {recv_from(q)} : rq'[q][p] = <<>>
            /\ rq'[q][recv_from(q)] = <<recv_request(q)>>
        BY <1>1, <3>2, <4>1, <4>2
      <4>4. Len(<<recv_request(q)>>) = 1
        OBVIOUS
      <4> QED
        BY <1>1, <2>1, <2>3, <3>1, <3>2, <3>4, <4>3, <4>4 DEF RecvQueueOf, RecvPending
    <3> QED BY <1>2, <3>3, <3>4
  <2> QED BY <2>2, <2>3
<1>7. ASSUME NEW r \in Rank, WaitRecv(r) PROVE RecvQueueOf(q)'
  <2>1. /\ rq' = rq /\ pc[r] = "wait_recv" /\ pc'[r] \in {"idle", "post_recv"}
        /\ q # r => pc'[q] = pc[q] /\ phase'[q] = phase[q] /\ step'[q] = step[q]
    BY <1>1, <1>7 DEF WaitRecv, advance
  <2>2. CASE q # r
    <3>1. recv_cq'[q] = recv_cq[q]
      BY <1>1, <1>7, <2>2 DEF WaitRecv, take
    <3> QED
      BY <1>1, <2>1, <2>2, <3>1, RecvFrame
  <2>3. CASE q = r
    <3>1. rq[q][recv_from(q)] = <<>> /\ recv_cq'[q] = <<>>
      <4>1. CASE recv_chunk(q).count = 0 /\ recv_cq' = recv_cq
        BY <1>1, <2>1, <2>3, <4>1 DEF RecvQueueOf, Alive, InCall, RecvPending
      <4>2. CASE recv_chunk(q).count > 0 /\ recv_cq[q] # <<>> /\ recv_cq' = take(recv_cq, q)
        <5>1. Len(recv_cq[q]) = 1 /\ rq[q][recv_from(q)] = <<>>
          BY <1>1, <2>1, <2>3, <4>2 DEF RecvQueueOf, Alive, InCall, RecvPending
        <5> QED
          BY <1>1, <4>2, <5>1, TailOfOne DEF take
      <4> QED
        BY <1>7, <2>3, <4>1, <4>2 DEF WaitRecv, received, completed
    <3> QED
      BY <1>1, <2>1, <2>3, <3>1, EmptySeq DEF RecvQueueOf, Alive, InCall, RecvPending
  <2> QED BY <2>2, <2>3
<1>8. ASSUME NEW r \in Rank, Throw(r) PROVE RecvQueueOf(q)'
  <2>1. /\ UNCHANGED <<phase, step, rq>>
        /\ pc' = [pc EXCEPT ![r] = "threw"]
    BY <1>8 DEF Throw
  <2>2. CASE q # r
    <3>1. recv_cq'[q] = recv_cq[q]
      BY <1>1, <1>8, <2>2 DEF Throw, take
    <3> QED
      BY <1>1, <2>1, <2>2, <3>1, RecvFrame
  <2>3. CASE q = r
    <3>1. ~Alive(q)'
      BY <1>1, <2>1, <2>3 DEF Alive, InCall
    <3>2. CASE recv_cq' = recv_cq
      BY <1>1, <2>1, <3>1, <3>2 DEF RecvQueueOf
    <3>3. CASE recv_cq[q] # <<>> /\ recv_cq' = take(recv_cq, q)
      <4>2. Len(recv_cq[q]) = 1 /\ rq[q][recv_from(q)] = <<>>
        <5>1. \/ recv_cq[q] = <<>>
              \/ rq[q][recv_from(q)] = <<>> /\ Len(recv_cq[q]) <= 1
          BY <1>1 DEF RecvQueueOf
        <5>2. rq[q][recv_from(q)] = <<>> /\ Len(recv_cq[q]) <= 1
          BY <3>3, <5>1, Zenon
        <5> QED BY <1>1, <3>3, <5>2, OneEntry
      <4>3. recv_cq'[q] = <<>>
        BY <1>1, <3>3, <4>2, TailOfOne DEF take
      <4> QED
        BY <1>1, <2>1, <3>1, <4>2, <4>3, EmptySeq DEF RecvQueueOf
    <3> QED
      BY <1>8, <2>3, <3>2, <3>3 DEF Throw, completed, completion_error
  <2> QED BY <2>2, <2>3
<1>9. ASSUME NEW r \in Rank, Exit(r) \/ Finish(r) PROVE RecvQueueOf(q)'
  <2>1. /\ UNCHANGED <<phase, step>> /\ destroy(r) /\ pc' = [pc EXCEPT ![r] = pc'[r]]
        /\ pc'[r] \in {"exited", "finished"}
    BY <1>1, <1>9 DEF Exit, Finish
  <2>2. CASE q # r
    BY <1>1, <2>1, <2>2, RecvFrame DEF destroy
  <2>3. CASE q = r
    BY <1>1, <2>1, <2>3, EmptySeq DEF destroy, RecvQueueOf, Alive, InCall
  <2> QED BY <2>2, <2>3
<1>10. ASSUME NEW s \in Rank, NEW d \in Rank, NEW c, rq[d][s] # <<>>, UNCHANGED ctl,
              rq' = [rq EXCEPT ![d][s] = Tail(@)],
              recv_cq' = [recv_cq EXCEPT ![d] = Append(@, c)]
       PROVE  RecvQueueOf(q)'
  <2>1. UNCHANGED <<pc, phase, step>>
    BY <1>10 DEF ctl
  <2>2. CASE q # d
    BY <1>1, <1>10, <2>1, <2>2, RecvFrame
  <2>3. CASE q = d
    <3>1. s = recv_from(q) /\ Len(rq[q][s]) = 1 /\ recv_cq[q] = <<>>
      BY <1>1, <1>10, <2>3 DEF RecvQueueOf
    <3>2. /\ rq'[q][s] = <<>> /\ \A p \in Rank \ {s} : rq'[q][p] = <<>>
      BY <1>1, <1>10, <2>3, <3>1, TailOfOne DEF RecvQueueOf
    <3>3. Len(recv_cq'[q]) = 1
      BY <1>1, <1>10, <2>3, <3>1, AppendToEmpty
    <3>4. Alive(q)' = Alive(q) /\ RecvPending(q)' = RecvPending(q)
      BY <1>1, <2>1 DEF Alive, InCall, RecvPending, recv_chunk, chunk
    <3>5. Alive(q) => RecvPending(q)
      BY <1>1, <1>10, <2>3, <3>1 DEF RecvQueueOf
    <3> QED
      BY <3>1, <3>2, <3>3, <3>4, <3>5 DEF RecvQueueOf
  <2> QED BY <2>2, <2>3
<1>11. ASSUME NEW s \in Rank, NEW d \in Rank,
              Deliver(s, d) \/ LengthError(s, d) \/ FlushRecv(d, s), UNCHANGED ctl
       PROVE  RecvQueueOf(q)'
  BY <1>10, <1>11 DEF Deliver, LengthError, FlushRecv, Arrived
<1>12. ASSUME NEW s \in Rank, NEW d \in Rank,
              Complete(s, d) \/ RetryExceeded(s, d) \/ FlushSend(s, d), UNCHANGED ctl
       PROVE  RecvQueueOf(q)'
  BY <1>3, <1>12 DEF Complete, RetryExceeded, FlushSend, FinishSend, ctl
<1> QED
  BY <1>3, <1>4, <1>5, <1>6, <1>7, <1>8, <1>9, <1>11, <1>12
     DEF Next, RankStep, Nic, AdapterStep, Terminating, vars, nic

(***************************************************************************)
(* Nothing is posted before the first call.                                *)
(***************************************************************************)
LEMMA InitDiscipline == Init => Discipline
<1> SUFFICES ASSUME Init PROVE Discipline
  OBVIOUS
<1>1. TypeOK
  BY CallsAssumption, MaxRoundsAssumption
     DEF Init, TransportInit, TypeOK, TransportTypeOK, WorkRequest, Completion
<1>2. Control
  BY DEF Init, Control, ControlOf, InCall
<1>3. SendQueue
  BY Neighbours DEF Init, TransportInit, SendQueue, SendQueueOf, SendPending
<1>4. RecvQueue
  BY Neighbours, EmptySeq DEF Init, TransportInit, RecvQueue, RecvQueueOf, RecvPending
<1> QED
  BY <1>1, <1>2, <1>3, <1>4 DEF Discipline

(***************************************************************************)
(* The discipline of the queues, as an invariant of every execution:       *)
(* whatever the ranks pass and whatever fails, the adapter holds what the  *)
(* rank's position says.                                                   *)
(***************************************************************************)
THEOREM QueueDiscipline == Spec => []Discipline
<1>1. Discipline /\ [Next]_vars => Discipline'
  BY TypeStep, ControlStep, SendQueueStep, RecvQueueStep DEF Discipline
<1> QED
  BY <1>1, InitDiscipline, PTL DEF Spec

(***************************************************************************)
(* Type correctness of allreduce_ring and its transport, whatever the      *)
(* ranks pass.                                                             *)
(***************************************************************************)
THEOREM TypeCorrect == Spec => []TypeOK
<1>1. Discipline => TypeOK
  BY DEF Discipline
<1> QED
  BY <1>1, QueueDiscipline, PTL

(***************************************************************************)
(* wait_completion may take whatever completion comes first: for every     *)
(* number of ranks and whatever they pass, a rank never has more than one  *)
(* send and one receive between a post and its poll.                       *)
(***************************************************************************)
THEOREM OneOutstandingTheorem == Spec => []OneOutstanding
<1>1. TypeOK /\ SendQueue /\ RecvQueue => OneOutstanding
  <2> SUFFICES ASSUME TypeOK, NEW r \in Rank, SendQueueOf(r), RecvQueueOf(r)
               PROVE  AtMostOne(sq, send_cq, r) /\ AtMostOne(rq, recv_cq, r)
    BY DEF OneOutstanding, SendQueue, RecvQueue
  <2>1. /\ send_to(r) \in Rank /\ recv_from(r) \in Rank
        /\ Len(<<>>) = 0 /\ Len(<<send_request(r)>>) = 1
    BY Neighbours
  <2>2. AtMostOne(sq, send_cq, r)
    <3>1. CASE (\A p \in Rank : sq[r][p] = <<>>) /\ Len(send_cq[r]) <= 1
      BY <3>1 DEF AtMostOne
    <3>2. CASE /\ \A p \in Rank \ {send_to(r)} : sq[r][p] = <<>>
               /\ Len(sq[r][send_to(r)]) = 1 /\ send_cq[r] = <<>>
      <4>1. Len(send_cq[r]) <= 1
        BY <2>1, <3>2
      <4>2. \A p \in Rank : sq[r][p] # <<>> => p = send_to(r)
        BY <3>2
      <4> QED BY <3>2, <4>1, <4>2 DEF AtMostOne
    <3>3. \/ sq[r][send_to(r)] = <<>> /\ (send_cq[r] = <<>> \/ Len(send_cq[r]) = 1)
          \/ sq[r][send_to(r)] = <<send_request(r)>> /\ send_cq[r] = <<>>
      BY DEF SendQueueOf
    <3>4. \A p \in Rank \ {send_to(r)} : sq[r][p] = <<>>
      BY DEF SendQueueOf
    <3>5. CASE sq[r][send_to(r)] = <<>> /\ (send_cq[r] = <<>> \/ Len(send_cq[r]) = 1)
      <4>1. \A p \in Rank : sq[r][p] = <<>>
        BY <3>4, <3>5
      <4>2. CASE send_cq[r] = <<>>
        BY <2>1, <3>1, <4>1, <4>2
      <4>3. CASE Len(send_cq[r]) = 1
        BY <3>1, <4>1, <4>3
      <4> QED BY <3>5, <4>2, <4>3
    <3>6. CASE sq[r][send_to(r)] = <<send_request(r)>> /\ send_cq[r] = <<>>
      BY <2>1, <3>2, <3>4, <3>6
    <3> QED
      BY <3>3, <3>5, <3>6
  <2>3. AtMostOne(rq, recv_cq, r)
    <3>1. CASE (\A p \in Rank : rq[r][p] = <<>>) /\ Len(recv_cq[r]) <= 1
      BY <3>1 DEF AtMostOne
    <3>2. CASE /\ \A p \in Rank \ {recv_from(r)} : rq[r][p] = <<>>
               /\ Len(rq[r][recv_from(r)]) = 1 /\ recv_cq[r] = <<>>
      <4>1. Len(recv_cq[r]) <= 1
        BY <2>1, <3>2
      <4>2. \A p \in Rank : rq[r][p] # <<>> => p = recv_from(r)
        BY <3>2
      <4> QED BY <3>2, <4>1, <4>2 DEF AtMostOne
    <3> QED
      BY <2>1, <3>1, <3>2 DEF RecvQueueOf
  <2> QED BY <2>2, <2>3
<1>2. Discipline => TypeOK /\ SendQueue /\ RecvQueue
  BY DEF Discipline
<1> QED
  BY <1>1, <1>2, QueueDiscipline, PTL
=============================================================================
