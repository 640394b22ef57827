----------------------------- MODULE Allgather ------------------------------
(***************************************************************************)
(* allgather (src/collectives/allgather.cc) as transport calls: P - 1      *)
(* steps around the ring, in each of which a rank passes on the segment it *)
(* received in the step before.  Empty segments are sent too.              *)
(***************************************************************************)
EXTENDS TransportCalls

(* world_size * send_count is computed in a size_t and can wrap.           *)
allgather_rejects(c, mr) == size_t(P * c.count) > mr

allgather_step(r, n, step) ==
  LET mod_p(x) == x % P
      at(idx) == size_t(idx * n)
  IN  <<PostRecv(mod_p(r - 1), "data", at(mod_p(r - step - 1)), n),
        PostSend(mod_p(r + 1), "data", at(mod_p(r - step)), n), WaitSend, WaitRecv(n)>>

(* Bug: the loop makes one step less.                                      *)
allgather_OneShort(r, c) ==
  FlattenSeq([i \in 1 .. P - 2 |-> allgather_step(r, size_t(c.count), i - 1)])

allgather(r, c) ==
  FlattenSeq([i \in 1 .. P - 1 |-> allgather_step(r, size_t(c.count), i - 1)])
=============================================================================
