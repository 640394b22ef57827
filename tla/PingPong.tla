------------------------------ MODULE PingPong ------------------------------
(***************************************************************************)
(* The loop of examples/pingpong.cc as transport calls: rank 0 sends a     *)
(* fresh pattern and compares what comes back with it, rank 1 echoes.      *)
(* "data" is send_buf and "scratch" is recv_buf; both have count elements. *)
(***************************************************************************)
EXTENDS TransportCalls

ping(c, iter) ==
  <<Fill(0, c.count, iter), PostRecv(1, "scratch", 0, c.count)>>
    \o send(1, "data", 0, c.count) \o <<WaitRecv(c.count), Memcmp(c.count)>>

pong(c) == recv(0, "scratch", 0, c.count) \o send(0, "scratch", 0, c.count)

(* total_rounds iterations, warm-up included.                              *)
pingpong(r, c) ==
  FlattenSeq([i \in 1 .. c.total_rounds |-> IF r = 0 THEN ping(c, i) ELSE pong(c)])
=============================================================================
