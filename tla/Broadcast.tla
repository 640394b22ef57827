----------------------------- MODULE Broadcast ------------------------------
(***************************************************************************)
(* broadcast (src/collectives/broadcast.cc) as transport calls: the root   *)
(* sends the buffer to one rank after the other and waits for each.  The   *)
(* length of the registered region is not looked at.                       *)
(***************************************************************************)
EXTENDS TransportCalls

broadcast_rejects(c) == c.root \notin Rank

(* Bug: the loop stops before the last peer.                               *)
broadcast_OneShort(r, c) ==
  LET n == size_t(c.count)
  IN  IF r = c.root
      THEN FlattenSeq([i \in 1 .. P - 1 |->
             IF i - 1 = r THEN <<>> ELSE send(i - 1, "data", 0, n)])
      ELSE recv(c.root, "data", 0, n)

broadcast(r, c) ==
  LET n == size_t(c.count)
  IN  IF r = c.root
      THEN FlattenSeq([i \in 1 .. P |->
             IF i - 1 = r THEN <<>> ELSE send(i - 1, "data", 0, n)])
      ELSE recv(c.root, "data", 0, n)
=============================================================================
