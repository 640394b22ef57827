------------------------ MODULE MCCollectiveSequence ------------------------
(***************************************************************************)
(* CollectiveSequence for TLC: every program of two calls, and of three    *)
(* with a barrier at the end; programs whose first call is not agreed on   *)
(* or too large; and the ping-pong, in which a third rank has no part.     *)
(***************************************************************************)
EXTENDS CollectiveSequence

Gather(n) == [op |-> "allgather", count |-> n]
Bcast(q, n) == [op |-> "broadcast", count |-> n, root |-> q]
Barrier == [op |-> "barrier"]

Same(calls) == [r \in Rank |-> [calls |-> calls, mr |-> Span]]

Items == {Gather(1)} \cup {Bcast(q, 2) : q \in Rank}

Agreeing ==
  {Same(<<a, b>>) : a, b \in Items \cup {Gather(0)}} \cup
  {Same(<<a, b, c, Barrier>>) : a, b, c \in Items}

(* Each rank passes a size of its own to the first call, and if it returns *)
(* goes on with a call all agree on.  5 and 6 do not fit a work request    *)
(* and arrive as 1 and 2, and 3 * 6 wraps to 2.                            *)
Mixed(first(_)) ==
  {[r \in Rank |-> [calls |-> <<first(n[r]), next>>, mr |-> Span]] :
     next \in {Bcast(1, 1), Barrier},
     n \in [Rank -> {1, 2, 5, 6}]}

Disagreeing == Mixed(Gather) \cup Mixed(LAMBDA n : Bcast(0, n))

(* One rank's region is too short, or its root is not a rank.              *)
Illegal ==
  {[Same(<<c>>) EXCEPT ![r].mr = 1] : c \in {Gather(1), Bcast(0, 2)}, r \in Rank} \cup
  {[Same(<<Bcast(0, 1)>>) EXCEPT ![r].calls[1].root = P] : r \in Rank}

Echo(n, m) ==
  [r \in Rank |->
     [calls |-> IF r < 2 THEN <<[op |-> "pingpong", total_rounds |-> 2,
                                 count |-> IF r = 0 THEN n ELSE m]>> ELSE <<>>,
      mr |-> IF r = 0 THEN n ELSE m]]

AllPrograms ==
  Agreeing \cup Disagreeing \cup Illegal \cup {Echo(n, m) : n, m \in {1, 2}}
=============================================================================
