----------------------------- MODULE Bootstrap ------------------------------
(***************************************************************************)
(* TcpBootstrap (src/bootstrap/tcp_bootstrap.cc): the rendezvous of all    *)
(* ranks at rank 0 and the exchange it offers, as a Communicator uses it:  *)
(* the first exchange carries one QpEndpointInfo per peer, the later ones  *)
(* are empty and serve as barriers (communicator.cc).                      *)
(*                                                                         *)
(* Process 0 is the root.  Process p > 0 has the rank it was launched with *)
(* in rank_of[p]; a launch may be wrong, give two processes one rank or a  *)
(* rank outside the world.  A connection is named by the process that      *)
(* opened it and carries two byte streams.  What send_exact and recv_exact *)
(* move as a unit, a u32 or an entry, is one item; a stream holds at most  *)
(* SockBuf items, so a sender can block.                                   *)
(***************************************************************************)
EXTENDS Integers, Sequences

CONSTANTS
  P,            \* world_size
  Launches,     \* the possible values of rank_of
  Exchanges,    \* bound on the exchanges of a run
  MaxAttempts,  \* kMaxAttempts of connect_with_retry
  MaxCrashes,   \* bound on the processes that die on their own
  SockBuf       \* items a socket holds on their way

ASSUME PAssumption == P \in Nat \ {0}
ASSUME BoundsAssumption ==
  /\ Exchanges \in Nat /\ MaxCrashes \in Nat
  /\ MaxAttempts \in Nat \ {0} /\ SockBuf \in Nat \ {0}

Proc == 0 .. P - 1
Peer == 1 .. P - 1

(* Process 0 is the one launched as rank 0.                                *)
ASSUME LaunchesAssumption == Launches \subseteq {f \in [Proc -> Nat] : f[0] = 0}

VARIABLES
  rank_of,   \* rank_of[p]: the rank process p was launched with
  pc,        \* pc[p]: where p stands
  attempts,  \* attempts[p]: failed connects so far
  backlog,   \* connections the kernel has made and the root not yet accepted
  accepted,  \* connections the root has accepted, in order
  peer_fds_, \* peer_fds_[r]: the connection filed under rank r, 0 for none
  up, down,  \* up[p], down[p]: items on their way to the root and back
  entered,   \* entered[p]: exchanges begun
  left,      \* left[p]: exchanges returned from
  todo,      \* todo[p]: items p still has to send (the root: to peer at)
  due,       \* due[p]: entries p still has to receive, -1: their number first
  at,        \* the root's loop variable r
  table,     \* table[p]: the entries p has collected
  result,    \* result[p]: what p's last exchange returned
  crashes    \* processes that died on their own so far

setup == <<attempts, backlog, accepted, peer_fds_>>
vars == <<rank_of, pc, setup, up, down, entered, left, todo, due, at, table, result,
          crashes>>

-----------------------------------------------------------------------------
u32(n) == [kind |-> "u32", n |-> n]
entry(src, dst, k) == [kind |-> "entry", src |-> src, dst |-> dst, round |-> k]

(* The infos of exchange k, one per peer, in any fixed order.              *)
outgoing(p, k) ==
  LET r == rank_of[p]
  IN  IF k > 1 THEN <<>>
      ELSE [i \in 1 .. (IF r < P THEN P - 1 ELSE P) |->
              entry(r, IF i <= r THEN i - 1 ELSE i, k)]

(* Bug: the entries for the other ranks are kept as well.                  *)
addressed_to_Any(r, tab) ==
  [src \in {tab[i].src : i \in 1 .. Len(tab)} |->
     tab[CHOOSE i \in 1 .. Len(tab) : tab[i].src = src /\
           \A j \in i + 1 .. Len(tab) : tab[j].src # src]]

(* The map built from a table: one info per source rank.                   *)
addressed_to(r, tab) ==
  [src \in {tab[i].src : i \in {j \in 1 .. Len(tab) : tab[j].dst = r}} |->
     tab[CHOOSE i \in 1 .. Len(tab) : tab[i].dst = r /\ tab[i].src = src /\
           \A j \in i + 1 .. Len(tab) : ~(tab[j].dst = r /\ tab[j].src = src)]]

Closed(p) == pc[p] = "failed"

Init ==
  /\ rank_of \in Launches
  /\ pc = [p \in Proc |-> "start"]
  /\ attempts = [p \in Proc |-> 0]
  /\ backlog = <<>>
  /\ accepted = <<>>
  /\ peer_fds_ = [r \in Peer |-> 0]
  /\ up = [p \in Proc |-> <<>>]
  /\ down = [p \in Proc |-> <<>>]
  /\ entered = [p \in Proc |-> 0]
  /\ left = [p \in Proc |-> 0]
  /\ todo = [p \in Proc |-> <<>>]
  /\ due = [p \in Proc |-> -1]
  /\ at = 1
  /\ table = [p \in Proc |-> <<>>]
  /\ result = [p \in Proc |-> <<>>]
  /\ crashes = 0

-----------------------------------------------------------------------------
(* The constructor.  connect succeeds as soon as the root listens: the     *)
(* kernel completes it, the root may accept it much later.                 *)
Listen ==
  /\ pc[0] = "start"
  /\ pc' = [pc EXCEPT ![0] = IF P = 1 THEN "idle" ELSE "accept"]
  /\ UNCHANGED <<rank_of, crashes, setup, up, down, entered, left, todo, due, at, table, result>>

Connect(p) ==
  /\ pc[p] = "start" /\ pc[0] \notin {"start", "failed"}
  /\ pc' = [pc EXCEPT ![p] = "announce"]
  /\ backlog' = Append(backlog, p)
  /\ UNCHANGED <<rank_of, crashes, attempts, accepted, peer_fds_, up, down, entered, left,
                 todo, due, at, table, result>>

Refused(p) ==
  /\ pc[p] = "start" /\ pc[0] \in {"start", "failed"}
  /\ attempts' = [attempts EXCEPT ![p] = @ + 1]
  /\ pc' = [pc EXCEPT ![p] = IF attempts[p] + 1 = MaxAttempts THEN "failed" ELSE @]
  /\ UNCHANGED <<rank_of, crashes, backlog, accepted, peer_fds_, up, down, entered, left,
                 todo, due, at, table, result>>

Announce(p) ==
  /\ pc[p] = "announce"
  /\ up' = [up EXCEPT ![p] = Append(@, u32(rank_of[p]))]
  /\ pc' = [pc EXCEPT ![p] = "idle"]
  /\ UNCHANGED <<rank_of, crashes, setup, down, entered, left, todo, due, at, table, result>>

Accept ==
  /\ pc[0] = "accept" /\ backlog # <<>>
  /\ accepted' = Append(accepted, Head(backlog))
  /\ backlog' = Tail(backlog)
  /\ pc' = [pc EXCEPT ![0] = "read_rank"]
  /\ UNCHANGED <<rank_of, crashes, attempts, peer_fds_, up, down, entered, left, todo, due,
                 at, table, result>>

(* Bug: connections are filed in the order in which they were accepted.    *)
filed_under_Order(their_rank) == Len(accepted)

filed_under(their_rank) == their_rank

(* recv_u32 of the announced rank; a rank that is out of range is refused, *)
(* one that is taken replaces the connection filed there before.           *)
ReadRank ==
  LET fd == accepted[Len(accepted)]
      their_rank == Head(up[fd]).n
  IN  /\ pc[0] = "read_rank" /\ up[fd] # <<>>
      /\ up' = [up EXCEPT ![fd] = Tail(@)]
      /\ IF their_rank = 0 \/ their_rank >= P
         THEN pc' = [pc EXCEPT ![0] = "failed"] /\ UNCHANGED peer_fds_
         ELSE /\ peer_fds_' = [peer_fds_ EXCEPT ![filed_under(their_rank)] = fd]
              /\ pc' = [pc EXCEPT ![0] = IF Len(accepted) = P - 1 THEN "idle"
                                         ELSE "accept"]
      /\ UNCHANGED <<rank_of, crashes, attempts, backlog, accepted, down, entered, left, todo,
                     due, at, table, result>>

-----------------------------------------------------------------------------
(* exchange, on a rank other than 0.                                       *)
Submit(p) ==
  /\ p # 0 /\ pc[p] = "idle" /\ entered[p] < Exchanges
  /\ entered' = [entered EXCEPT ![p] = @ + 1]
  /\ todo' = [todo EXCEPT ![p] = LET out == outgoing(p, entered[p] + 1)
                                 IN  <<u32(Len(out))>> \o out]
  /\ due' = [due EXCEPT ![p] = -1]
  /\ table' = [table EXCEPT ![p] = <<>>]
  /\ pc' = [pc EXCEPT ![p] = "send"]
  /\ UNCHANGED <<rank_of, crashes, setup, up, down, left, at, result>>

Send(p) ==
  /\ p # 0 /\ pc[p] = "send"
  /\ Len(up[p]) < SockBuf
  /\ up' = [up EXCEPT ![p] = Append(@, Head(todo[p]))]
  /\ todo' = [todo EXCEPT ![p] = Tail(@)]
  /\ pc' = [pc EXCEPT ![p] = IF Tail(todo[p]) = <<>> THEN "recv" ELSE "send"]
  /\ UNCHANGED <<rank_of, crashes, setup, down, entered, left, due, at, table, result>>

(* The number of entries arrives first; after the last one exchange returns *)
(* the entries addressed to this rank.                                     *)
Recv(p) ==
  LET x == Head(down[p])
      n == IF due[p] = -1 THEN x.n ELSE due[p] - 1
      tab == IF due[p] = -1 THEN <<>> ELSE Append(table[p], x)
  IN  /\ p # 0 /\ pc[p] = "recv" /\ down[p] # <<>>
      /\ down' = [down EXCEPT ![p] = Tail(@)]
      /\ due' = [due EXCEPT ![p] = n]
      /\ table' = [table EXCEPT ![p] = tab]
      /\ \/ n > 0 /\ UNCHANGED <<pc, left, result>>
         \/ /\ n = 0
            /\ pc' = [pc EXCEPT ![p] = "idle"]
            /\ left' = [left EXCEPT ![p] = entered[p]]
            /\ result' = [result EXCEPT ![p] = addressed_to(rank_of[p], tab)]
      /\ UNCHANGED <<rank_of, crashes, setup, up, entered, todo, at>>

(* exchange, on rank 0: gather from rank 1, 2, ... in this order, then     *)
(* reflect the whole table to rank 1, 2, ... in this order.                *)
Gather ==
  /\ pc[0] = "idle" /\ entered[0] < Exchanges
  /\ entered' = [entered EXCEPT ![0] = @ + 1]
  /\ table' = [table EXCEPT ![0] = outgoing(0, entered[0] + 1)]
  /\ due' = [due EXCEPT ![0] = -1]
  /\ at' = 1
  /\ IF P = 1
     THEN /\ pc' = pc
          /\ left' = [left EXCEPT ![0] = @ + 1]
          /\ result' = [result EXCEPT ![0] = <<>>]
     ELSE pc' = [pc EXCEPT ![0] = "gather"] /\ UNCHANGED <<left, result>>
  /\ UNCHANGED <<rank_of, crashes, setup, up, down, todo>>

(* Bug: the announced total counts itself.                                 *)
Reflection_OneMore(tab) == <<u32(Len(tab) + 1)>> \o tab

Reflection(tab) == <<u32(Len(tab))>> \o tab

(* Bug: the loop over the ranks stops before the last one.                 *)
last_rank_OneShort == P - 2

last_rank == P - 1

GatherRecv ==
  LET fd == peer_fds_[at]
      x == Head(up[fd])
      n == IF due[0] = -1 THEN x.n ELSE due[0] - 1
      tab == IF due[0] = -1 THEN table[0] ELSE Append(table[0], x)
  IN  /\ pc[0] = "gather" /\ fd # 0 /\ up[fd] # <<>>
      /\ up' = [up EXCEPT ![fd] = Tail(@)]
      /\ table' = [table EXCEPT ![0] = tab]
      /\ due' = [due EXCEPT ![0] = IF n = 0 THEN -1 ELSE n]
      /\ \/ n > 0 /\ UNCHANGED <<pc, at, todo>>
         \/ n = 0 /\ at < last_rank /\ at' = at + 1 /\ UNCHANGED <<pc, todo>>
         \/ /\ n = 0 /\ at = last_rank /\ at' = 1
            /\ pc' = [pc EXCEPT ![0] = "reflect"]
            /\ todo' = [todo EXCEPT ![0] = Reflection(tab)]
      /\ UNCHANGED <<rank_of, crashes, setup, down, entered, left, result>>

Reflect ==
  LET fd == peer_fds_[at]
      rest == Tail(todo[0])
  IN  /\ pc[0] = "reflect"
      /\ Len(down[fd]) < SockBuf
      /\ down' = [down EXCEPT ![fd] = Append(@, Head(todo[0]))]
      /\ \/ /\ rest # <<>>
            /\ todo' = [todo EXCEPT ![0] = rest] /\ UNCHANGED <<pc, at, left, result>>
         \/ /\ rest = <<>> /\ at < P - 1
            /\ todo' = [todo EXCEPT ![0] = Reflection(table[0])]
            /\ at' = at + 1 /\ UNCHANGED <<pc, left, result>>
         \/ /\ rest = <<>> /\ at = P - 1
            /\ todo' = [todo EXCEPT ![0] = <<>>]
            /\ pc' = [pc EXCEPT ![0] = "idle"]
            /\ left' = [left EXCEPT ![0] = entered[0]]
            /\ result' = [result EXCEPT ![0] = addressed_to(0, table[0])]
            /\ UNCHANGED at
      /\ UNCHANGED <<rank_of, crashes, setup, up, entered, due, table>>

-----------------------------------------------------------------------------
(* Bug: recv returning 0 is taken for a short read and retried.            *)
ReadsEnd_Ignored(p) == FALSE

(* A process that sends to a connection whose other end is gone may fail   *)
(* (an exception, or SIGPIPE), one that reads its end does; so does the    *)
(* root when it reads from a rank no connection was filed for, whose       *)
(* peer_fds_ is -1.  All its own sockets go with it.                       *)
ReadsEnd(p) ==
  \/ p # 0 /\ pc[p] = "recv" /\ Closed(0) /\ down[p] = <<>>
  \/ p = 0 /\ \E fd \in Peer :
       /\ \/ pc[0] = "read_rank" /\ fd = accepted[Len(accepted)]
          \/ pc[0] = "gather" /\ fd = peer_fds_[at]
       /\ Closed(fd) /\ up[fd] = <<>>

SendsInVain(p) ==
  \/ p # 0 /\ pc[p] \in {"announce", "send"} /\ Closed(0)
  \/ p = 0 /\ pc[0] = "reflect" /\ Closed(peer_fds_[at])

Fail(p) ==
  /\ \/ ReadsEnd(p)
     \/ SendsInVain(p)
     \/ p = 0 /\ pc[0] = "gather" /\ peer_fds_[at] = 0
  /\ pc' = [pc EXCEPT ![p] = "failed"]
  /\ UNCHANGED <<rank_of, crashes, setup, up, down, entered, left, todo, due, at, table,
                 result>>

(* A process dies where it stands, for a reason of its own.                *)
Crash(p) ==
  /\ crashes < MaxCrashes /\ pc[p] # "failed"
  /\ crashes' = crashes + 1
  /\ pc' = [pc EXCEPT ![p] = "failed"]
  /\ UNCHANGED <<rank_of, setup, up, down, entered, left, todo, due, at, table, result>>

Root == Listen \/ Accept \/ ReadRank \/ Gather \/ GatherRecv \/ Reflect
Other(p) == Connect(p) \/ Refused(p) \/ Announce(p) \/ Submit(p) \/ Send(p) \/ Recv(p)

Stopped(p) == pc[p] = "failed" \/ (pc[p] = "idle" /\ entered[p] = Exchanges)

Terminating == (\A p \in Proc : Stopped(p)) /\ UNCHANGED vars

Next ==
  \/ Root \/ Fail(0)
  \/ \E p \in Peer : Other(p) \/ Fail(p)
  \/ \E p \in Proc : Crash(p)
  \/ Terminating

(* Every process keeps running until it returns or fails.                  *)
Fairness ==
  /\ WF_vars(Root \/ Fail(0))
  /\ \A p \in Peer : WF_vars(Other(p) \/ Fail(p))

Spec == Init /\ [][Next]_vars
FairSpec == Spec /\ Fairness

-----------------------------------------------------------------------------
(* One process per rank; which of them has which is up to the launcher.    *)
WellLaunched ==
  /\ \A p \in Proc : rank_of[p] \in Proc
  /\ \A p, q \in Proc : rank_of[p] = rank_of[q] => p = q

(***************************************************************************)
(* Communicator::barrier "blocks until every rank has called barrier() for *)
(* this round", and exchange until every rank has submitted: no process    *)
(* returns from its k-th exchange before all have begun theirs, although a *)
(* fast rank may already have sent its next submission while the root is   *)
(* still reflecting this one.                                              *)
(***************************************************************************)
BarrierSync == \A p, q \in Proc : left[p] <= entered[q]

(***************************************************************************)
(* A wrong launch, with a rank out of range or two processes of one rank,  *)
(* never produces a communicator: no exchange ever returns.                *)
(***************************************************************************)
WrongLaunchIsLoud == ~WellLaunched => \A p \in Proc : left[p] = 0

Joined(p) == p = 0 \/ \E q \in 1 .. Len(backlog \o accepted) : (backlog \o accepted)[q] = p

(***************************************************************************)
(* Nobody waits for ever on a full socket or on another process's turn:    *)
(* unless a process gives up connecting or dies, all exchanges end on all  *)
(* ranks, with streams of any small capacity.                              *)
(***************************************************************************)
AllLeave ==
  WellLaunched =>
    <>(\/ \A p \in Proc : left[p] = Exchanges
       \/ \E p \in Proc : pc[p] = "failed")

(***************************************************************************)
(* "Peer closed early" becomes an explicit error: once everybody has       *)
(* connected, a process that dies takes all unfinished ones with it and    *)
(* nobody is left waiting.  The same when the root dies at any time.       *)
(***************************************************************************)
DeathIsNoticed ==
  (\E p \in Proc : Closed(p)) /\ (Closed(0) \/ \A p \in Proc : Joined(p))
    ~> \A p \in Proc : Stopped(p)

(* What p has submitted so far, by destination.                            *)
submissions(p) ==
  [k \in 1 .. entered[p] |->
     LET out == outgoing(p, k)
     IN  [dst \in {out[i].dst : i \in 1 .. Len(out)} |-> entry(rank_of[p], dst, k)]]

Abstract == INSTANCE Exchange WITH submitted <- [p \in Proc |-> submissions(p)]

(***************************************************************************)
(* The sockets, the table and the reflection implement exchange as its     *)
(* header states it, for every launch, with failures and with one rank     *)
(* ahead of another by a whole exchange: a process returns from its k-th   *)
(* exchange when all have entered theirs, with what was submitted to it.   *)
(***************************************************************************)
ImplementsExchange == Abstract!ExchangeSpec

(***************************************************************************)
(* communicator.cc: constructing the bootstrap "blocks until every rank    *)
(* has joined the rendezvous", so that after it "every rank is guaranteed  *)
(* reachable".                                                             *)
(***************************************************************************)
ConstructedMeansAllJoined ==
  \A p \in Proc : pc[p] = "idle" => \A q \in Proc : Joined(q)
=============================================================================
