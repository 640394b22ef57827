---------------------------- MODULE BootstrapInv ----------------------------
(***************************************************************************)
(* The inductive invariant of Bootstrap.  A stream is described by the     *)
(* place its first item has among the items of one exchange: what a        *)
(* process sends in its k-th exchange, and what the root reflects in it,   *)
(* depend on the ranks alone, not on the order of the steps.               *)
(***************************************************************************)
EXTENDS Bootstrap

Item == [kind : {"u32"}, n : Nat]
          \cup [kind : {"entry"}, src : Nat, dst : Nat, round : Nat]

(* The i-th destination of rank r.                                         *)
dest(r, i) == IF i <= r THEN i - 1 ELSE i

(* The items rank r sends in exchange k: a count, then that many entries.  *)
UpLen(k) == IF k = 0 THEN 0 ELSE IF k = 1 THEN P ELSE 1
UpItems(r, k) ==
  [i \in Nat |-> IF i = 1 THEN u32(UpLen(k) - 1) ELSE entry(r, dest(r, i - 1), k)]

(* The table of exchange k: the entries of rank 0, 1, ... in this order;   *)
(* only the first exchange carries any.                                    *)
TabLen(k) == IF k = 1 THEN P * (P - 1) ELSE 0
TabItems ==
  [j \in Nat |-> LET r == (j - 1) \div (P - 1)
                 IN  entry(r, dest(r, ((j - 1) % (P - 1)) + 1), 1)]

(* The items the root reflects in exchange k.                              *)
DownLen(k) == IF k = 0 THEN 0 ELSE 1 + TabLen(k)
DownItems(k) == [i \in Nat |-> IF i = 1 THEN u32(TabLen(k)) ELSE TabItems[i - 1]]

(* s holds the items that follow the c-th of items.                        *)
Segment(s, items, c) == \A i \in 1 .. Len(s) : s[i] = items[c + i]

-----------------------------------------------------------------------------
TypeOK ==
  /\ rank_of \in [Proc -> Nat] /\ rank_of[0] = 0
  /\ pc \in [Proc -> {"start", "accept", "read_rank", "announce", "idle", "gather",
                      "reflect", "send", "recv", "failed"}]
  /\ backlog \in Seq(Peer) /\ accepted \in Seq(Peer)
  /\ peer_fds_ \in [Peer -> Proc]
  /\ up \in [Proc -> Seq(Item)] /\ down \in [Proc -> Seq(Item)]
  /\ entered \in [Proc -> Nat] /\ left \in [Proc -> Nat]
  /\ todo \in [Proc -> Seq(Item)] /\ table \in [Proc -> Seq(Item)]
  /\ due \in [Proc -> Int] /\ at \in Nat

(* A connection is filed for every rank.                                   *)
Complete == \A r \in Peer : peer_fds_[r] # 0

(* The items of its current exchange that p has received.                  *)
Got(p) == IF due[p] = -1 THEN 0 ELSE 1 + Len(table[p])

(* Where a process other than the root stands.                             *)
PeerControl(p) ==
  /\ pc[p] \in {"start", "announce", "idle", "send", "recv", "failed"}
  /\ pc[p] \in {"start", "announce"} => entered[p] = 0 /\ up[p] = <<>>
  /\ pc[p] = "send" => todo[p] # <<>>
  /\ pc[p] \in {"start", "announce", "idle", "recv"} => todo[p] = <<>>
  /\ pc[p] \in {"start", "announce", "idle"} =>
       left[p] = entered[p] /\ Got(p) = DownLen(entered[p])
  /\ pc[p] \in {"send", "recv"} => entered[p] = left[p] + 1

(* What it has received and what is on its way to it belong to one         *)
(* exchange, which is its current one.                                     *)
PeerDown(p) ==
  /\ IF due[p] = -1 THEN table[p] = <<>>
     ELSE due[p] = TabLen(entered[p]) - Len(table[p]) /\ entered[p] > 0
  /\ Segment(table[p], TabItems, 0)
  /\ Segment(down[p], DownItems(entered[p]), Got(p))
  /\ Got(p) + Len(down[p]) <= DownLen(entered[p])

(* Nothing comes back before everyone has entered.                         *)
Sync ==
  /\ \A p \in Proc : left[p] > 0 => Complete
  /\ \A p, q \in Proc : left[p] <= entered[q]
  /\ \A p \in Peer : Got(p) + Len(down[p]) > 0 =>
       Complete /\ \A q \in Proc : entered[p] <= entered[q]

(* A connection is filed under the rank its process has announced.         *)
Filed ==
  \A r \in Peer : peer_fds_[r] # 0 =>
    rank_of[peer_fds_[r]] = r /\ pc[peer_fds_[r]] \notin {"start", "announce"}

(* A process connects once, and its connection is accepted once.           *)
Connected ==
  /\ \A i \in 1 .. Len(accepted) : pc[accepted[i]] # "start"
  /\ \A i \in 1 .. Len(backlog) : pc[backlog[i]] # "start"

Distinct ==
  /\ \A i, j \in 1 .. Len(accepted) : accepted[i] = accepted[j] => i = j
  /\ \A i, j \in 1 .. Len(backlog) : backlog[i] = backlog[j] => i = j
  /\ \A i \in 1 .. Len(accepted), j \in 1 .. Len(backlog) : accepted[i] # backlog[j]

(* p sends the items of its k-th exchange that follow the c-th.            *)
Sends(p, k, c) ==
  /\ c + Len(up[p]) + Len(todo[p]) = UpLen(k)
  /\ Segment(up[p], UpItems(rank_of[p], k), c)
  /\ Segment(todo[p], UpItems(rank_of[p], k), c + Len(up[p]))

(* The root has not read p's rank.                                         *)
Unread(p) ==
  \A i \in 1 .. Len(accepted) :
    accepted[i] = p => pc[0] = "read_rank" /\ i = Len(accepted)

(* Until it does, the rank is ahead of everything else p sends.            *)
Announced(p) ==
  /\ \A r \in Peer : peer_fds_[r] # p
  /\ entered[p] \in {0, 1}
  /\ IF up[p] = <<>>
     THEN /\ pc[p] \in {"start", "announce", "failed"}
          /\ entered[p] = 0 /\ todo[p] = <<>>
     ELSE /\ up[p][1] = u32(rank_of[p])
          /\ rank_of[p] \in Peer =>
               /\ Len(up[p]) - 1 + Len(todo[p]) = UpLen(entered[p])
               /\ Segment(Tail(up[p]), UpItems(rank_of[p], entered[p]), 0)
               /\ Segment(todo[p], UpItems(rank_of[p], entered[p]), Len(up[p]) - 1)

(* The items of its current exchange that the root has taken from rank r.  *)
Taken(r) ==
  IF pc[0] # "gather" \/ r < at THEN UpLen(entered[0])
  ELSE IF r > at \/ due[0] = -1 THEN 0 ELSE UpLen(entered[0]) - due[0]

(* The exchanges whose reflection to rank r is complete, and the items of  *)
(* the next one that are reflected already.                                *)
Reflected(r) ==
  IF pc[0] = "gather" \/ (pc[0] = "reflect" /\ at <= r) THEN entered[0] - 1 ELSE entered[0]
Pushed(r) ==
  IF pc[0] = "reflect" /\ at = r THEN DownLen(entered[0]) - Len(todo[0]) ELSE 0

(* The process filed under r is at most one exchange away from the root.   *)
UpStream(r) ==
  LET p == peer_fds_[r]
  IN  \/ /\ entered[p] + 1 = entered[0] /\ pc[0] = "gather" /\ Taken(r) = 0
         /\ up[p] = <<>> /\ todo[p] = <<>>
      \/ entered[p] = entered[0] /\ Sends(p, entered[0], Taken(r))
      \/ /\ entered[p] = entered[0] + 1 /\ Taken(r) = UpLen(entered[0])
         /\ Sends(p, entered[0] + 1, 0)

DownStream(r) ==
  LET p == peer_fds_[r]
  IN  \/ entered[p] = Reflected(r) /\ Got(p) + Len(down[p]) = DownLen(Reflected(r))
      \/ entered[p] = Reflected(r) + 1 /\ Got(p) + Len(down[p]) = Pushed(r)

(* Where the root stands, and what it has collected.                       *)
RootControl ==
  /\ pc[0] \in {"start", "accept", "read_rank", "idle", "gather", "reflect", "failed"}
  /\ pc[0] = "start" => backlog = <<>> /\ accepted = <<>>
  /\ pc[0] \in {"start", "accept", "read_rank"} => entered[0] = 0
  /\ pc[0] = "read_rank" => accepted # <<>>
  /\ pc[0] \in {"start", "accept", "read_rank", "idle"} => left[0] = entered[0]
  /\ pc[0] \in {"gather", "reflect"} => entered[0] = left[0] + 1 /\ at \in Peer

RootGather ==
  pc[0] = "gather" =>
    /\ \A r \in 1 .. at - 1 : peer_fds_[r] # 0
    /\ Segment(table[0], TabItems, 0)
    /\ \/ due[0] = -1 /\ Len(table[0]) = IF entered[0] = 1 THEN at * (P - 1) ELSE 0
       \/ /\ entered[0] = 1 /\ due[0] \in 1 .. P - 1 /\ peer_fds_[at] # 0
          /\ Len(table[0]) = at * (P - 1) + (P - 1) - due[0]

RootReflect ==
  pc[0] = "reflect" =>
    /\ Complete
    /\ Segment(table[0], TabItems, 0) /\ Len(table[0]) = TabLen(entered[0])
    /\ Len(todo[0]) \in 1 .. DownLen(entered[0])
    /\ Segment(todo[0], DownItems(entered[0]), DownLen(entered[0]) - Len(todo[0]))

(* While the root runs, it and the streams fit together.                   *)
RootRuns ==
  pc[0] # "failed" =>
    /\ \A p \in Peer : Unread(p) => Announced(p)
    /\ \A r \in Peer : peer_fds_[r] # 0 => UpStream(r) /\ DownStream(r)

Inv ==
  /\ TypeOK
  /\ \A p \in Peer : PeerControl(p) /\ PeerDown(p)
  /\ Sync /\ Filed /\ Connected /\ Distinct
  /\ RootControl /\ RootGather /\ RootReflect /\ RootRuns
=============================================================================
