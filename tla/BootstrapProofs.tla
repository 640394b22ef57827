-------------------------- MODULE BootstrapProofs ---------------------------
(***************************************************************************)
(* TcpBootstrap for every number of processes, every launch and any        *)
(* capacity of the sockets, with processes that die anywhere: the proof    *)
(* that Inv of BootstrapInv is an invariant, and what follows from it.     *)
(***************************************************************************)
EXTENDS BootstrapInv, FiniteSetTheorems, TLAPS

-----------------------------------------------------------------------------
(* Segments of a stream.                                                   *)

(***************************************************************************)
(* Taking an item from the head of a stream.                               *)
(***************************************************************************)
LEMMA SegmentTail ==
  ASSUME NEW S, NEW s \in Seq(S), NEW items, NEW c \in Nat, s # <<>>,
         Segment(s, items, c)
  PROVE  /\ Head(s) \in S /\ Head(s) = items[c + 1]
         /\ Tail(s) \in Seq(S) /\ Len(Tail(s)) = Len(s) - 1 /\ Len(s) > 0
         /\ Segment(Tail(s), items, c + 1)
<1>1. Len(s) \in Nat /\ Len(s) > 0 /\ Head(s) = s[1] /\ Head(s) \in S
  OBVIOUS
<1>2. Tail(s) \in Seq(S) /\ Len(Tail(s)) = Len(s) - 1
  OBVIOUS
<1>3. ASSUME NEW i \in 1 .. Len(Tail(s))
      PROVE  Tail(s)[i] = items[c + 1 + i]
  <2>1. Tail(s)[i] = s[i + 1] /\ i + 1 \in 1 .. Len(s)
    BY <1>1, <1>2
  <2>2. c + (i + 1) = c + 1 + i
    OBVIOUS
  <2> QED BY <2>1, <2>2 DEF Segment
<1> QED BY <1>1, <1>2, <1>3 DEF Segment

(***************************************************************************)
(* Putting an item at the end of a stream.                                 *)
(***************************************************************************)
LEMMA SegmentAppend ==
  ASSUME NEW S, NEW s \in Seq(S), NEW items, NEW c \in Nat, NEW x \in S,
         Segment(s, items, c), x = items[c + Len(s) + 1]
  PROVE  /\ Append(s, x) \in Seq(S) /\ Len(Append(s, x)) = Len(s) + 1
         /\ Append(s, x) # <<>>
         /\ Segment(Append(s, x), items, c)
<1>1. /\ Append(s, x) \in Seq(S) /\ Len(Append(s, x)) = Len(s) + 1
      /\ \A i \in 1 .. Len(s) : Append(s, x)[i] = s[i]
      /\ Append(s, x)[Len(s) + 1] = x
  OBVIOUS
<1>2. ASSUME NEW i \in 1 .. Len(Append(s, x))
      PROVE  Append(s, x)[i] = items[c + i]
  <2>1. CASE i \in 1 .. Len(s)
    BY <1>1, <2>1 DEF Segment
  <2>2. CASE i = Len(s) + 1
    <3>1. c + i = c + Len(s) + 1
      BY <2>2
    <3> QED BY <1>1, <2>2, <3>1
  <2> QED BY <1>1, <2>1, <2>2
<1>3. Append(s, x) # <<>>
  OBVIOUS
<1> QED BY <1>1, <1>2, <1>3 DEF Segment

(***************************************************************************)
(* An empty sequence is a segment of anything.                             *)
(***************************************************************************)
LEMMA SegmentEmpty ==
  ASSUME NEW items, NEW c
  PROVE  Segment(<<>>, items, c) /\ Len(<<>>) = 0
BY DEF Segment

(***************************************************************************)
(* The elements of a sequence, and of one with an element more.            *)
(***************************************************************************)
LEMMA Elements ==
  ASSUME NEW S, NEW s \in Seq(S)
  PROVE  Len(s) \in Nat /\ \A i \in 1 .. Len(s) : s[i] \in S
OBVIOUS

(***************************************************************************)
(* The empty sequence is the one without elements.                         *)
(***************************************************************************)
LEMMA NoElements ==
  ASSUME NEW S, NEW s \in Seq(S)
  PROVE  s = <<>> <=> Len(s) = 0
OBVIOUS

(***************************************************************************)
(* One element less.                                                       *)
(***************************************************************************)
LEMMA OneLess ==
  ASSUME NEW S, NEW s \in Seq(S), s # <<>>
  PROVE  /\ Tail(s) \in Seq(S) /\ Len(Tail(s)) = Len(s) - 1 /\ Len(s) >= 1
         /\ Len(s) = 1 <=> Tail(s) = <<>>
<1>1. Tail(s) \in Seq(S) /\ Len(Tail(s)) = Len(s) - 1 /\ Len(s) \in Nat /\ Len(s) >= 1
  OBVIOUS
<1>2. Tail(s) = <<>> <=> Len(Tail(s)) = 0
  BY <1>1, NoElements
<1> QED BY <1>1, <1>2

(***************************************************************************)
(* One more element.                                                       *)
(***************************************************************************)
LEMMA OneMore ==
  ASSUME NEW S, NEW s \in Seq(S), NEW x \in S, NEW t, t = Append(s, x)
  PROVE  /\ t \in Seq(S) /\ Len(t) = Len(s) + 1 /\ t # <<>>
         /\ \A i \in 1 .. Len(s) : t[i] = s[i]
         /\ t[Len(s) + 1] = x
         /\ \A i \in 1 .. Len(t) : i \in 1 .. Len(s) \/ i = Len(s) + 1
OBVIOUS

(***************************************************************************)
(* A count in front of the items it counts.                                *)
(***************************************************************************)
LEMMA Counted ==
  ASSUME NEW S, NEW s \in Seq(S), NEW x \in S
  PROVE  /\ <<x>> \o s \in Seq(S) /\ Len(<<x>> \o s) = Len(s) + 1
         /\ <<x>> \o s # <<>>
         /\ (<<x>> \o s)[1] = x
         /\ \A i \in 1 .. Len(s) : (<<x>> \o s)[i + 1] = s[i]
OBVIOUS

-----------------------------------------------------------------------------
(* The items.                                                              *)

(***************************************************************************)
(* Numbers and entries are items, and their parts are what they were made  *)
(* of.                                                                     *)
(***************************************************************************)
LEMMA ItemParts ==
  /\ \A m \in Nat : u32(m) \in Item /\ u32(m).n = m
  /\ \A s, d, k \in Nat : /\ entry(s, d, k) \in Item
                          /\ entry(s, d, k).src = s /\ entry(s, d, k).dst = d
BY DEF Item, u32, entry

(***************************************************************************)
(* The lengths of the streams.                                             *)
(***************************************************************************)
LEMMA Lengths ==
  ASSUME NEW k \in Nat
  PROVE  /\ UpLen(k) \in Nat /\ TabLen(k) \in Nat /\ DownLen(k) \in Nat
         /\ k = 0 => UpLen(k) = 0 /\ DownLen(k) = 0
         /\ k > 0 => UpLen(k) >= 1 /\ DownLen(k) = TabLen(k) + 1
         /\ k = 1 => UpLen(k) = P /\ TabLen(k) = P * (P - 1)
         /\ k > 1 => UpLen(k) = 1 /\ TabLen(k) = 0
<1>1. P \in Nat /\ P >= 1 /\ P * (P - 1) \in Nat
  BY PAssumption
<1> QED BY <1>1 DEF UpLen, TabLen, DownLen

(***************************************************************************)
(* What a process with a rank of the world sends in its k-th exchange.     *)
(***************************************************************************)
LEMMA OutgoingItems ==
  ASSUME TypeOK, NEW p \in Proc, rank_of[p] \in Proc, NEW k \in Nat \ {0}
  PROVE  /\ outgoing(p, k) \in Seq(Item)
         /\ Len(outgoing(p, k)) = UpLen(k) - 1
         /\ \A i \in 1 .. UpLen(k) - 1 :
              outgoing(p, k)[i] = entry(rank_of[p], dest(rank_of[p], i), k)
<1> DEFINE r == rank_of[p]
<1>1. r \in Nat /\ r < P /\ P \in Nat
  BY PAssumption DEF Proc
<1>2. CASE k > 1
  <2>1. outgoing(p, k) = <<>> /\ <<>> \in Seq(Item) /\ Len(<<>>) = 0
    BY <1>2 DEF outgoing
  <2>2. UpLen(k) = 1
    BY <1>2, Lengths
  <2> QED BY <2>1, <2>2
<1>3. CASE k = 1
  <2>1. outgoing(p, k) = [i \in 1 .. P - 1 |-> entry(r, dest(r, i), k)]
    BY <1>1, <1>3 DEF outgoing, dest
  <2>2. ASSUME NEW i \in 1 .. P - 1 PROVE entry(r, dest(r, i), k) \in Item
    <3>1. dest(r, i) \in Nat
      BY <1>1 DEF dest
    <3> QED BY <1>1, <3>1, ItemParts
  <2>3. P - 1 \in Nat /\ UpLen(k) - 1 = P - 1
    BY <1>1, <1>3, Lengths
  <2> HIDE DEF r
  <2>4. outgoing(p, k) \in Seq(Item) /\ Len(outgoing(p, k)) = P - 1
    BY <2>1, <2>2, <2>3
  <2> QED BY <2>1, <2>3, <2>4 DEF r
<1> QED BY <1>2, <1>3

(***************************************************************************)
(* The same with its count in front.                                       *)
(***************************************************************************)
LEMMA SubmittedItems ==
  ASSUME TypeOK, NEW p \in Proc, rank_of[p] \in Proc, NEW k \in Nat \ {0},
         NEW s, s = <<u32(Len(outgoing(p, k)))>> \o outgoing(p, k)
  PROVE  /\ s \in Seq(Item) /\ Len(s) = UpLen(k) /\ s # <<>>
         /\ Segment(s, UpItems(rank_of[p], k), 0)
<1> DEFINE out == outgoing(p, k)
           m == UpLen(k) - 1
<1>1. /\ out \in Seq(Item) /\ Len(out) = m
      /\ \A i \in 1 .. m : out[i] = entry(rank_of[p], dest(rank_of[p], i), k)
  BY OutgoingItems
<1>2. m \in Nat /\ u32(m) \in Item /\ UpLen(k) = m + 1
  <2>1. UpLen(k) \in Nat /\ UpLen(k) >= 1
    BY Lengths
  <2>2. m \in Nat /\ UpLen(k) = m + 1
    BY <2>1
  <2> QED BY <2>2, ItemParts
<1>3. s = <<u32(m)>> \o out
  BY <1>1
<1>4. /\ s \in Seq(Item) /\ Len(s) = m + 1 /\ s # <<>> /\ s[1] = u32(m)
      /\ \A i \in 1 .. m : s[i + 1] = out[i]
  <2> HIDE DEF out, m
  <2>1. /\ <<u32(m)>> \o out \in Seq(Item) /\ Len(<<u32(m)>> \o out) = Len(out) + 1
        /\ <<u32(m)>> \o out # <<>>
        /\ (<<u32(m)>> \o out)[1] = u32(m)
        /\ \A i \in 1 .. Len(out) : (<<u32(m)>> \o out)[i + 1] = out[i]
    BY <1>1, <1>2, Counted
  <2> QED BY <1>1, <1>3, <2>1
<1>5. ASSUME NEW i \in 1 .. Len(s) PROVE s[i] = UpItems(rank_of[p], k)[0 + i]
  <2>1. i \in Nat /\ 0 + i = i /\ i \in 1 .. m + 1
    BY <1>2, <1>4
  <2>2. UpItems(rank_of[p], k)[i]
          = IF i = 1 THEN u32(m) ELSE entry(rank_of[p], dest(rank_of[p], i - 1), k)
    BY <2>1 DEF UpItems
  <2>3. CASE i = 1
    BY <2>1, <2>2, <2>3, <1>4
  <2>4. CASE i # 1
    <3>1. i - 1 \in 1 .. m /\ (i - 1) + 1 = i
      BY <2>1, <2>4, <1>2
    <3>2. s[i] = out[i - 1]
      BY <1>4, <3>1
    <3>3. out[i - 1] = entry(rank_of[p], dest(rank_of[p], i - 1), k)
      BY <1>1, <3>1
    <3> QED BY <2>1, <2>2, <2>4, <3>2, <3>3
  <2> QED BY <2>3, <2>4
<1> QED BY <1>2, <1>4, <1>5 DEF Segment

(***************************************************************************)
(* The entries of rank s are the P - 1 of the table from the s * (P - 1)-  *)
(* th on.                                                                  *)
(***************************************************************************)
LEMMA TabPosition ==
  ASSUME NEW s \in Proc, NEW i \in 1 .. P - 1
  PROVE  /\ s * (P - 1) + i \in 1 .. P * (P - 1)
         /\ TabItems[s * (P - 1) + i] = entry(s, dest(s, i), 1)
<1> DEFINE m == P - 1
           j == s * m + i
<1>1. m \in Nat \ {0} /\ s \in 0 .. m /\ i \in 1 .. m /\ P = m + 1
  BY PAssumption DEF Proc
<1>2. s * m \in Nat /\ s * m <= m * m /\ (m + 1) * m = m * m + m
  <2> HIDE DEF m
  <2>1. s * m \in Nat
    BY <1>1
  <2>2. PICK d \in Nat : m = s + d
    <3>1. m - s \in Nat /\ m = s + (m - s)
      BY <1>1
    <3> QED BY <3>1
  <2>3. m * m = s * m + d * m /\ d * m \in Nat
    BY <1>1, <2>2
  <2> QED BY <1>1, <2>1, <2>3
<1>3. j \in Nat /\ 1 <= j /\ j <= P * m
  BY <1>1, <1>2
<1>4. (j - 1) \div m = s /\ ((j - 1) % m) = i - 1
  <2>1. j - 1 = s * m + (i - 1) /\ i - 1 \in 0 .. m - 1
    BY <1>1, <1>2
  <2> HIDE DEF m, j
  <2>2. j - 1 = m * s + (i - 1)
    BY <1>1, <2>1
  <2> QED BY <1>1, <2>1, <2>2
<1>5. TabItems[j] = entry(s, dest(s, (i - 1) + 1), 1)
  BY <1>3, <1>4 DEF TabItems
<1>6. (i - 1) + 1 = i
  BY <1>1
<1> QED BY <1>3, <1>5, <1>6

(***************************************************************************)
(* Every place of the table is one of them.                                *)
(***************************************************************************)
LEMMA TabSource ==
  ASSUME NEW j \in 1 .. P * (P - 1)
  PROVE  \E s \in Proc, i \in 1 .. P - 1 : j = s * (P - 1) + i
<1> DEFINE m == P - 1
           s == (j - 1) \div m
           i == ((j - 1) % m) + 1
<1>1. m \in Nat /\ P = m + 1 /\ P * m = m * m + m
  BY PAssumption
<1>2. m # 0
  BY <1>1
<1>3. j - 1 \in Nat /\ j - 1 < m * m + m
  BY <1>1
<1>4. s \in Nat /\ i - 1 \in 0 .. m - 1 /\ i \in 1 .. m /\ j - 1 = m * s + (i - 1)
  <2> HIDE DEF m
  <2>1. j - 1 = m * ((j - 1) \div m) + ((j - 1) % m)
    BY <1>1, <1>2, <1>3
  <2>2. (j - 1) % m \in 0 .. m - 1 /\ (j - 1) \div m \in Nat
    BY <1>1, <1>2, <1>3
  <2>3. (j - 1) % m \in Int /\ m \in Nat
    BY <1>1, <2>2
  <2>4. i - 1 = (j - 1) % m /\ i \in Int
    BY <2>3
  <2>5. i \in 1 .. m
    BY <2>2, <2>3, <2>4
  <2> QED BY <2>1, <2>2, <2>4, <2>5
<1>5. s <= m
  <2> HIDE DEF m, s, i
  <2>1. SUFFICES ASSUME s >= m + 1 PROVE FALSE
    BY <1>1, <1>4
  <2>2. PICK d \in Nat : s = m + 1 + d
    <3>1. s - (m + 1) \in Nat /\ s = m + 1 + (s - (m + 1))
      BY <1>1, <1>4, <2>1
    <3> QED BY <3>1
  <2>3. m * s = m * m + m + m * d /\ m * d \in Nat
    BY <1>1, <2>2
  <2> QED BY <1>1, <1>3, <1>4, <2>3
<1>6. s \in Proc
  BY <1>1, <1>4, <1>5 DEF Proc
<1>7. j = s * m + i
  <2> HIDE DEF m, s, i
  <2>1. m * s = s * m /\ m * s \in Nat
    BY <1>1, <1>4
  <2> QED BY <1>3, <1>4, <2>1
<1> QED BY <1>4, <1>6, <1>7

-----------------------------------------------------------------------------
(* The launch.                                                             *)

(***************************************************************************)
(* When a connection is filed for every rank, every process has a rank of  *)
(* its own and its connection is the one filed there.  No two ranks share  *)
(* a connection, since it was filed under the rank of its process, and     *)
(* there are no more processes than ranks.                                 *)
(***************************************************************************)
LEMMA AllFiled ==
  ASSUME TypeOK, Filed, Complete
  PROVE  /\ \A p \in Peer : rank_of[p] \in Peer /\ peer_fds_[rank_of[p]] = p
         /\ WellLaunched
<1>1. \A r \in Peer : peer_fds_[r] \in Peer /\ rank_of[peer_fds_[r]] = r
  BY DEF TypeOK, Filed, Complete, Proc, Peer
<1>2. peer_fds_ \in Injection(Peer, Peer)
  <2>1. peer_fds_ \in [Peer -> Peer]
    BY <1>1 DEF TypeOK
  <2>2. \A a, b \in Peer : peer_fds_[a] = peer_fds_[b] => a = b
    BY <1>1
  <2> QED BY <2>1, <2>2 DEF Injection, IsInjective
<1>3. IsFiniteSet(Peer)
  BY PAssumption, FS_Interval DEF Peer
<1>4. peer_fds_ \in Surjection(Peer, Peer)
  BY <1>2, <1>3, FS_Injection
<1>5. ASSUME NEW p \in Peer PROVE rank_of[p] \in Peer /\ peer_fds_[rank_of[p]] = p
  <2>1. PICK r \in Peer : peer_fds_[r] = p
    BY <1>4 DEF Surjection
  <2> QED BY <1>1, <2>1
<1>6. \A p \in Proc : p = 0 \/ p \in Peer
  BY PAssumption DEF Proc, Peer
<1>7. 0 \notin Peer /\ rank_of[0] = 0 /\ Peer \subseteq Proc /\ 0 \in Proc
  BY PAssumption DEF Peer, Proc, TypeOK
<1>8. WellLaunched
  BY <1>5, <1>6, <1>7 DEF WellLaunched
<1> QED BY <1>5, <1>8

-----------------------------------------------------------------------------
(* What a step leaves alone.                                               *)

(***************************************************************************)
(* The processes: the root and the others.                                 *)
(***************************************************************************)
LEMMA Processes ==
  /\ 0 \in Proc /\ 0 \notin Peer /\ Peer \subseteq Proc
  /\ \A p \in Proc : p = 0 \/ p \in Peer
  /\ \A p \in Peer : p \in Nat /\ p >= 1 /\ p <= P - 1
  /\ P \in Nat /\ P >= 1
BY PAssumption DEF Proc, Peer

(***************************************************************************)
(* The parts of the invariant, as hypotheses of the lemmas that need them. *)
(***************************************************************************)
Peers == \A p \in Peer : PeerControl(p) /\ PeerDown(p)

(***************************************************************************)
(* Connections are those of processes.                                     *)
(***************************************************************************)
LEMMA Connections ==
  ASSUME TypeOK
  PROVE  /\ Len(accepted) \in Nat /\ \A i \in 1 .. Len(accepted) : accepted[i] \in Peer
         /\ Len(backlog) \in Nat /\ \A i \in 1 .. Len(backlog) : backlog[i] \in Peer
<1>1. accepted \in Seq(Peer) /\ backlog \in Seq(Peer)
  BY DEF TypeOK
<1> QED BY <1>1, Elements

(***************************************************************************)
(* The streams of a process.                                               *)
(***************************************************************************)
LEMMA Streams ==
  ASSUME TypeOK, NEW p \in Proc
  PROVE  /\ up[p] \in Seq(Item) /\ down[p] \in Seq(Item)
         /\ todo[p] \in Seq(Item) /\ table[p] \in Seq(Item)
         /\ Len(up[p]) \in Nat /\ Len(down[p]) \in Nat
         /\ Len(todo[p]) \in Nat /\ Len(table[p]) \in Nat /\ Got(p) \in Nat
         /\ entered[p] \in Nat /\ left[p] \in Nat /\ due[p] \in Int
<1>1. /\ up[p] \in Seq(Item) /\ down[p] \in Seq(Item)
      /\ todo[p] \in Seq(Item) /\ table[p] \in Seq(Item)
      /\ entered[p] \in Nat /\ left[p] \in Nat /\ due[p] \in Int
  BY DEF TypeOK
<1>2. /\ Len(up[p]) \in Nat /\ Len(down[p]) \in Nat
      /\ Len(todo[p]) \in Nat /\ Len(table[p]) \in Nat
  BY <1>1, Elements
<1>3. Got(p) \in Nat
  BY <1>2 DEF Got
<1> QED BY <1>1, <1>2, <1>3

(***************************************************************************)
(* A process whose own state and streams stay, or that fails.              *)
(***************************************************************************)
LEMMA PeerFrame ==
  ASSUME NEW q \in Peer, PeerControl(q), PeerDown(q),
         pc'[q] = pc[q] \/ pc'[q] = "failed",
         up'[q] = up[q], down'[q] = down[q], entered'[q] = entered[q],
         left'[q] = left[q], todo'[q] = todo[q], due'[q] = due[q],
         table'[q] = table[q]
  PROVE  PeerControl(q)' /\ PeerDown(q)'
<1>1. Got(q)' = Got(q)
  BY DEF Got
<1> QED BY <1>1 DEF PeerControl, PeerDown

(***************************************************************************)
(* A stream to the root that stays, while the root stays where it is.      *)
(***************************************************************************)
LEMMA UpFrame ==
  ASSUME NEW r \in Peer, UpStream(r), peer_fds_'[r] = peer_fds_[r],
         rank_of' = rank_of, entered'[0] = entered[0], pc'[0] = pc[0], at' = at,
         due'[0] = due[0],
         entered'[peer_fds_[r]] = entered[peer_fds_[r]],
         up'[peer_fds_[r]] = up[peer_fds_[r]],
         todo'[peer_fds_[r]] = todo[peer_fds_[r]]
  PROVE  UpStream(r)'
<1>1. Taken(r)' = Taken(r)
  BY DEF Taken
<1>2. \A k, c : Sends(peer_fds_[r], k, c) => Sends(peer_fds_[r], k, c)'
  BY DEF Sends
<1> QED BY <1>1, <1>2 DEF UpStream, Sends

(***************************************************************************)
(* A stream from the root, likewise.                                       *)
(***************************************************************************)
LEMMA DownFrame ==
  ASSUME NEW r \in Peer, DownStream(r), peer_fds_'[r] = peer_fds_[r],
         entered'[0] = entered[0], pc'[0] = pc[0], at' = at, todo'[0] = todo[0],
         entered'[peer_fds_[r]] = entered[peer_fds_[r]],
         due'[peer_fds_[r]] = due[peer_fds_[r]],
         table'[peer_fds_[r]] = table[peer_fds_[r]],
         down'[peer_fds_[r]] = down[peer_fds_[r]]
  PROVE  DownStream(r)'
<1>1. Reflected(r)' = Reflected(r) /\ Pushed(r)' = Pushed(r)
  BY DEF Reflected, Pushed
<1>2. Got(peer_fds_[r])' = Got(peer_fds_[r])
  BY DEF Got
<1> QED BY <1>1, <1>2 DEF DownStream, Got

(***************************************************************************)
(* A process whose rank is unread, likewise.                               *)
(***************************************************************************)
LEMMA AnnouncedFrame ==
  ASSUME NEW p \in Peer, Announced(p), peer_fds_' = peer_fds_, rank_of' = rank_of,
         pc'[p] = pc[p] \/ pc'[p] \in {"announce", "failed"},
         entered'[p] = entered[p], up'[p] = up[p], todo'[p] = todo[p]
  PROVE  Announced(p)'
BY DEF Announced

(***************************************************************************)
(* A step that leaves the connections alone.                               *)
(***************************************************************************)
LEMMA FiledFrame ==
  ASSUME TypeOK, Filed, UNCHANGED <<rank_of, peer_fds_>>,
         \A q \in Peer : pc[q] \notin {"start", "announce"} =>
                          pc'[q] \notin {"start", "announce"}
  PROVE  Filed'
<1>1. \A r \in Peer : peer_fds_[r] # 0 => peer_fds_[r] \in Peer
  BY Processes DEF TypeOK
<1> QED BY <1>1 DEF Filed

(***************************************************************************)
(* The same for those that are not filed yet.                              *)
(***************************************************************************)
LEMMA ConnectedFrame ==
  ASSUME TypeOK, Connected, Distinct, UNCHANGED <<backlog, accepted>>,
         \A q \in Peer : pc[q] # "start" => pc'[q] # "start"
  PROVE  Connected' /\ Distinct'
<1>1. /\ \A i \in 1 .. Len(accepted) : accepted[i] \in Peer
      /\ \A i \in 1 .. Len(backlog) : backlog[i] \in Peer
  BY Connections
<1>2. Connected'
  BY <1>1 DEF Connected
<1>3. Distinct'
  BY DEF Distinct
<1> QED BY <1>2, <1>3

(***************************************************************************)
(* A step that changes neither the exchanges nor what comes back.          *)
(***************************************************************************)
LEMMA SyncFrame ==
  ASSUME Sync, UNCHANGED <<left, entered, due, table, down>>, Complete => Complete'
  PROVE  Sync'
<1>1. \A p \in Peer : Got(p)' = Got(p)
  BY DEF Got
<1> QED BY <1>1 DEF Sync

(***************************************************************************)
(* A step that leaves the root and its streams alone.                      *)
(***************************************************************************)
LEMMA RootFrame ==
  ASSUME RootGather, RootReflect, UNCHANGED <<peer_fds_, at, rank_of>>,
         pc'[0] = pc[0] \/ pc'[0] = "failed", entered'[0] = entered[0],
         table'[0] = table[0], due'[0] = due[0], todo'[0] = todo[0]
  PROVE  RootGather' /\ RootReflect'
<1>1. Complete' = Complete
  BY DEF Complete
<1> QED BY <1>1 DEF RootGather, RootReflect

-----------------------------------------------------------------------------
(* The invariant holds initially.                                          *)

(***************************************************************************)
(* Before anything is sent.                                                *)
(***************************************************************************)
LEMMA InvInit == Init => Inv
<1> SUFFICES ASSUME Init PROVE Inv
  OBVIOUS
<1> USE Processes
<1>1. TypeOK
  <2>1. rank_of \in [Proc -> Nat] /\ rank_of[0] = 0
    BY LaunchesAssumption DEF Init
  <2>2. <<>> \in Seq(Item) /\ <<>> \in Seq(Peer) /\ 0 \in Nat /\ -1 \in Int
    OBVIOUS
  <2> QED BY <2>1, <2>2 DEF Init, TypeOK
<1>2. ASSUME NEW p \in Peer PROVE Got(p) = 0 /\ PeerControl(p) /\ PeerDown(p)
  <2>1. /\ due[p] = -1 /\ table[p] = <<>> /\ down[p] = <<>> /\ entered[p] = 0
        /\ left[p] = 0 /\ up[p] = <<>> /\ todo[p] = <<>> /\ pc[p] = "start"
    BY DEF Init
  <2>2. Got(p) = 0 /\ DownLen(0) = 0 /\ Len(<<>>) = 0
    BY <2>1 DEF Got, DownLen
  <2>3. PeerControl(p)
    BY <2>1, <2>2 DEF PeerControl
  <2>4. PeerDown(p)
    BY <2>1, <2>2, SegmentEmpty DEF PeerDown
  <2> QED BY <2>2, <2>3, <2>4
<1>3. Sync
  <2>1. \A p \in Peer : Got(p) + Len(down[p]) = 0
    BY <1>2 DEF Init
  <2> QED BY <2>1 DEF Sync, Init
<1>4. /\ Filed /\ Connected /\ Distinct
      /\ RootControl /\ RootGather /\ RootReflect
  BY DEF Init, Filed, Connected, Distinct, RootControl, RootGather, RootReflect
<1>5. RootRuns
  <2>1. \A p \in Peer : Announced(p)
    BY DEF Init, Announced
  <2> QED BY <2>1 DEF RootRuns, Init
<1> QED BY <1>1, <1>2, <1>3, <1>4, <1>5 DEF Inv

-----------------------------------------------------------------------------
(* The steps.                                                              *)

(***************************************************************************)
(* The variables the invariant speaks of, without pc.                      *)
(***************************************************************************)
others == <<rank_of, backlog, accepted, peer_fds_, up, down, entered, left, todo, due, at,
            table>>

(***************************************************************************)
(* A step in which nothing happens, or a process fails: Refused, Fail,     *)
(* Crash, Terminating and stuttering.                                      *)
(***************************************************************************)
LEMMA FailStep ==
  ASSUME Inv, NEW p \in Proc, UNCHANGED others,
         pc' = pc \/ pc' = [pc EXCEPT ![p] = "failed"]
  PROVE  Inv'
<1> USE Processes
<1>1. /\ TypeOK /\ Peers /\ Sync /\ Filed /\ Connected /\ Distinct
      /\ RootControl /\ RootGather /\ RootReflect /\ RootRuns
  BY DEF Inv, Peers
<1>2. /\ \A q \in Proc : pc'[q] = pc[q] \/ pc'[q] = "failed"
      /\ pc' \in [Proc -> {"start", "accept", "read_rank", "announce", "idle", "gather",
                           "reflect", "send", "recv", "failed"}]
  BY <1>1 DEF TypeOK
<1>3. TypeOK'
  BY <1>1, <1>2 DEF TypeOK, others
<1>4. \A q \in Peer : PeerControl(q)' /\ PeerDown(q)'
  BY <1>1, <1>2, PeerFrame DEF Peers, others
<1>5. Sync'
  BY <1>1, SyncFrame DEF others, Complete
<1>6. Filed' /\ Connected' /\ Distinct'
  BY <1>1, <1>2, FiledFrame, ConnectedFrame DEF others
<1>7. RootControl'
  BY <1>1, <1>2 DEF RootControl, others
<1>8. RootGather' /\ RootReflect'
  BY <1>1, <1>2, RootFrame DEF others
<1>9. RootRuns'
  <2> SUFFICES ASSUME pc'[0] # "failed"
               PROVE  /\ \A q \in Peer : Unread(q)' => Announced(q)'
                      /\ \A r \in Peer : peer_fds_'[r] # 0 => UpStream(r)' /\ DownStream(r)'
    BY DEF RootRuns
  <2>1. pc'[0] = pc[0] /\ pc[0] # "failed"
    BY <1>2
  <2>2. ASSUME NEW q \in Peer, Unread(q)' PROVE Announced(q)'
    <3>1. Unread(q)
      BY <2>1, <2>2 DEF Unread, others
    <3> QED BY <1>1, <1>2, <2>1, <3>1, AnnouncedFrame DEF RootRuns, others
  <2>3. ASSUME NEW r \in Peer, peer_fds_'[r] # 0 PROVE UpStream(r)' /\ DownStream(r)'
    <3>1. UpStream(r) /\ DownStream(r)
      BY <1>1, <2>1, <2>3 DEF RootRuns, others
    <3> QED BY <2>1, <3>1, UpFrame, DownFrame DEF others
  <2> QED BY <2>2, <2>3
<1> QED BY <1>3, <1>4, <1>5, <1>6, <1>7, <1>8, <1>9 DEF Inv

(***************************************************************************)
(* The root listens.                                                       *)
(***************************************************************************)
LEMMA ListenStep == ASSUME Inv, Listen PROVE Inv'
<1> USE Processes
<1>1. /\ TypeOK /\ Peers /\ Sync /\ Filed /\ Connected /\ Distinct
      /\ RootControl /\ RootGather /\ RootReflect /\ RootRuns
  BY DEF Inv, Peers
<1>2. /\ UNCHANGED others /\ pc[0] = "start"
      /\ pc'[0] \in {"idle", "accept"} /\ \A q \in Peer : pc'[q] = pc[q]
      /\ pc' \in [Proc -> {"start", "accept", "read_rank", "announce", "idle", "gather",
                           "reflect", "send", "recv", "failed"}]
  BY <1>1 DEF TypeOK, Listen, setup, others
<1>3. TypeOK'
  BY <1>1, <1>2 DEF TypeOK, others
<1>4. \A q \in Peer : PeerControl(q)' /\ PeerDown(q)'
  BY <1>1, <1>2, PeerFrame DEF Peers, others
<1>5. Sync'
  BY <1>1, <1>2, SyncFrame DEF others, Complete
<1>6. Filed' /\ Connected' /\ Distinct'
  BY <1>1, <1>2, FiledFrame, ConnectedFrame DEF others
<1>7. RootControl' /\ RootGather' /\ RootReflect'
  BY <1>1, <1>2 DEF RootControl, RootGather, RootReflect, others
<1>8. RootRuns'
  <2>2. ASSUME NEW q \in Peer, Unread(q)' PROVE Announced(q)'
    <3>1. Unread(q)
      BY <1>2, <2>2 DEF Unread, others
    <3> QED BY <1>1, <1>2, <3>1, AnnouncedFrame DEF RootRuns, others
  <2>3. ASSUME NEW r \in Peer, peer_fds_'[r] # 0 PROVE UpStream(r)' /\ DownStream(r)'
    <3>1. UpStream(r) /\ DownStream(r)
      BY <1>1, <1>2, <2>3 DEF RootRuns, others
    <3>2. Taken(r)' = Taken(r) /\ Reflected(r)' = Reflected(r) /\ Pushed(r)' = Pushed(r)
      BY <1>2 DEF others, Taken, Reflected, Pushed
    <3>3. UpStream(r)'
      BY <1>2, <3>1, <3>2 DEF others, UpStream, Sends
    <3>4. DownStream(r)'
      BY <1>2, <3>1, <3>2 DEF others, DownStream, Got
    <3> QED BY <3>3, <3>4
  <2> QED BY <2>2, <2>3 DEF RootRuns
<1> QED BY <1>3, <1>4, <1>5, <1>6, <1>7, <1>8 DEF Inv

(***************************************************************************)
(* A connection is made, or accepted.                                      *)
(***************************************************************************)
LEMMA ConnectStep == ASSUME Inv, NEW p \in Peer, Connect(p) PROVE Inv'
<1> USE Processes
<1>1. /\ TypeOK /\ Peers /\ Sync /\ Filed /\ Connected /\ Distinct
      /\ RootControl /\ RootGather /\ RootReflect /\ RootRuns
  BY DEF Inv, Peers
<1>2. /\ UNCHANGED <<rank_of, accepted, peer_fds_, up, down, entered, left, todo, due, at,
                     table>>
      /\ pc[p] = "start" /\ pc'[p] = "announce" /\ pc[0] \notin {"start", "failed"}
      /\ \A q \in Proc : q # p => pc'[q] = pc[q]
      /\ pc'[0] = pc[0]
      /\ pc' \in [Proc -> {"start", "accept", "read_rank", "announce", "idle", "gather",
                           "reflect", "send", "recv", "failed"}]
      /\ backlog' = Append(backlog, p)
  BY <1>1 DEF TypeOK, Connect
<1>3. /\ backlog' \in Seq(Peer) /\ Len(backlog') = Len(backlog) + 1
      /\ \A i \in 1 .. Len(backlog) : backlog'[i] = backlog[i]
      /\ backlog'[Len(backlog) + 1] = p
      /\ \A i \in 1 .. Len(backlog') : i \in 1 .. Len(backlog) \/ i = Len(backlog) + 1
  <2>1. backlog \in Seq(Peer)
    BY <1>1 DEF TypeOK
  <2> QED BY <1>2, <2>1, OneMore
<1>4. TypeOK'
  BY <1>1, <1>2, <1>3 DEF TypeOK
<1>5. ASSUME NEW q \in Peer PROVE PeerControl(q)' /\ PeerDown(q)'
  <2>1. CASE q # p
    BY <1>1, <1>2, <2>1, PeerFrame DEF Peers
  <2>2. CASE q = p
    <3>1. PeerControl(p) /\ PeerDown(p) /\ Got(p)' = Got(p)
      BY <1>1, <1>2 DEF Peers, Got
    <3> QED BY <1>2, <2>2, <3>1 DEF PeerControl, PeerDown
  <2> QED BY <2>1, <2>2
<1>6. Sync'
  BY <1>1, <1>2, SyncFrame DEF Complete
<1>7. Filed' /\ Connected' /\ Distinct'
  <2>1. /\ \A i \in 1 .. Len(accepted) : accepted[i] \in Peer /\ accepted[i] # p
        /\ \A i \in 1 .. Len(backlog) : backlog[i] \in Peer /\ backlog[i] # p
    BY <1>1, <1>2, Connections DEF Connected
  <2>2. ASSUME NEW i \in 1 .. Len(backlog'), NEW j \in 1 .. Len(backlog'),
               backlog'[i] = backlog'[j]
        PROVE  i = j
    BY <1>1, <1>3, <2>1, <2>2 DEF Distinct
  <2>3. ASSUME NEW i \in 1 .. Len(accepted), NEW j \in 1 .. Len(backlog')
        PROVE  accepted[i] # backlog'[j]
    <3>1. CASE j \in 1 .. Len(backlog)
      BY <1>1, <1>3, <3>1 DEF Distinct
    <3>2. CASE j = Len(backlog) + 1
      BY <1>3, <2>1, <3>2
    <3> QED BY <1>3, <3>1, <3>2
  <2>4. Distinct'
    BY <1>1, <1>2, <2>2, <2>3 DEF Distinct
  <2>5. ASSUME NEW i \in 1 .. Len(backlog') PROVE pc'[backlog'[i]] # "start"
    <3>1. CASE i \in 1 .. Len(backlog)
      <4>1. backlog'[i] = backlog[i]
        BY <1>3, <3>1
      <4>2. backlog[i] \in Proc /\ backlog[i] # p /\ pc[backlog[i]] # "start"
        BY <1>1, <2>1, <3>1 DEF Connected
      <4> QED BY <1>2, <4>1, <4>2
    <3>2. CASE i = Len(backlog) + 1
      BY <1>2, <1>3, <3>2
    <3> QED BY <1>3, <3>1, <3>2
  <2>6. \A i \in 1 .. Len(accepted) : pc'[accepted[i]] # "start"
    BY <1>1, <1>2, <2>1 DEF Connected
  <2>7. Connected'
    BY <1>2, <2>5, <2>6 DEF Connected
  <2>8. ASSUME NEW r \in Peer, peer_fds_[r] # 0
        PROVE  /\ rank_of[peer_fds_[r]] = r
               /\ pc'[peer_fds_[r]] \notin {"start", "announce"}
    <3>1. peer_fds_[r] \in Proc /\ peer_fds_[r] # p
      BY <1>1, <1>2, <2>8 DEF TypeOK, Filed
    <3> QED BY <1>1, <1>2, <2>8, <3>1 DEF Filed
  <2>9. Filed'
    BY <1>2, <2>8 DEF Filed
  <2> QED BY <2>4, <2>7, <2>9
<1>8. RootControl' /\ RootGather' /\ RootReflect'
  <2>1. RootControl'
    BY <1>1, <1>2 DEF RootControl
  <2> QED BY <1>1, <1>2, <2>1, RootFrame
<1>9. RootRuns'
  <2>2. ASSUME NEW q \in Peer, Unread(q)' PROVE Announced(q)'
    <3>1. Unread(q)
      BY <1>2, <2>2 DEF Unread
    <3> QED BY <1>1, <1>2, <3>1, AnnouncedFrame DEF RootRuns
  <2>3. ASSUME NEW r \in Peer, peer_fds_'[r] # 0 PROVE UpStream(r)' /\ DownStream(r)'
    <3>1. UpStream(r) /\ DownStream(r)
      BY <1>1, <1>2, <2>3 DEF RootRuns
    <3> QED BY <1>2, <3>1, UpFrame, DownFrame
  <2> QED BY <2>2, <2>3 DEF RootRuns
<1> QED BY <1>4, <1>5, <1>6, <1>7, <1>8, <1>9 DEF Inv

(***************************************************************************)
(* A process sends its rank.                                               *)
(***************************************************************************)
LEMMA AnnounceStep == ASSUME Inv, NEW p \in Peer, Announce(p) PROVE Inv'
<1> USE Processes
<1>1. /\ TypeOK /\ Peers /\ Sync /\ Filed /\ Connected /\ Distinct
      /\ RootControl /\ RootGather /\ RootReflect /\ RootRuns
  BY DEF Inv, Peers
<1>2. /\ UNCHANGED <<rank_of, backlog, accepted, peer_fds_, down, entered, left, todo, due,
                     at, table>>
      /\ pc[p] = "announce" /\ pc'[p] = "idle" /\ pc'[0] = pc[0]
      /\ \A q \in Proc : q # p => pc'[q] = pc[q] /\ up'[q] = up[q]
      /\ pc' \in [Proc -> {"start", "accept", "read_rank", "announce", "idle", "gather",
                           "reflect", "send", "recv", "failed"}]
      /\ up'[p] = Append(up[p], u32(rank_of[p]))
  BY <1>1 DEF TypeOK, Announce, setup
<1>3. PeerControl(p) /\ PeerDown(p) /\ Got(p)' = Got(p)
  BY <1>1, <1>2 DEF Peers, Got
<1>4. entered[p] = 0 /\ up[p] = <<>> /\ todo[p] = <<>>
  BY <1>2, <1>3 DEF PeerControl
<1>5. /\ u32(rank_of[p]) \in Item
      /\ up'[p] \in Seq(Item) /\ Len(up'[p]) = 1 /\ up'[p] # <<>>
      /\ up'[p][1] = u32(rank_of[p]) /\ Tail(up'[p]) = <<>>
  <2>1. rank_of[p] \in Nat
    BY <1>1 DEF TypeOK
  <2>2. u32(rank_of[p]) \in Item /\ up'[p] = <<u32(rank_of[p])>>
    BY <1>2, <1>4, <2>1, ItemParts
  <2> QED BY <2>2
<1>6. TypeOK'
  <2>1. up' \in [Proc -> Seq(Item)]
    BY <1>1, <1>5 DEF TypeOK, Announce
  <2> QED BY <1>1, <1>2, <2>1 DEF TypeOK
<1>7. ASSUME NEW q \in Peer PROVE PeerControl(q)' /\ PeerDown(q)'
  <2>1. CASE q # p
    BY <1>1, <1>2, <2>1, PeerFrame DEF Peers
  <2>2. CASE q = p
    BY <1>2, <1>3, <2>2 DEF PeerControl, PeerDown
  <2> QED BY <2>1, <2>2
<1>8. Sync'
  BY <1>1, <1>2, SyncFrame DEF Complete
<1>9. Filed' /\ Connected' /\ Distinct'
  BY <1>1, <1>2, FiledFrame, ConnectedFrame
<1>10. RootControl' /\ RootGather' /\ RootReflect'
  <2>1. RootControl'
    BY <1>1, <1>2 DEF RootControl
  <2> QED BY <1>1, <1>2, <2>1, RootFrame
<1>11. RootRuns'
  <2> SUFFICES ASSUME pc'[0] # "failed"
               PROVE  /\ \A q \in Peer : Unread(q)' => Announced(q)'
                      /\ \A r \in Peer : peer_fds_'[r] # 0 => UpStream(r)' /\ DownStream(r)'
    BY DEF RootRuns
  <2>2. ASSUME NEW q \in Peer, Unread(q)' PROVE Announced(q)'
    <3>1. Unread(q) /\ Announced(q)
      BY <1>1, <1>2, <2>2 DEF Unread, RootRuns
    <3>2. CASE q # p
      BY <1>2, <3>1, <3>2, AnnouncedFrame
    <3>3. CASE q = p
      <4>1. UpLen(0) = 0
        BY DEF UpLen
      <4>2. /\ Len(up'[p]) - 1 + Len(todo[p]) = UpLen(0)
            /\ Segment(Tail(up'[p]), UpItems(rank_of[p], 0), 0)
            /\ Segment(todo[p], UpItems(rank_of[p], 0), Len(up'[p]) - 1)
        <5>1. Segment(<<>>, UpItems(rank_of[p], 0), 0) /\ Len(<<>>) = 0
          BY SegmentEmpty
        <5>2. Len(up'[p]) - 1 = 0 /\ 0 + 0 = UpLen(0)
          BY <1>5, <4>1
        <5> QED BY <1>4, <1>5, <5>1, <5>2
      <4>3. \A r \in Peer : peer_fds_[r] # p
        BY <3>1, <3>3 DEF Announced
      <4>4. /\ entered'[p] = 0 /\ todo' = todo /\ rank_of' = rank_of
            /\ peer_fds_' = peer_fds_ /\ UpItems(rank_of[p], 0)' = UpItems(rank_of[p], 0)
        BY <1>2, <1>4 DEF UpItems
      <4> QED BY <1>5, <3>3, <4>2, <4>3, <4>4 DEF Announced
    <3> QED BY <3>2, <3>3
  <2>3. ASSUME NEW r \in Peer, peer_fds_'[r] # 0 PROVE UpStream(r)' /\ DownStream(r)'
    <3>1. UpStream(r) /\ DownStream(r)
      BY <1>1, <1>2, <2>3 DEF RootRuns
    <3>2. peer_fds_[r] # p /\ peer_fds_[r] \in Proc
      BY <1>1, <1>2, <2>3 DEF Filed, TypeOK
    <3> QED BY <1>2, <3>1, <3>2, UpFrame, DownFrame
  <2> QED BY <2>2, <2>3
<1> QED BY <1>6, <1>7, <1>8, <1>9, <1>10, <1>11 DEF Inv

(***************************************************************************)
(* While the root collects connections nothing is gathered or reflected,   *)
(* so another root pc of this phase makes no difference to the streams.    *)
(***************************************************************************)
LEMMA JoiningFrame ==
  ASSUME NEW r \in Peer, UpStream(r), DownStream(r), peer_fds_'[r] = peer_fds_[r],
         pc[0] \in {"accept", "read_rank"}, pc'[0] \in {"accept", "read_rank", "idle"},
         UNCHANGED <<rank_of, entered, due, table, down, todo>>,
         up'[peer_fds_[r]] = up[peer_fds_[r]]
  PROVE  UpStream(r)' /\ DownStream(r)'
<1>1. Taken(r)' = Taken(r) /\ Reflected(r)' = Reflected(r) /\ Pushed(r)' = Pushed(r)
  BY DEF Taken, Reflected, Pushed
<1>2. UpStream(r)'
  BY <1>1 DEF UpStream, Sends
<1>3. DownStream(r)'
  BY <1>1 DEF DownStream, Got
<1> QED BY <1>2, <1>3

(***************************************************************************)
(* The root accepts a connection.                                          *)
(***************************************************************************)
LEMMA AcceptStep == ASSUME Inv, Accept PROVE Inv'
<1> USE Processes
<1>1. /\ TypeOK /\ Peers /\ Sync /\ Filed /\ Connected /\ Distinct
      /\ RootControl /\ RootGather /\ RootReflect /\ RootRuns
  BY DEF Inv, Peers
<1>2. /\ UNCHANGED <<rank_of, peer_fds_, up, down, entered, left, todo, due, at, table>>
      /\ pc[0] = "accept" /\ pc'[0] = "read_rank"
      /\ \A q \in Peer : pc'[q] = pc[q]
      /\ pc' \in [Proc -> {"start", "accept", "read_rank", "announce", "idle", "gather",
                           "reflect", "send", "recv", "failed"}]
      /\ backlog # <<>> /\ backlog' = Tail(backlog)
      /\ accepted' = Append(accepted, Head(backlog))
  BY <1>1 DEF TypeOK, Accept
<1>3. /\ backlog' \in Seq(Peer) /\ Len(backlog') = Len(backlog) - 1
      /\ \A i \in 1 .. Len(backlog') : backlog'[i] = backlog[i + 1]
      /\ Head(backlog) = backlog[1] /\ Head(backlog) \in Peer
      /\ Len(backlog) \in Nat /\ Len(backlog) >= 1
  <2>1. backlog \in Seq(Peer)
    BY <1>1 DEF TypeOK
  <2> QED BY <1>2, <2>1
<1>4. /\ accepted' \in Seq(Peer) /\ Len(accepted') = Len(accepted) + 1
      /\ accepted' # <<>>
      /\ \A i \in 1 .. Len(accepted) : accepted'[i] = accepted[i]
      /\ accepted'[Len(accepted) + 1] = backlog[1]
      /\ \A i \in 1 .. Len(accepted') : i \in 1 .. Len(accepted) \/ i = Len(accepted) + 1
  <2>1. accepted \in Seq(Peer) /\ backlog[1] \in Peer
        /\ accepted' = Append(accepted, backlog[1])
    BY <1>1, <1>2, <1>3 DEF TypeOK
  <2> QED BY <2>1, OneMore
<1>5. TypeOK'
  BY <1>1, <1>2, <1>3, <1>4 DEF TypeOK
<1>6. \A q \in Peer : PeerControl(q)' /\ PeerDown(q)'
  BY <1>1, <1>2, PeerFrame DEF Peers
<1>7. Sync'
  BY <1>1, <1>2, SyncFrame DEF Complete
<1>8. Filed' /\ Connected' /\ Distinct'
  <2>1. \A i \in 1 .. Len(backlog') : /\ i \in 1 .. Len(backlog) /\ i + 1 # 1
                                     /\ i + 1 \in 1 .. Len(backlog)
    BY <1>3
  <2>2. 1 \in 1 .. Len(backlog)
    BY <1>3
  <2>3. ASSUME NEW i \in 1 .. Len(accepted'), NEW j \in 1 .. Len(accepted'),
               accepted'[i] = accepted'[j]
        PROVE  i = j
    <3>1. \A l \in 1 .. Len(accepted) : accepted[l] # backlog[1]
      BY <1>1, <2>2 DEF Distinct
    <3>2. CASE i \in 1 .. Len(accepted) /\ j \in 1 .. Len(accepted)
      <4>1. accepted[i] = accepted[j]
        BY <1>4, <2>3, <3>2
      <4> QED BY <1>1, <3>2, <4>1 DEF Distinct
    <3>3. CASE i = Len(accepted) + 1 /\ j = Len(accepted) + 1
      BY <3>3
    <3>4. CASE i = Len(accepted) + 1 /\ j \in 1 .. Len(accepted)
      BY <1>4, <2>3, <3>1, <3>4
    <3>5. CASE j = Len(accepted) + 1 /\ i \in 1 .. Len(accepted)
      BY <1>4, <2>3, <3>1, <3>5
    <3> QED BY <1>4, <3>2, <3>3, <3>4, <3>5
  <2>4. ASSUME NEW i \in 1 .. Len(backlog'), NEW j \in 1 .. Len(backlog'),
               backlog'[i] = backlog'[j]
        PROVE  i = j
    <3>1. backlog[i + 1] = backlog[j + 1] /\ i \in Nat /\ j \in Nat
      <4>1. backlog'[i] = backlog[i + 1] /\ backlog'[j] = backlog[j + 1]
        BY <1>3, <2>1
      <4>2. i \in Nat /\ j \in Nat
        BY <1>3
      <4> QED BY <2>4, <4>1, <4>2
    <3>2. i + 1 = j + 1
      BY <1>1, <2>1, <3>1 DEF Distinct
    <3> QED BY <3>1, <3>2
  <2>5. ASSUME NEW i \in 1 .. Len(accepted'), NEW j \in 1 .. Len(backlog')
        PROVE  accepted'[i] # backlog'[j]
    <3>1. CASE i \in 1 .. Len(accepted)
      <4>1. j + 1 \in 1 .. Len(backlog) /\ backlog'[j] = backlog[j + 1]
        BY <1>3, <2>1
      <4>2. accepted[i] # backlog[j + 1]
        BY <1>1, <3>1, <4>1 DEF Distinct
      <4> QED BY <1>4, <3>1, <4>1, <4>2
    <3>2. CASE i = Len(accepted) + 1
      <4>1. backlog[1] # backlog[j + 1]
        BY <1>1, <2>1, <2>2 DEF Distinct
      <4> QED BY <1>3, <1>4, <3>2, <4>1
    <3> QED BY <1>4, <3>1, <3>2
  <2>6. Distinct'
    BY <2>3, <2>4, <2>5 DEF Distinct
  <2>7. /\ \A i \in 1 .. Len(accepted) : accepted[i] \in Peer /\ pc'[accepted[i]] # "start"
        /\ \A i \in 1 .. Len(backlog) : backlog[i] \in Peer /\ pc'[backlog[i]] # "start"
    BY <1>1, <1>2, Connections DEF Connected
  <2>8. \A i \in 1 .. Len(accepted') : pc'[accepted'[i]] # "start"
    BY <1>4, <2>2, <2>7
  <2>9. \A i \in 1 .. Len(backlog') : pc'[backlog'[i]] # "start"
    BY <1>3, <2>1, <2>7
  <2>10. Connected'
    BY <2>8, <2>9 DEF Connected
  <2>11. Filed'
    BY <1>1, <1>2, FiledFrame
  <2> QED BY <2>6, <2>10, <2>11
<1>9. RootControl' /\ RootGather' /\ RootReflect'
  BY <1>1, <1>2, <1>4 DEF RootControl, RootGather, RootReflect
<1>10. RootRuns'
  <2>2. ASSUME NEW q \in Peer, Unread(q)' PROVE Announced(q)'
    <3>1. ASSUME NEW i \in 1 .. Len(accepted) PROVE accepted[i] # q
      <4>1. i \in 1 .. Len(accepted') /\ i # Len(accepted') /\ accepted'[i] = accepted[i]
        BY <1>1, <1>4, Connections
      <4> QED BY <2>2, <4>1 DEF Unread
    <3>2. Unread(q)
      BY <3>1 DEF Unread
    <3> QED BY <1>1, <1>2, <3>2, AnnouncedFrame DEF RootRuns
  <2>3. ASSUME NEW r \in Peer, peer_fds_'[r] # 0 PROVE UpStream(r)' /\ DownStream(r)'
    <3>1. UpStream(r) /\ DownStream(r)
      BY <1>1, <1>2, <2>3 DEF RootRuns
    <3> QED BY <1>2, <3>1, JoiningFrame
  <2> QED BY <2>2, <2>3 DEF RootRuns
<1> QED BY <1>5, <1>6, <1>7, <1>8, <1>9, <1>10 DEF Inv

(***************************************************************************)
(* The root reads a rank.                                                  *)
(***************************************************************************)
LEMMA ReadRankStep == ASSUME Inv, ReadRank PROVE Inv'
<1> USE Processes
<1>1. /\ TypeOK /\ Peers /\ Sync /\ Filed /\ Connected /\ Distinct
      /\ RootControl /\ RootGather /\ RootReflect /\ RootRuns
  BY DEF Inv, Peers
<1>2. /\ UNCHANGED <<rank_of, backlog, accepted, down, entered, left, todo, due, at, table>>
      /\ pc[0] = "read_rank" /\ up[accepted[Len(accepted)]] # <<>>
      /\ up' = [up EXCEPT ![accepted[Len(accepted)]] = Tail(@)]
  BY DEF ReadRank
<1>3. /\ Len(accepted) \in Nat /\ Len(accepted) >= 1 /\ Len(accepted) \in 1 .. Len(accepted)
      /\ accepted[Len(accepted)] \in Peer
  <2>1. accepted # <<>> /\ accepted \in Seq(Peer)
    BY <1>1, <1>2 DEF RootControl, TypeOK
  <2>2. Len(accepted) \in Nat /\ Len(accepted) >= 1
    BY <2>1
  <2>3. Len(accepted) \in 1 .. Len(accepted)
    BY <2>2
  <2> QED BY <1>1, <2>2, <2>3, Connections
<1>fd. PICK fd \in Peer : fd = accepted[Len(accepted)]
  BY <1>3
<1>rank. PICK rank \in Nat : rank = rank_of[fd]
  BY <1>1 DEF TypeOK
<1>4. Unread(fd) /\ Announced(fd)
  <2>1. Unread(fd)
    BY <1>1, <1>2, <1>3, <1>fd DEF Distinct, Unread
  <2> QED BY <1>1, <1>2, <1>3, <2>1 DEF RootRuns
<1>5. /\ up[fd][1] = u32(rank) /\ \A r \in Peer : peer_fds_[r] # fd
      /\ entered[fd] \in {0, 1}
      /\ rank \in Peer =>
           /\ Len(up[fd]) - 1 + Len(todo[fd]) = UpLen(entered[fd])
           /\ Segment(Tail(up[fd]), UpItems(rank, entered[fd]), 0)
           /\ Segment(todo[fd], UpItems(rank, entered[fd]), Len(up[fd]) - 1)
  BY <1>2, <1>4, <1>fd, <1>rank DEF Announced
<1>6. /\ Head(up[fd]) = u32(rank) /\ Head(up[fd]).n = rank /\ rank \in Nat
      /\ Tail(up[fd]) \in Seq(Item) /\ Len(Tail(up[fd])) = Len(up[fd]) - 1
  <2>1. up[fd] \in Seq(Item) /\ up[fd] # <<>>
    BY <1>1, <1>2, <1>fd DEF TypeOK
  <2>2. Head(up[fd]) = up[fd][1]
    BY <2>1
  <2>3. u32(rank).n = rank
    BY <2>1, ItemParts
  <2>4. Tail(up[fd]) \in Seq(Item) /\ Len(Tail(up[fd])) = Len(up[fd]) - 1
    BY <2>1
  <2> QED BY <1>5, <2>2, <2>3, <2>4
<1>7. /\ up' \in [Proc -> Seq(Item)] /\ up'[fd] = Tail(up[fd])
      /\ \A q \in Proc : q # fd => up'[q] = up[q]
  BY <1>1, <1>2, <1>fd, <1>6 DEF TypeOK
<1>8. \/ /\ rank \notin Peer /\ pc' = [pc EXCEPT ![0] = "failed"] /\ peer_fds_' = peer_fds_
      \/ /\ rank \in Peer /\ peer_fds_' = [peer_fds_ EXCEPT ![rank] = fd]
         /\ pc' = [pc EXCEPT ![0] = IF Len(accepted) = P - 1 THEN "idle" ELSE "accept"]
  <2>1. rank \notin Peer <=> (rank = 0 \/ rank >= P)
    BY <1>6 DEF Peer
  <2>2. IF Head(up[fd]).n = 0 \/ Head(up[fd]).n >= P
        THEN pc' = [pc EXCEPT ![0] = "failed"] /\ UNCHANGED peer_fds_
        ELSE /\ peer_fds_' = [peer_fds_ EXCEPT ![filed_under(Head(up[fd]).n)] = fd]
             /\ pc' = [pc EXCEPT ![0] = IF Len(accepted) = P - 1 THEN "idle" ELSE "accept"]
    BY <1>fd DEF ReadRank
  <2> QED BY <1>6, <2>1, <2>2 DEF filed_under
<1>9. /\ pc' \in [Proc -> {"start", "accept", "read_rank", "announce", "idle", "gather",
                           "reflect", "send", "recv", "failed"}]
      /\ \A q \in Peer : pc'[q] = pc[q]
      /\ pc'[0] \in {"idle", "accept", "failed"}
  BY <1>1, <1>8 DEF TypeOK
<1>10. /\ peer_fds_' \in [Peer -> Proc]
       /\ \A r \in Peer : r # rank => peer_fds_'[r] = peer_fds_[r]
       /\ \A r \in Peer : peer_fds_'[r] = peer_fds_[r] \/ peer_fds_'[r] = fd
       /\ Complete => Complete'
  <2>1. /\ peer_fds_' \in [Peer -> Proc]
        /\ \A r \in Peer : r # rank => peer_fds_'[r] = peer_fds_[r]
        /\ \A r \in Peer : peer_fds_'[r] = peer_fds_[r] \/ peer_fds_'[r] = fd
    <3>1. peer_fds_ \in [Peer -> Proc]
      BY <1>1 DEF TypeOK
    <3>2. \/ peer_fds_' = peer_fds_
          \/ rank \in Peer /\ peer_fds_' = [peer_fds_ EXCEPT ![rank] = fd]
      BY <1>8
    <3> QED BY <3>1, <3>2
  <2>2. fd # 0
    OBVIOUS
  <2> QED BY <2>1, <2>2 DEF Complete
<1>11. TypeOK'
  BY <1>1, <1>2, <1>7, <1>9, <1>10 DEF TypeOK
<1>12. PeerControl(fd) /\ PeerDown(fd) /\ pc[fd] \notin {"start", "announce"}
  BY <1>1, <1>2, <1>fd DEF Peers, PeerControl
<1>13. ASSUME NEW q \in Peer PROVE PeerControl(q)' /\ PeerDown(q)'
  <2>1. CASE q # fd
    BY <1>1, <1>2, <1>7, <1>9, <2>1, PeerFrame DEF Peers
  <2>2. CASE q = fd
    <3>1. Got(fd)' = Got(fd)
      BY <1>2 DEF Got
    <3> QED BY <1>2, <1>9, <1>12, <2>2, <3>1 DEF PeerControl, PeerDown
  <2> QED BY <2>1, <2>2
<1>14. Sync'
  BY <1>1, <1>2, <1>10, SyncFrame
<1>15. Filed' /\ Connected' /\ Distinct'
  <2>1. Connected' /\ Distinct'
    BY <1>1, <1>2, <1>9, ConnectedFrame
  <2>2. ASSUME NEW r \in Peer, peer_fds_'[r] # 0
        PROVE  /\ rank_of[peer_fds_'[r]] = r
               /\ pc'[peer_fds_'[r]] \notin {"start", "announce"}
    <3>1. CASE peer_fds_'[r] = peer_fds_[r]
      <4>1. peer_fds_[r] \in Peer
        BY <1>1, <2>2, <3>1 DEF TypeOK
      <4> QED BY <1>1, <1>9, <2>2, <3>1, <4>1 DEF Filed
    <3>2. CASE peer_fds_'[r] = fd /\ peer_fds_'[r] # peer_fds_[r]
      <4>1. r = rank
        BY <1>10, <3>2
      <4> QED BY <1>9, <1>12, <1>rank, <3>2, <4>1
    <3> QED BY <1>10, <3>1, <3>2
  <2>3. Filed'
    BY <1>2, <2>2 DEF Filed
  <2> QED BY <2>1, <2>3
<1>16. RootControl' /\ RootGather' /\ RootReflect'
  <2>1. entered[0] = 0 /\ left[0] = 0
    BY <1>1, <1>2 DEF RootControl
  <2> QED BY <1>2, <1>9, <2>1 DEF RootControl, RootGather, RootReflect
<1>17. RootRuns'
  <2> SUFFICES ASSUME pc'[0] # "failed"
               PROVE  /\ \A q \in Peer : Unread(q)' => Announced(q)'
                      /\ \A r \in Peer : peer_fds_'[r] # 0 => UpStream(r)' /\ DownStream(r)'
    BY DEF RootRuns
  <2>1. /\ rank \in Peer /\ peer_fds_'[rank] = fd
        /\ pc'[0] \in {"idle", "accept"} /\ entered[0] = 0
    BY <1>1, <1>2, <1>3, <1>8, <1>9 DEF TypeOK, RootControl
  <2>2. ASSUME NEW q \in Peer, Unread(q)' PROVE Announced(q)'
    <3>1. q # fd
      BY <1>2, <1>3, <1>fd, <2>1, <2>2 DEF Unread
    <3>2. Unread(q)
      BY <1>2, <2>1, <2>2 DEF Unread
    <3>3. Announced(q)
      BY <1>1, <1>2, <3>2 DEF RootRuns
    <3>4. \A r \in Peer : peer_fds_'[r] # q
      BY <1>10, <3>1, <3>3 DEF Announced
    <3> QED BY <1>2, <1>7, <1>9, <3>1, <3>3, <3>4 DEF Announced
  <2>3. ASSUME NEW r \in Peer, peer_fds_'[r] # 0, r # rank
        PROVE  UpStream(r)' /\ DownStream(r)'
    <3>1. peer_fds_'[r] = peer_fds_[r] /\ peer_fds_[r] # fd /\ peer_fds_[r] \in Proc
      BY <1>1, <1>5, <1>10, <2>3 DEF TypeOK
    <3>2. UpStream(r) /\ DownStream(r)
      BY <1>1, <1>2, <2>3, <3>1 DEF RootRuns
    <3> QED BY <1>2, <1>7, <2>1, <3>1, <3>2, JoiningFrame
  <2>4. UpLen(0) = 0 /\ DownLen(0) = 0
    BY DEF UpLen, DownLen
  <2>5. Taken(rank)' = 0 /\ Reflected(rank)' = 0 /\ Pushed(rank)' = 0
    BY <1>2, <2>1, <2>4 DEF Taken, Reflected, Pushed
  <2>6. UpStream(rank)'
    <3>1. /\ 0 + Len(up'[fd]) + Len(todo'[fd]) = UpLen(entered[fd])
          /\ 0 + Len(up'[fd]) = Len(up[fd]) - 1
      <4>1. Len(up[fd]) \in Nat /\ Len(todo[fd]) \in Nat
        BY <1>1, Streams
      <4>2. Len(up'[fd]) = Len(up[fd]) - 1 /\ todo'[fd] = todo[fd]
        BY <1>2, <1>6, <1>7
      <4>3. Len(up[fd]) - 1 + Len(todo[fd]) = UpLen(entered[fd])
        BY <1>5, <2>1
      <4>4. \A a, b, c \in Nat : a - 1 + b = c => 0 + (a - 1) + b = c /\ 0 + (a - 1) = a - 1
        OBVIOUS
      <4>5. UpLen(entered[fd]) \in Nat
        BY <1>1, Streams, Lengths
      <4> QED BY <4>1, <4>2, <4>3, <4>4, <4>5
    <3>2. Sends(fd, entered[fd], 0)'
      BY <1>2, <1>5, <1>7, <1>rank, <2>1, <3>1 DEF Sends
    <3> QED BY <1>2, <1>5, <2>1, <2>4, <2>5, <3>2 DEF UpStream
  <2>7. DownStream(rank)'
    <3>1. Got(fd)' = Got(fd) /\ Got(fd) \in Nat /\ Len(down[fd]) \in Nat
      BY <1>1, <1>2, Streams DEF Got
    <3>2. Got(fd) + Len(down[fd]) = 0
      <4>1. ~Complete
        BY <1>1, <1>5, <1>rank, AllFiled
      <4>2. ~(Got(fd) + Len(down[fd]) > 0)
        BY <1>1, <1>3, <4>1 DEF Sync
      <4> QED BY <3>1, <4>2
    <3> QED BY <1>2, <1>5, <2>1, <2>4, <2>5, <3>1, <3>2 DEF DownStream
  <2> QED BY <2>2, <2>3, <2>6, <2>7
<1> QED BY <1>11, <1>13, <1>14, <1>15, <1>16, <1>17 DEF Inv

-----------------------------------------------------------------------------
(* exchange on a rank other than 0.                                        *)

(***************************************************************************)
(* What a process sends is made of items, whatever its rank.               *)
(***************************************************************************)
LEMMA OutgoingType ==
  ASSUME TypeOK, NEW p \in Proc, NEW k \in Nat,
         NEW s, s = <<u32(Len(outgoing(p, k)))>> \o outgoing(p, k)
  PROVE  s \in Seq(Item) /\ s # <<>> /\ outgoing(p, k) \in Seq(Item)
<1>1. PICK r \in Nat : r = rank_of[p]
  BY DEF TypeOK
<1>2. PICK m \in Nat : m = IF r < P THEN P - 1 ELSE P
  <2>1. P \in Nat /\ P - 1 \in Nat
    BY PAssumption
  <2> QED BY <2>1
<1>3. outgoing(p, k) \in Seq(Item)
  <2>1. CASE k > 1
    BY <2>1 DEF outgoing
  <2>2. CASE ~(k > 1)
    <3>1. outgoing(p, k) = [i \in 1 .. m |-> entry(r, IF i <= r THEN i - 1 ELSE i, k)]
      BY <1>1, <1>2, <2>2 DEF outgoing
    <3>2. ASSUME NEW i \in 1 .. m PROVE entry(r, IF i <= r THEN i - 1 ELSE i, k) \in Item
      BY ItemParts
    <3> QED BY <3>1, <3>2
  <2> QED BY <2>1, <2>2
<1>4. Len(outgoing(p, k)) \in Nat
  BY <1>3, Elements
<1>5. u32(Len(outgoing(p, k))) \in Item
  BY <1>4, ItemParts
<1> QED BY <1>3, <1>5, Counted

(***************************************************************************)
(* A process that is not in an exchange has received everything of the     *)
(* last one: nothing is on its way back to it, and the root has taken all  *)
(* it has sent.                                                            *)
(***************************************************************************)
LEMMA IdlePeer ==
  ASSUME Inv, NEW p \in Peer, pc[p] = "idle"
  PROVE  /\ down[p] = <<>> /\ todo[p] = <<>> /\ left[p] = entered[p]
         /\ \A r \in Peer : pc[0] # "failed" /\ peer_fds_[r] = p =>
              /\ up[p] = <<>> /\ entered[p] = Reflected(r) /\ Pushed(r) = 0
              /\ \/ entered[p] + 1 = entered[0] /\ pc[0] = "gather" /\ Taken(r) = 0
                 \/ entered[p] = entered[0] /\ Taken(r) = UpLen(entered[0])
<1> USE Processes
<1>1. TypeOK /\ PeerControl(p) /\ PeerDown(p) /\ RootRuns /\ RootControl /\ RootReflect
  BY DEF Inv
<1>2. /\ todo[p] = <<>> /\ left[p] = entered[p] /\ Got(p) = DownLen(entered[p])
      /\ Got(p) + Len(down[p]) <= DownLen(entered[p])
  BY <1>1 DEF PeerControl, PeerDown
<1>3. /\ Got(p) \in Nat /\ Len(down[p]) \in Nat /\ entered[p] \in Nat /\ entered[0] \in Nat
      /\ down[p] \in Seq(Item) /\ up[p] \in Seq(Item) /\ Len(up[p]) \in Nat
      /\ Len(todo[0]) \in Nat
  BY <1>1, Streams
<1>4. Len(down[p]) = 0
  BY <1>2, <1>3
<1>5. down[p] = <<>>
  BY <1>3, <1>4
<1>6. ASSUME NEW r \in Peer, pc[0] # "failed", peer_fds_[r] = p
      PROVE  /\ up[p] = <<>> /\ entered[p] = Reflected(r) /\ Pushed(r) = 0
             /\ \/ entered[p] + 1 = entered[0] /\ pc[0] = "gather" /\ Taken(r) = 0
                \/ entered[p] = entered[0] /\ Taken(r) = UpLen(entered[0])
  <2>1. UpStream(r) /\ DownStream(r)
    BY <1>1, <1>6 DEF RootRuns
  <2>2. CASE entered[p] = Reflected(r)
    <3>1. \/ /\ pc[0] = "gather" \/ (pc[0] = "reflect" /\ at <= r)
             /\ entered[p] = entered[0] - 1
          \/ ~(pc[0] = "gather" \/ (pc[0] = "reflect" /\ at <= r)) /\ entered[p] = entered[0]
      BY <2>2 DEF Reflected
    <3>2. CASE entered[p] = entered[0]
      <4>1. pc[0] # "gather" /\ Taken(r) = UpLen(entered[0])
        BY <1>3, <3>1, <3>2 DEF Taken
      <4>2. ~(pc[0] = "reflect" /\ at = r)
        BY <1>3, <3>1, <3>2
      <4>3. Pushed(r) = 0
        BY <4>2 DEF Pushed
      <4>4. Sends(p, entered[0], Taken(r))
        BY <1>3, <1>6, <2>1, <3>2, <4>1 DEF UpStream
      <4>5. UpLen(entered[0]) \in Nat
        BY <1>3, Lengths
      <4>6. UpLen(entered[0]) + Len(up[p]) + 0 = UpLen(entered[0])
        BY <1>2, <4>1, <4>4 DEF Sends
      <4>7. Len(up[p]) = 0
        BY <1>3, <4>5, <4>6
      <4> QED BY <1>3, <2>2, <3>2, <4>1, <4>3, <4>7
    <3>3. CASE entered[p] # entered[0]
      <4>1. entered[p] + 1 = entered[0]
        BY <1>3, <3>1, <3>3
      <4>2. pc[0] = "gather" /\ Taken(r) = 0 /\ up[p] = <<>>
        BY <1>3, <1>6, <2>1, <3>3, <4>1 DEF UpStream
      <4>3. Pushed(r) = 0
        BY <4>2 DEF Pushed
      <4> QED BY <2>2, <4>1, <4>2, <4>3
    <3> QED BY <3>2, <3>3
  <2>3. CASE entered[p] = Reflected(r) + 1
    <3>1. Reflected(r) \in {entered[0], entered[0] - 1}
      BY DEF Reflected
    <3>2. entered[p] # Reflected(r)
      BY <1>3, <2>3, <3>1
    <3>3. DownLen(entered[p]) = Pushed(r)
      BY <1>2, <1>3, <1>4, <1>6, <2>1, <3>2 DEF DownStream
    <3>4. CASE pc[0] = "reflect" /\ at = r
      <4>1. at <= r
        BY <3>4
      <4>2. entered[p] = entered[0]
        BY <1>3, <2>3, <3>4, <4>1 DEF Reflected
      <4>3. Len(todo[0]) >= 1 /\ DownLen(entered[0]) \in Nat
        <5>1. DownLen(entered[0]) \in Nat
          BY <1>3, Lengths
        <5>2. Len(todo[0]) \in 1 .. DownLen(entered[0])
          BY <1>1, <3>4 DEF RootReflect
        <5> QED BY <5>1, <5>2
      <4>4. DownLen(entered[0]) = DownLen(entered[0]) - Len(todo[0])
        BY <3>3, <3>4, <4>2 DEF Pushed
      <4> QED BY <1>3, <4>3, <4>4
    <3>5. CASE ~(pc[0] = "reflect" /\ at = r)
      <4>1. Pushed(r) = 0
        BY <3>5 DEF Pushed
      <4>2. entered[p] = 0
        <5>1. entered[p] > 0 => DownLen(entered[p]) = TabLen(entered[p]) + 1
          BY <1>3, Lengths
        <5>2. TabLen(entered[p]) \in Nat
          BY <1>3, Lengths
        <5> QED BY <1>3, <3>3, <4>1, <5>1, <5>2
      <4>3. Reflected(r) = -1
        BY <1>3, <2>3, <3>1, <4>2
      <4>4. entered[0] = 0 /\ pc[0] \in {"gather", "reflect"}
        BY <1>3, <4>3 DEF Reflected
      <4>5. left[0] \in Nat /\ entered[0] = left[0] + 1
        BY <1>1, <4>4, Streams DEF RootControl
      <4> QED BY <4>4, <4>5
    <3> QED BY <3>4, <3>5
  <2> QED BY <1>6, <2>1, <2>2, <2>3 DEF DownStream
<1> QED BY <1>2, <1>5, <1>6

(***************************************************************************)
(* A process begins an exchange.                                           *)
(***************************************************************************)
LEMMA SubmitStep == ASSUME Inv, NEW p \in Peer, Submit(p) PROVE Inv'
<1> USE Processes
<1>1. /\ TypeOK /\ Peers /\ Sync /\ Filed /\ Connected /\ Distinct
      /\ RootControl /\ RootGather /\ RootReflect /\ RootRuns
  BY DEF Inv, Peers
<1>2. /\ UNCHANGED <<rank_of, backlog, accepted, peer_fds_, up, down, left, at>>
      /\ pc[p] = "idle" /\ pc'[p] = "send" /\ pc'[0] = pc[0]
      /\ \A q \in Proc : q # p =>
           /\ pc'[q] = pc[q] /\ entered'[q] = entered[q] /\ todo'[q] = todo[q]
           /\ due'[q] = due[q] /\ table'[q] = table[q]
      /\ entered'[p] = entered[p] + 1 /\ due'[p] = -1 /\ table'[p] = <<>>
      /\ todo'[p] = <<u32(Len(outgoing(p, entered[p] + 1)))>> \o outgoing(p, entered[p] + 1)
      /\ pc' \in [Proc -> {"start", "accept", "read_rank", "announce", "idle", "gather",
                           "reflect", "send", "recv", "failed"}]
      /\ entered' = [entered EXCEPT ![p] = @ + 1] /\ due' = [due EXCEPT ![p] = -1]
      /\ table' = [table EXCEPT ![p] = <<>>]
      /\ DOMAIN todo' = Proc /\ todo' = [todo EXCEPT ![p] = todo'[p]]
  BY <1>1 DEF TypeOK, Submit, setup
<1>3. PICK e \in Nat : e = entered[p]
  BY <1>1, Streams
<1>4. /\ todo'[p] \in Seq(Item) /\ todo'[p] # <<>>
      /\ rank_of[p] \in Peer => /\ Len(todo'[p]) = UpLen(e + 1)
                                /\ Segment(todo'[p], UpItems(rank_of[p], e + 1), 0)
  <2>1. e + 1 \in Nat \ {0} /\ todo'[p] = <<u32(Len(outgoing(p, e + 1)))>> \o outgoing(p, e + 1)
    BY <1>2, <1>3
  <2>2. todo'[p] \in Seq(Item) /\ todo'[p] # <<>>
    BY <1>1, <2>1, OutgoingType
  <2> QED BY <1>1, <2>1, <2>2, SubmittedItems
<1>5. TypeOK'
  <2>1. entered' \in [Proc -> Nat] /\ due' \in [Proc -> Int]
    <3>0. entered[p] + 1 \in Nat
      BY <1>3
    <3>1. entered \in [Proc -> Nat] /\ due \in [Proc -> Int] /\ entered[p] + 1 \in Nat
      BY <1>1, <3>0 DEF TypeOK
    <3>2. entered' \in [Proc -> Nat]
      BY <3>1 DEF Submit
    <3>3. due' \in [Proc -> Int]
      BY <3>1 DEF Submit
    <3> QED BY <3>2, <3>3
  <2>2. table' \in [Proc -> Seq(Item)]
    <3>1. <<>> \in Seq(Item)
      OBVIOUS
    <3> QED BY <1>1, <1>2, <3>1 DEF TypeOK
  <2>3. todo' \in [Proc -> Seq(Item)]
    BY <1>1, <1>2, <1>4 DEF TypeOK
  <2> QED BY <1>1, <1>2, <2>1, <2>2, <2>3 DEF TypeOK
<1>6. /\ down[p] = <<>> /\ todo[p] = <<>> /\ left[p] = e
      /\ \A r \in Peer : pc[0] # "failed" /\ peer_fds_[r] = p =>
           /\ up[p] = <<>> /\ e = Reflected(r) /\ Pushed(r) = 0
           /\ \/ e + 1 = entered[0] /\ pc[0] = "gather" /\ Taken(r) = 0
              \/ e = entered[0] /\ Taken(r) = UpLen(entered[0])
  BY <1>2, <1>3, IdlePeer
<1>7. Got(p)' = 0 /\ Len(down[p]) = 0 /\ \A q \in Proc : q # p => Got(q)' = Got(q)
  BY <1>2, <1>6, SegmentEmpty DEF Got
<1>8. ASSUME NEW q \in Peer PROVE PeerControl(q)' /\ PeerDown(q)'
  <2>1. CASE q # p
    BY <1>1, <1>2, <2>1, PeerFrame DEF Peers
  <2>2. CASE q = p
    <3>1. PeerControl(p)'
      BY <1>2, <1>3, <1>4, <1>6 DEF PeerControl
    <3>2. DownLen(e + 1) \in Nat
      BY Lengths
    <3>3. 0 + Len(down[p]) <= DownLen(e + 1)
      BY <1>7, <3>2
    <3>4. /\ Segment(<<>>, TabItems, 0) /\ Segment(<<>>, DownItems(e + 1), 0)
      BY SegmentEmpty
    <3>5. PeerDown(p)'
      BY <1>2, <1>3, <1>6, <1>7, <3>3, <3>4 DEF PeerDown
    <3> QED BY <2>2, <3>1, <3>5
  <2> QED BY <2>1, <2>2
<1>9. Sync'
  <2>1. Complete' = Complete
    BY <1>2 DEF Complete
  <2>2. ASSUME NEW q \in Proc
        PROVE  entered[q] \in Nat /\ entered[q] <= entered'[q] /\ entered'[q] \in Nat
    <3>1. entered[q] \in Nat /\ (entered'[q] = entered[q] \/ entered'[q] = entered[q] + 1)
      BY <1>1, <1>2, Streams
    <3> QED BY <3>1
  <2>3. \A a, q \in Proc : left[a] \in Nat /\ left[a] <= entered[q]
    BY <1>1 DEF Sync, TypeOK
  <2>4. \A a, q \in Proc : left'[a] <= entered'[q]
    BY <1>2, <2>2, <2>3
  <2>5. ASSUME NEW a \in Peer, Got(a)' + Len(down'[a]) > 0
        PROVE  Complete' /\ \A q \in Proc : entered'[a] <= entered'[q]
    <3>1. a # p
      BY <1>2, <1>7, <2>5
    <3>2. Complete /\ \A q \in Proc : entered[a] <= entered[q]
      BY <1>1, <1>2, <1>7, <2>5, <3>1 DEF Sync
    <3> QED BY <1>2, <2>1, <2>2, <3>1, <3>2
  <2> QED BY <1>1, <1>2, <2>1, <2>4, <2>5 DEF Sync
<1>10. Filed' /\ Connected' /\ Distinct'
  BY <1>1, <1>2, FiledFrame, ConnectedFrame
<1>11. RootControl' /\ RootGather' /\ RootReflect'
  <2>1. RootControl'
    BY <1>1, <1>2 DEF RootControl
  <2> QED BY <1>1, <1>2, <2>1, RootFrame
<1>12. RootRuns'
  <2> SUFFICES ASSUME pc'[0] # "failed"
               PROVE  /\ \A q \in Peer : Unread(q)' => Announced(q)'
                      /\ \A r \in Peer : peer_fds_'[r] # 0 => UpStream(r)' /\ DownStream(r)'
    BY DEF RootRuns
  <2>2. ASSUME NEW q \in Peer, Unread(q)' PROVE Announced(q)'
    <3>1. Unread(q) /\ Announced(q)
      BY <1>1, <1>2, <2>2 DEF Unread, RootRuns
    <3>2. CASE q # p
      BY <1>2, <3>1, <3>2, AnnouncedFrame
    <3>3. CASE q = p
      <4>1. /\ up[p] # <<>> /\ up[p][1] = u32(rank_of[p]) /\ e \in {0, 1}
            /\ \A r \in Peer : peer_fds_[r] # p
            /\ rank_of[p] \in Peer => /\ Len(up[p]) - 1 + Len(todo[p]) = UpLen(e)
                                      /\ Segment(Tail(up[p]), UpItems(rank_of[p], e), 0)
        BY <1>2, <1>3, <3>1, <3>3 DEF Announced
      <4>2. e = 0
        <5>1. ~Complete
          BY <1>1, <4>1, AllFiled
        <5>2. ~(left[p] > 0)
          BY <1>1, <5>1 DEF Sync
        <5> QED BY <1>6, <5>2
      <4>3. entered'[p] = 1 /\ 0 + 1 = 1
        BY <1>2, <1>3, <4>2
      <4>4. ASSUME rank_of[p] \in Peer
            PROVE  /\ Len(up[p]) - 1 + Len(todo'[p]) = UpLen(1)
                   /\ Segment(Tail(up[p]), UpItems(rank_of[p], 1), 0)
                   /\ Segment(todo'[p], UpItems(rank_of[p], 1), Len(up[p]) - 1)
        <5>1. Len(up[p]) - 1 + 0 = 0 /\ Len(up[p]) \in Nat
          BY <1>1, <1>6, <4>1, <4>2, <4>4, Streams, SegmentEmpty DEF UpLen
        <5>2. Len(up[p]) = 1
          BY <5>1
        <5>3. Tail(up[p]) = <<>> /\ Len(up[p]) - 1 = 0
          <6>1. up[p] \in Seq(Item)
            BY <1>1, Streams
          <6>2. Tail(up[p]) = <<>>
            BY <4>1, <5>2, <6>1, OneLess
          <6> QED BY <5>2, <6>2
        <5>4. Segment(<<>>, UpItems(rank_of[p], 1), 0)
          BY SegmentEmpty
        <5>5. UpLen(1) \in Nat /\ 0 + UpLen(1) = UpLen(1)
          BY Lengths
        <5> QED BY <1>4, <4>2, <4>3, <4>4, <5>3, <5>4, <5>5
      <4> QED BY <1>2, <3>3, <4>1, <4>3, <4>4 DEF Announced
    <3> QED BY <3>2, <3>3
  <2>3. ASSUME NEW r \in Peer, peer_fds_'[r] # 0, peer_fds_[r] # p
        PROVE  UpStream(r)' /\ DownStream(r)'
    <3>1. UpStream(r) /\ DownStream(r) /\ peer_fds_[r] \in Proc
      BY <1>1, <1>2, <2>3 DEF RootRuns, TypeOK
    <3> QED BY <1>2, <2>3, <3>1, UpFrame, DownFrame
  <2>4. ASSUME NEW r \in Peer, peer_fds_[r] = p
        PROVE  UpStream(r)' /\ DownStream(r)'
    <3>1. /\ up[p] = <<>> /\ e = Reflected(r) /\ Pushed(r) = 0
          /\ \/ e + 1 = entered[0] /\ pc[0] = "gather" /\ Taken(r) = 0
             \/ e = entered[0] /\ Taken(r) = UpLen(entered[0])
      BY <1>2, <1>6, <2>4
    <3>2. Taken(r)' = Taken(r) /\ Reflected(r)' = Reflected(r) /\ Pushed(r)' = Pushed(r)
      BY <1>2 DEF Taken, Reflected, Pushed
    <3>3. rank_of[p] = r
      BY <1>1, <2>4 DEF Filed
    <3>4. Sends(p, e + 1, 0)'
      <4>1. 0 + Len(up[p]) + Len(todo'[p]) = UpLen(e + 1) /\ 0 + Len(up[p]) = 0
        BY <1>4, <3>1, <3>3, Lengths, SegmentEmpty
      <4>2. Segment(up[p], UpItems(rank_of[p], e + 1), 0)
        BY <3>1, SegmentEmpty
      <4> QED BY <1>2, <1>4, <3>3, <4>1, <4>2 DEF Sends
    <3>5. UpStream(r)'
      BY <1>2, <1>3, <2>4, <3>1, <3>2, <3>4 DEF UpStream
    <3>6. DownStream(r)'
      BY <1>2, <1>3, <1>7, <2>4, <3>1, <3>2 DEF DownStream
    <3> QED BY <3>5, <3>6
  <2> QED BY <2>2, <2>3, <2>4
<1> QED BY <1>5, <1>8, <1>9, <1>10, <1>11, <1>12 DEF Inv

(***************************************************************************)
(* An item moves from what p has to send, t, into its stream, s.           *)
(***************************************************************************)
Moved(s, t, items, c) ==
  /\ Segment(Append(s, Head(t)), items, c)
  /\ Segment(Tail(t), items, c + Len(Append(s, Head(t))))
  /\ c + Len(Append(s, Head(t))) + Len(Tail(t)) = c + Len(s) + Len(t)

(***************************************************************************)
(* Both remain segments.                                                   *)
(***************************************************************************)
LEMMA SegmentMove ==
  ASSUME NEW s \in Seq(Item), NEW t \in Seq(Item), NEW items, NEW c \in Nat, t # <<>>,
         Segment(s, items, c), Segment(t, items, c + Len(s))
  PROVE  Moved(s, t, items, c)
<1>1. PICK m \in Nat : m = Len(s)
  BY Elements
<1>2. PICK k \in Nat : k = Len(t)
  BY Elements
<1>3. /\ Head(t) \in Item /\ Head(t) = items[c + m + 1] /\ Len(Tail(t)) = k - 1
      /\ Segment(Tail(t), items, c + m + 1)
  <2>1. c + m \in Nat
    OBVIOUS
  <2>2. Segment(t, items, c + m)
    BY <1>1
  <2> QED BY <1>2, <2>1, <2>2, SegmentTail
<1>4. Len(Append(s, Head(t))) = m + 1 /\ Segment(Append(s, Head(t)), items, c)
  BY <1>1, <1>3, SegmentAppend
<1>5. c + (m + 1) = c + m + 1 /\ c + (m + 1) + (k - 1) = c + m + k
  OBVIOUS
<1> QED BY <1>1, <1>2, <1>3, <1>4, <1>5 DEF Moved

(***************************************************************************)
(* The tail of a stream to which an item is added.                         *)
(***************************************************************************)
LEMMA TailAppend ==
  ASSUME NEW S, NEW s \in Seq(S), NEW x \in S, s # <<>>
  PROVE  Tail(Append(s, x)) = Append(Tail(s), x) /\ Append(s, x)[1] = s[1]
<1> DEFINE a == Tail(Append(s, x))
           b == Append(Tail(s), x)
<1>1. Len(s) \in Nat /\ Len(s) >= 1 /\ Tail(s) \in Seq(S) /\ Len(Tail(s)) = Len(s) - 1
  BY OneLess, Elements
<1>2. /\ Append(s, x) \in Seq(S) /\ Append(s, x) # <<>> /\ Len(Append(s, x)) = Len(s) + 1
      /\ \A i \in 1 .. Len(s) : Append(s, x)[i] = s[i]
      /\ Append(s, x)[Len(s) + 1] = x
  BY OneMore
<1>3. a \in Seq(S) /\ Len(a) = Len(s)
  BY <1>1, <1>2, OneLess
<1>4. b \in Seq(S) /\ Len(b) = Len(s)
  BY <1>1
<1>5. ASSUME NEW i \in 1 .. Len(s) PROVE a[i] = b[i]
  <2>1. a[i] = Append(s, x)[i + 1]
    BY <1>1, <1>2
  <2>2. CASE i = Len(s)
    <3>1. b[i] = x
      BY <1>1, <2>2
    <3> QED BY <1>2, <2>1, <2>2, <3>1
  <2>3. CASE i # Len(s)
    <3>1. i \in 1 .. Len(s) - 1 /\ i + 1 \in 1 .. Len(s)
      <4>1. PICK m \in Nat : m = Len(s)
        BY <1>1
      <4>2. i \in 1 .. m /\ i # m
        BY <2>3, <4>1
      <4>3. i \in 1 .. m - 1 /\ i + 1 \in 1 .. m
        BY <4>2
      <4> QED BY <4>1, <4>3
    <3>2. b[i] = Tail(s)[i] /\ Tail(s)[i] = s[i + 1]
      BY <1>1, <3>1
    <3> QED BY <1>2, <2>1, <3>1, <3>2
  <2> QED BY <2>2, <2>3
<1>6. a = b
  <2> HIDE DEF a, b
  <2>1. /\ a = [i \in 1 .. Len(a) |-> a[i]] /\ b = [i \in 1 .. Len(b) |-> b[i]]
    BY <1>3, <1>4
  <2> QED BY <1>3, <1>4, <1>5, <2>1
<1>7. Append(s, x)[1] = s[1]
  <2>1. 1 \in 1 .. Len(s)
    BY <1>1
  <2> QED BY <1>2, <2>1
<1> QED BY <1>6, <1>7

(***************************************************************************)
(* A process sends an item.                                                *)
(***************************************************************************)
LEMMA SendStep == ASSUME Inv, NEW p \in Peer, Send(p) PROVE Inv'
<1> USE Processes
<1>1. /\ TypeOK /\ Peers /\ Sync /\ Filed /\ Connected /\ Distinct
      /\ RootControl /\ RootGather /\ RootReflect /\ RootRuns
  BY DEF Inv, Peers
<1>2. /\ UNCHANGED <<rank_of, backlog, accepted, peer_fds_, down, entered, left, due, at, table>>
      /\ pc[p] = "send" /\ pc'[0] = pc[0]
      /\ pc'[p] = IF Tail(todo[p]) = <<>> THEN "recv" ELSE "send"
      /\ \A q \in Proc : q # p => pc'[q] = pc[q] /\ todo'[q] = todo[q] /\ up'[q] = up[q]
      /\ todo'[p] = Tail(todo[p]) /\ up'[p] = Append(up[p], Head(todo[p]))
      /\ pc' \in [Proc -> {"start", "accept", "read_rank", "announce", "idle", "gather",
                           "reflect", "send", "recv", "failed"}]
      /\ up' = [up EXCEPT ![p] = Append(up[p], Head(todo[p]))]
      /\ todo' = [todo EXCEPT ![p] = Tail(todo[p])]
  BY <1>1 DEF TypeOK, Send, setup
<1>3. todo[p] # <<>> /\ PeerControl(p) /\ PeerDown(p) /\ entered[p] = left[p] + 1
  BY <1>1, <1>2 DEF Peers, PeerControl
<1>4. up[p] \in Seq(Item) /\ todo[p] \in Seq(Item)
  BY <1>1, Streams
<1>u. PICK u \in Seq(Item) : u = up[p]
  BY <1>4
<1>t. PICK t \in Seq(Item) : t = todo[p] /\ t # <<>>
  BY <1>3, <1>4
<1>x. PICK x \in Item : x = Head(t)
  BY <1>t
<1>5. /\ Head(todo[p]) \in Item /\ Tail(todo[p]) \in Seq(Item)
      /\ Append(up[p], Head(todo[p])) \in Seq(Item) /\ Append(up[p], Head(todo[p])) # <<>>
  <2>1. Tail(t) \in Seq(Item)
    BY <1>t, OneLess
  <2>2. Append(u, x) \in Seq(Item) /\ Append(u, x) # <<>>
    OBVIOUS
  <2> QED BY <1>u, <1>t, <1>x, <2>1, <2>2
<1>6. TypeOK'
  <2>1. up' \in [Proc -> Seq(Item)] /\ todo' \in [Proc -> Seq(Item)]
    BY <1>1, <1>2, <1>5 DEF TypeOK
  <2> QED BY <1>1, <1>2, <2>1 DEF TypeOK
<1>7. ASSUME NEW q \in Peer PROVE PeerControl(q)' /\ PeerDown(q)'
  <2>1. CASE q # p
    BY <1>1, <1>2, <2>1, PeerFrame DEF Peers
  <2>2. CASE q = p
    <3>1. Got(p)' = Got(p)
      BY <1>2 DEF Got
    <3>2. PeerControl(p)'
      BY <1>2, <1>3, <3>1 DEF PeerControl
    <3>3. PeerDown(p)'
      BY <1>2, <1>3, <3>1 DEF PeerDown
    <3> QED BY <2>2, <3>2, <3>3
  <2> QED BY <2>1, <2>2
<1>8. Sync'
  BY <1>1, <1>2, SyncFrame DEF Complete
<1>9. Filed' /\ Connected' /\ Distinct'
  BY <1>1, <1>2, FiledFrame, ConnectedFrame
<1>10. RootControl' /\ RootGather' /\ RootReflect'
  <2>1. RootControl'
    BY <1>1, <1>2 DEF RootControl
  <2> QED BY <1>1, <1>2, <2>1, RootFrame
<1>11. RootRuns'
  <2> SUFFICES ASSUME pc'[0] # "failed"
               PROVE  /\ \A q \in Peer : Unread(q)' => Announced(q)'
                      /\ \A r \in Peer : peer_fds_'[r] # 0 => UpStream(r)' /\ DownStream(r)'
    BY DEF RootRuns
  <2>2. ASSUME NEW q \in Peer, Unread(q)' PROVE Announced(q)'
    <3>1. Unread(q) /\ Announced(q)
      BY <1>1, <1>2, <2>2 DEF Unread, RootRuns
    <3>2. CASE q # p
      BY <1>2, <3>1, <3>2, AnnouncedFrame
    <3>3. CASE q = p
      <4>1. /\ up[p] # <<>> /\ up[p][1] = u32(rank_of[p]) /\ entered[p] \in {0, 1}
            /\ \A r \in Peer : peer_fds_[r] # p
            /\ rank_of[p] \in Peer =>
                 /\ Len(up[p]) - 1 + Len(todo[p]) = UpLen(entered[p])
                 /\ Segment(Tail(up[p]), UpItems(rank_of[p], entered[p]), 0)
                 /\ Segment(todo[p], UpItems(rank_of[p], entered[p]), Len(up[p]) - 1)
        BY <1>2, <3>1, <3>3 DEF Announced
      <4>2. /\ up'[p] # <<>> /\ up'[p][1] = u32(rank_of[p])
            /\ Tail(up'[p]) = Append(Tail(up[p]), Head(todo[p]))
        <5>1. Tail(Append(u, x)) = Append(Tail(u), x) /\ Append(u, x)[1] = u[1]
          BY <1>u, <4>1, TailAppend
        <5>2. up'[p] = Append(u, x)
          BY <1>2, <1>u, <1>t, <1>x
        <5> QED BY <1>5, <1>2, <1>u, <1>t, <1>x, <4>1, <5>1, <5>2
      <4>3. ASSUME rank_of[p] \in Peer
            PROVE  /\ Len(up'[p]) - 1 + Len(todo'[p]) = UpLen(entered[p])
                   /\ Segment(Tail(up'[p]), UpItems(rank_of[p], entered[p]), 0)
                   /\ Segment(todo'[p], UpItems(rank_of[p], entered[p]), Len(up'[p]) - 1)
        <5>1. PICK s \in Seq(Item) : s = Tail(up[p])
          BY <1>4, <4>1, OneLess
        <5>2. PICK items : items = UpItems(rank_of[p], entered[p])
          OBVIOUS
        <5>3. /\ Len(s) = Len(up[p]) - 1 /\ Len(s) \in Nat /\ Len(todo[p]) \in Nat
              /\ Len(up[p]) \in Nat
          BY <1>4, <4>1, <5>1, OneLess, Elements
        <5>4. 0 + Len(s) = Len(up[p]) - 1
          BY <5>3
        <5>5. Segment(s, items, 0) /\ Segment(todo[p], items, 0 + Len(s))
          BY <4>1, <4>3, <5>1, <5>2, <5>4
        <5>6. /\ Segment(Append(s, Head(todo[p])), items, 0)
              /\ Segment(Tail(todo[p]), items, 0 + Len(Append(s, Head(todo[p]))))
              /\ 0 + Len(Append(s, Head(todo[p]))) + Len(Tail(todo[p]))
                   = 0 + Len(s) + Len(todo[p])
          <6>1. Moved(s, t, items, 0)
            BY <1>t, <5>5, SegmentMove
          <6> QED BY <1>t, <6>1 DEF Moved
        <5>7. PICK m \in Nat : m = Len(Append(s, Head(todo[p])))
          BY <1>5, OneMore, Elements
        <5>8. m = Len(s) + 1 /\ Len(up'[p]) = Len(up[p]) + 1
          BY <1>2, <1>4, <1>5, <5>7, OneMore
        <5>9. Len(up'[p]) - 1 = 0 + m
          BY <5>3, <5>8
        <5>10. 0 + Len(s) + Len(todo[p]) = UpLen(entered[p])
          BY <4>1, <4>3, <5>4
        <5>11. Len(up'[p]) - 1 + Len(todo'[p]) = UpLen(entered[p])
          BY <1>2, <5>6, <5>7, <5>9, <5>10
        <5> QED BY <1>2, <4>2, <5>1, <5>2, <5>6, <5>7, <5>9, <5>11
      <4>4. /\ entered' = entered /\ rank_of' = rank_of /\ peer_fds_' = peer_fds_
            /\ UpItems(rank_of[p], entered[p])' = UpItems(rank_of[p], entered[p])
        BY <1>2 DEF UpItems
      <4> QED BY <3>3, <4>1, <4>2, <4>3, <4>4 DEF Announced
    <3> QED BY <3>2, <3>3
  <2>3. ASSUME NEW r \in Peer, peer_fds_'[r] # 0, peer_fds_[r] # p
        PROVE  UpStream(r)' /\ DownStream(r)'
    <3>1. UpStream(r) /\ DownStream(r) /\ peer_fds_[r] \in Proc
      BY <1>1, <1>2, <2>3 DEF RootRuns, TypeOK
    <3> QED BY <1>2, <2>3, <3>1, UpFrame, DownFrame
  <2>4. ASSUME NEW r \in Peer, peer_fds_[r] = p
        PROVE  UpStream(r)' /\ DownStream(r)'
    <3>1. UpStream(r) /\ DownStream(r)
      BY <1>1, <1>2, <2>4 DEF RootRuns
    <3>2. DownStream(r)'
      BY <1>2, <2>4, <3>1, DownFrame
    <3>3. Taken(r)' = Taken(r)
      BY <1>2 DEF Taken
    <3>4. ASSUME NEW k, NEW c \in Nat, Sends(p, k, c) PROVE Sends(p, k, c)'
      <4>1. /\ c + Len(up[p]) + Len(todo[p]) = UpLen(k)
            /\ Segment(up[p], UpItems(rank_of[p], k), c)
            /\ Segment(todo[p], UpItems(rank_of[p], k), c + Len(up[p]))
        BY <3>4 DEF Sends
      <4>2. PICK items : items = UpItems(rank_of[p], k)
        OBVIOUS
      <4>3. /\ Segment(up'[p], items, c)
            /\ Segment(todo'[p], items, c + Len(up'[p]))
            /\ c + Len(up'[p]) + Len(todo'[p]) = c + Len(up[p]) + Len(todo[p])
        <5>1. Segment(u, items, c) /\ Segment(t, items, c + Len(u))
          BY <1>u, <1>t, <4>1, <4>2
        <5>2. Moved(u, t, items, c)
          BY <1>t, <5>1, SegmentMove
        <5>3. up'[p] = Append(u, Head(t)) /\ todo'[p] = Tail(t)
          BY <1>2, <1>u, <1>t
        <5> QED BY <1>u, <1>t, <5>2, <5>3 DEF Moved
      <4>4. rank_of' = rank_of
        BY <1>2
      <4> QED BY <4>1, <4>2, <4>3, <4>4 DEF Sends
    <3>5. Taken(r) \in Nat \/ pc[0] = "gather"
      BY <1>1, Lengths, Streams DEF Taken
    <3>6. Taken(r) \in Nat
      <4>1. CASE pc[0] = "gather"
        <5>1. PICK k \in Nat : k = entered[0]
          BY <1>1, Streams
        <5>2. due[0] # -1 => k = 1 /\ due[0] \in 1 .. P - 1
          BY <1>1, <4>1, <5>1 DEF RootGather
        <5>3. UpLen(k) \in Nat /\ (k = 1 => UpLen(k) = P)
          BY Lengths
        <5>4. due[0] # -1 => UpLen(k) - due[0] \in Nat
          BY <5>2, <5>3
        <5> QED BY <4>1, <5>1, <5>3, <5>4 DEF Taken
      <4> QED BY <3>5, <4>1
    <3>7. UpStream(r)'
      BY <1>2, <1>3, <2>4, <3>1, <3>3, <3>4, <3>6 DEF UpStream
    <3> QED BY <3>2, <3>7
  <2> QED BY <2>2, <2>3, <2>4
<1> QED BY <1>6, <1>7, <1>8, <1>9, <1>10, <1>11 DEF Inv

(***************************************************************************)
(* What the root reflects: a count, then the table.                        *)
(***************************************************************************)
LEMMA DownItem ==
  ASSUME NEW k \in Nat
  PROVE  /\ DownItems(k)[1] = u32(TabLen(k)) /\ DownItems(k)[1].n = TabLen(k)
         /\ \A i \in Nat : i > 0 => DownItems(k)[i + 1] = TabItems[i]
<1>1. DownItems(k)[1] = u32(TabLen(k))
  BY DEF DownItems
<1>2. u32(TabLen(k)).n = TabLen(k)
  BY Lengths, ItemParts
<1>3. ASSUME NEW i \in Nat, i > 0 PROVE DownItems(k)[i + 1] = TabItems[i]
  <2>1. i + 1 \in Nat /\ i + 1 # 1 /\ (i + 1) - 1 = i
    BY <1>3
  <2> QED BY <2>1 DEF DownItems
<1> QED BY <1>1, <1>2, <1>3

(***************************************************************************)
(* Receiving an item: the count, or the next entry of the table.           *)
(***************************************************************************)
LEMMA Received ==
  ASSUME Inv, NEW p \in Peer, Recv(p), NEW e \in Nat, e = entered[p],
         NEW g \in Nat, g = Got(p)
  PROVE  /\ e = left[p] + 1 /\ down[p] # <<>> /\ pc[p] = "recv"
         /\ Got(p)' = g + 1 /\ Len(down'[p]) = Len(down[p]) - 1
         /\ down'[p] \in Seq(Item) /\ Segment(down'[p], DownItems(e), g + 1)
         /\ table'[p] \in Seq(Item) /\ Segment(table'[p], TabItems, 0)
         /\ due'[p] \in Nat /\ due'[p] = TabLen(e) - Len(table'[p])
         /\ \/ due'[p] > 0 /\ UNCHANGED <<pc, left, result>>
            \/ /\ due'[p] = 0
               /\ pc' = [pc EXCEPT ![p] = "idle"]
               /\ left' = [left EXCEPT ![p] = entered[p]]
               /\ result' = [result EXCEPT ![p] = addressed_to(rank_of[p], table'[p])]
<1> USE Processes
<1>1. TypeOK /\ PeerControl(p) /\ PeerDown(p)
  BY DEF Inv
<1> DEFINE x == Head(down[p])
           n == IF due[p] = -1 THEN x.n ELSE due[p] - 1
           tab == IF due[p] = -1 THEN <<>> ELSE Append(table[p], x)
<1>2. /\ pc[p] = "recv" /\ down[p] # <<>>
      /\ down'[p] = Tail(down[p]) /\ due'[p] = n /\ table'[p] = tab
      /\ \/ n > 0 /\ UNCHANGED <<pc, left, result>>
         \/ /\ n = 0
            /\ pc' = [pc EXCEPT ![p] = "idle"]
            /\ left' = [left EXCEPT ![p] = entered[p]]
            /\ result' = [result EXCEPT ![p] = addressed_to(rank_of[p], tab)]
  BY <1>1 DEF TypeOK, Recv
<1>3. e = left[p] + 1 /\ left[p] \in Nat /\ e > 0
  BY <1>1, <1>2, Streams DEF PeerControl
<1>4. /\ IF due[p] = -1 THEN table[p] = <<>>
         ELSE due[p] = TabLen(e) - Len(table[p])
      /\ Segment(table[p], TabItems, 0)
      /\ Segment(down[p], DownItems(e), g)
  BY <1>1 DEF PeerDown
<1>5. PICK d \in Seq(Item) : d = down[p] /\ d # <<>>
  BY <1>1, <1>2, Streams
<1>6. PICK items : items = DownItems(e)
  OBVIOUS
<1>7. /\ Head(d) \in Item /\ Head(d) = items[g + 1]
      /\ Tail(d) \in Seq(Item) /\ Len(Tail(d)) = Len(d) - 1
      /\ Segment(Tail(d), items, g + 1)
  BY <1>4, <1>5, <1>6, SegmentTail
<1>8. x = DownItems(e)[g + 1] /\ x \in Item
  BY <1>5, <1>6, <1>7
<1>9. TabLen(e) \in Nat /\ Len(<<>>) = 0 /\ Segment(<<>>, TabItems, 0)
  BY Lengths, SegmentEmpty
<1>10. /\ Got(p)' = g + 1 /\ due'[p] \in Nat /\ due'[p] = TabLen(e) - Len(table'[p])
       /\ table'[p] \in Seq(Item) /\ Segment(table'[p], TabItems, 0)
  <2>1. CASE due[p] = -1
    <3>1. g = 0 /\ g + 1 = 1
      BY <2>1 DEF Got
    <3>2. n = TabLen(e) /\ tab = <<>>
      <4>1. DownItems(e)[1].n = TabLen(e)
        BY DownItem
      <4>2. x = DownItems(e)[1]
        BY <1>8, <3>1
      <4> QED BY <2>1, <4>1, <4>2
    <3>3. due'[p] = TabLen(e) /\ table'[p] = <<>> /\ <<>> \in Seq(Item)
      BY <1>2, <3>2
    <3>4. due'[p] # -1
      BY <1>9, <3>3
    <3>5. Got(p)' = 1 + 0
      BY <1>9, <3>3, <3>4 DEF Got
    <3> QED BY <1>9, <3>1, <3>3, <3>5
  <2>2. CASE due[p] # -1
    <3>1. PICK t \in Seq(Item) : t = table[p]
      BY <1>1, Streams
    <3>2. PICK m \in Nat : m = Len(t)
      BY Elements
    <3>3. g = m + 1 /\ g > 0
      BY <2>2, <3>1, <3>2 DEF Got
    <3>4. x = TabItems[m + 1]
      <4>1. DownItems(e)[g + 1] = TabItems[g]
        BY <3>3, DownItem
      <4> QED BY <1>8, <3>3, <4>1
    <3>5. PICK y \in Item : y = x
      BY <1>8
    <3>6. 0 + m + 1 = m + 1
      OBVIOUS
    <3>7. /\ Append(t, y) \in Seq(Item) /\ Len(Append(t, y)) = m + 1
          /\ Segment(Append(t, y), TabItems, 0)
      <4>1. PICK ti : ti = TabItems
        OBVIOUS
      <4>2. Segment(t, ti, 0) /\ y = ti[0 + Len(t) + 1]
        BY <1>4, <3>1, <3>2, <3>4, <3>5, <3>6, <4>1
      <4>3. /\ Append(t, y) \in Seq(Item) /\ Len(Append(t, y)) = Len(t) + 1
            /\ Segment(Append(t, y), ti, 0)
        BY <4>2, SegmentAppend
      <4> QED BY <3>2, <4>1, <4>3
    <3>8. table'[p] = Append(t, y) /\ due'[p] = due[p] - 1 /\ due[p] = TabLen(e) - m
      BY <1>2, <1>4, <2>2, <3>1, <3>2, <3>5
    <3>9. due'[p] \in Int /\ (due'[p] > 0 \/ due'[p] = 0)
      BY <1>2, <1>9, <3>8
    <3>10. due'[p] # -1
      BY <3>9
    <3>11. Got(p)' = 1 + (m + 1)
      BY <3>7, <3>8, <3>10 DEF Got
    <3>12. due'[p] \in Nat /\ due'[p] = TabLen(e) - (m + 1)
      BY <1>9, <3>8, <3>9
    <3> QED BY <3>3, <3>7, <3>8, <3>11, <3>12
  <2> QED BY <2>1, <2>2
<1>11. /\ \/ due'[p] > 0 /\ UNCHANGED <<pc, left, result>>
          \/ /\ due'[p] = 0
             /\ pc' = [pc EXCEPT ![p] = "idle"]
             /\ left' = [left EXCEPT ![p] = entered[p]]
             /\ result' = [result EXCEPT ![p] = addressed_to(rank_of[p], table'[p])]
  <2> HIDE DEF n, tab
  <2> QED BY <1>2
<1>12. /\ Len(down'[p]) = Len(down[p]) - 1 /\ down'[p] \in Seq(Item)
       /\ Segment(down'[p], DownItems(e), g + 1)
  BY <1>2, <1>5, <1>6, <1>7
<1> QED BY <1>2, <1>3, <1>10, <1>11, <1>12

(***************************************************************************)
(* A process receives an item, and returns with the last one.              *)
(***************************************************************************)
LEMMA RecvStep == ASSUME Inv, NEW p \in Peer, Recv(p) PROVE Inv'
<1> USE Processes
<1>1. /\ TypeOK /\ Peers /\ Sync /\ Filed /\ Connected /\ Distinct
      /\ RootControl /\ RootGather /\ RootReflect /\ RootRuns
  BY DEF Inv, Peers
<1>e. PICK e \in Nat : e = entered[p]
  BY <1>1, Streams
<1>g. PICK g \in Nat : g = Got(p)
  BY <1>1, Streams
<1>m. PICK m \in Nat : m = Len(down[p])
  BY <1>1, Streams
<1>2. /\ UNCHANGED <<rank_of, backlog, accepted, peer_fds_, up, entered, todo, at>>
      /\ \A q \in Proc : q # p => /\ down'[q] = down[q] /\ due'[q] = due[q]
                                  /\ table'[q] = table[q]
      /\ DOMAIN down' = Proc /\ DOMAIN due' = Proc /\ DOMAIN table' = Proc
      /\ down' = [down EXCEPT ![p] = down'[p]] /\ due' = [due EXCEPT ![p] = due'[p]]
      /\ table' = [table EXCEPT ![p] = table'[p]]
  BY <1>1 DEF TypeOK, Recv, setup
<1>3. /\ e = left[p] + 1 /\ pc[p] = "recv"
      /\ Got(p)' = g + 1 /\ Len(down'[p]) = m - 1
      /\ down'[p] \in Seq(Item) /\ Segment(down'[p], DownItems(e), g + 1)
      /\ table'[p] \in Seq(Item) /\ Segment(table'[p], TabItems, 0)
      /\ due'[p] \in Nat /\ due'[p] = TabLen(e) - Len(table'[p])
      /\ down[p] # <<>>
  BY <1>e, <1>g, <1>m, Received
<1>4. \/ due'[p] > 0 /\ UNCHANGED <<pc, left, result>>
      \/ /\ due'[p] = 0
         /\ pc' = [pc EXCEPT ![p] = "idle"] /\ left' = [left EXCEPT ![p] = e]
  BY <1>e, <1>g, Received
<1>5. /\ pc' \in [Proc -> {"start", "accept", "read_rank", "announce", "idle", "gather",
                           "reflect", "send", "recv", "failed"}]
      /\ left' \in [Proc -> Nat]
      /\ \A q \in Proc : q # p => pc'[q] = pc[q] /\ left'[q] = left[q]
      /\ pc'[0] = pc[0] /\ left'[0] = left[0]
      /\ \/ due'[p] > 0 /\ pc'[p] = "recv" /\ left'[p] = left[p]
         \/ due'[p] = 0 /\ pc'[p] = "idle" /\ left'[p] = e
  <2>1. CASE due'[p] > 0 /\ UNCHANGED <<pc, left, result>>
    BY <1>1, <1>3, <2>1 DEF TypeOK
  <2>2. CASE /\ due'[p] = 0
             /\ pc' = [pc EXCEPT ![p] = "idle"] /\ left' = [left EXCEPT ![p] = e]
    <3>1. pc'[p] = "idle" /\ \A q \in Proc : q # p => pc'[q] = pc[q]
      BY <1>1, <2>2 DEF TypeOK
    <3>2. /\ left' \in [Proc -> Nat] /\ left'[p] = e
          /\ \A q \in Proc : q # p => left'[q] = left[q]
      BY <1>1, <2>2 DEF TypeOK
    <3>3. pc' \in [Proc -> {"start", "accept", "read_rank", "announce", "idle", "gather",
                            "reflect", "send", "recv", "failed"}]
      BY <1>1, <2>2 DEF TypeOK
    <3>4. p # 0 /\ 0 \in Proc
      OBVIOUS
    <3> QED BY <2>2, <3>1, <3>2, <3>3, <3>4
  <2> QED BY <1>4, <2>1, <2>2
<1>6. TypeOK'
  <2>1. /\ down' \in [Proc -> Seq(Item)] /\ table' \in [Proc -> Seq(Item)]
    <3>1. down' \in [Proc -> Seq(Item)]
      BY <1>1, <1>2, <1>3 DEF TypeOK
    <3>2. table' \in [Proc -> Seq(Item)]
      BY <1>1, <1>2, <1>3 DEF TypeOK
    <3> QED BY <3>1, <3>2
  <2>2. due' \in [Proc -> Int]
    <3>1. due'[p] \in Int
      BY <1>3
    <3> QED BY <1>1, <1>2, <3>1 DEF TypeOK
  <2> QED BY <1>1, <1>2, <1>5, <2>1, <2>2 DEF TypeOK
<1>7. PeerControl(p) /\ PeerDown(p) /\ g + m <= DownLen(e) /\ e \in Nat \ {0} /\ m > 0
  <2>1. PeerControl(p) /\ PeerDown(p) /\ g + m <= DownLen(e)
    BY <1>1, <1>e, <1>g, <1>m DEF Peers, PeerDown
  <2>2. left[p] \in Nat
    BY <1>1, Streams
  <2>3. e > 0
    BY <1>3, <2>2
  <2>4. m # 0
    BY <1>1, <1>3, <1>m, Streams, NoElements
  <2> QED BY <2>1, <2>3, <2>4
<1>8. /\ TabLen(e) \in Nat /\ DownLen(e) = TabLen(e) + 1
      /\ (g + 1) + (m - 1) = g + m /\ g + m > 0
  BY <1>7, Lengths
<1>9. ASSUME NEW q \in Peer PROVE PeerControl(q)' /\ PeerDown(q)'
  <2>1. CASE q # p
    BY <1>1, <1>2, <1>5, <2>1, PeerFrame DEF Peers
  <2>2. CASE q = p
    <3>1. due'[p] = 0 => Got(p)' = DownLen(e)
      <4>1. PICK k \in Nat : k = Len(table'[p])
        BY <1>3, Elements
      <4>2. due'[p] # -1 /\ Got(p)' = 1 + k
        BY <1>3, <4>1 DEF Got
      <4>3. due'[p] = TabLen(e) - k
        BY <1>3, <4>1
      <4>4. ASSUME due'[p] = 0 PROVE k = TabLen(e)
        BY <1>8, <4>3, <4>4
      <4>5. TabLen(e) + 1 = 1 + TabLen(e)
        BY <1>8
      <4> QED BY <1>8, <4>2, <4>4, <4>5
    <3>2. entered'[p] = e /\ todo'[p] = todo[p] /\ up'[p] = up[p]
      BY <1>2, <1>e
    <3>3. todo[p] = <<>>
      BY <1>3, <1>7 DEF PeerControl
    <3>4. PeerControl(p)'
      BY <1>3, <1>5, <3>1, <3>2, <3>3 DEF PeerControl
    <3>5. due'[p] # -1 /\ e > 0 /\ Got(p)' + Len(down'[p]) <= DownLen(e)
      <4>1. due'[p] # -1 /\ e > 0
        BY <1>3, <1>7
      <4>2. Got(p)' + Len(down'[p]) = g + m
        BY <1>3, <1>8
      <4> QED BY <1>7, <4>1, <4>2
    <3>6. PeerDown(p)'
      BY <1>3, <3>2, <3>5 DEF PeerDown
    <3> QED BY <2>2, <3>4, <3>6
  <2> QED BY <2>1, <2>2
<1>10. Complete' = Complete /\ Complete /\ \A q \in Proc : e <= entered[q]
  BY <1>1, <1>2, <1>e, <1>g, <1>m, <1>8 DEF Sync, Complete
<1>11. Sync'
  <2>1. \A a \in Proc : left'[a] > 0 => Complete'
    BY <1>10
  <2>2. ASSUME NEW a \in Proc, NEW q \in Proc PROVE left'[a] <= entered'[q]
    <3>1. left[a] <= entered[q]
      BY <1>1 DEF Sync
    <3> QED BY <1>2, <1>5, <1>10, <3>1
  <2>3. ASSUME NEW a \in Peer, Got(a)' + Len(down'[a]) > 0
        PROVE  Complete' /\ \A q \in Proc : entered'[a] <= entered'[q]
    <3>1. CASE a = p
      BY <1>2, <1>e, <1>10, <3>1
    <3>2. CASE a # p
      <4>1. Got(a)' = Got(a) /\ down'[a] = down[a]
        BY <1>2, <3>2 DEF Got
      <4> QED BY <1>1, <1>2, <1>10, <2>3, <4>1 DEF Sync
    <3> QED BY <3>1, <3>2
  <2> QED BY <2>1, <2>2, <2>3 DEF Sync
<1>12. Filed' /\ Connected' /\ Distinct'
  BY <1>1, <1>2, <1>3, <1>5, FiledFrame, ConnectedFrame
<1>13. RootControl' /\ RootGather' /\ RootReflect'
  <2>1. RootControl'
    BY <1>1, <1>2, <1>5 DEF RootControl
  <2> QED BY <1>1, <1>2, <1>5, <2>1, RootFrame
<1>14. RootRuns'
  <2> SUFFICES ASSUME pc'[0] # "failed"
               PROVE  /\ \A q \in Peer : Unread(q)' => Announced(q)'
                      /\ \A r \in Peer : peer_fds_'[r] # 0 => UpStream(r)' /\ DownStream(r)'
    BY DEF RootRuns
  <2>2. ASSUME NEW q \in Peer, Unread(q)' PROVE Announced(q)'
    <3>1. Unread(q) /\ Announced(q)
      BY <1>1, <1>2, <1>5, <2>2 DEF Unread, RootRuns
    <3>2. CASE q # p
      BY <1>2, <1>5, <3>1, <3>2, AnnouncedFrame
    <3>3. CASE q = p
      BY <1>2, <1>3, <3>1, <3>3 DEF Announced
    <3> QED BY <3>2, <3>3
  <2>3. ASSUME NEW r \in Peer, peer_fds_'[r] # 0
        PROVE  UpStream(r)' /\ DownStream(r)'
    <3>1. UpStream(r) /\ DownStream(r) /\ peer_fds_[r] \in Proc
      BY <1>1, <1>2, <1>5, <2>3 DEF RootRuns, TypeOK
    <3>2. UpStream(r)'
      BY <1>2, <1>5, <3>1, UpFrame
    <3>3. CASE peer_fds_[r] # p
      BY <1>2, <1>5, <3>1, <3>2, <3>3, DownFrame
    <3>4. CASE peer_fds_[r] = p
      <4>1. Got(p)' + Len(down'[p]) = Got(p) + Len(down[p])
        BY <1>3, <1>8, <1>g, <1>m
      <4>2. Reflected(r)' = Reflected(r) /\ Pushed(r)' = Pushed(r)
        BY <1>2, <1>5 DEF Reflected, Pushed
      <4>3. DownStream(r)'
        BY <1>2, <3>1, <3>4, <4>1, <4>2 DEF DownStream
      <4> QED BY <3>2, <4>3
    <3> QED BY <3>3, <3>4
  <2> QED BY <2>2, <2>3
<1> QED BY <1>6, <1>9, <1>11, <1>12, <1>13, <1>14 DEF Inv

-----------------------------------------------------------------------------
(* exchange on rank 0.                                                     *)

(***************************************************************************)
(* The table starts with the entries of rank 0.                            *)
(***************************************************************************)
LEMMA OwnEntries ==
  ASSUME TypeOK, NEW k \in Nat \ {0}
  PROVE  /\ outgoing(0, k) \in Seq(Item) /\ Segment(outgoing(0, k), TabItems, 0)
         /\ Len(outgoing(0, k)) = IF k = 1 THEN P - 1 ELSE 0
<1> USE Processes
<1>1. rank_of[0] = 0
  BY DEF TypeOK
<1>2. /\ outgoing(0, k) \in Seq(Item)
      /\ Len(outgoing(0, k)) = UpLen(k) - 1
      /\ \A i \in 1 .. UpLen(k) - 1 : outgoing(0, k)[i] = entry(0, dest(0, i), k)
  BY <1>1, OutgoingItems
<1>3. UpLen(k) = IF k = 1 THEN P ELSE 1
  BY DEF UpLen
<1>4. Len(outgoing(0, k)) = IF k = 1 THEN P - 1 ELSE 0
  BY <1>2, <1>3
<1>5. ASSUME NEW i \in 1 .. Len(outgoing(0, k)) PROVE outgoing(0, k)[i] = TabItems[0 + i]
  <2>1. k = 1 /\ i \in 1 .. P - 1
    BY <1>4
  <2>2. TabItems[0 * (P - 1) + i] = entry(0, dest(0, i), 1)
    BY <2>1, TabPosition
  <2>3. 0 * (P - 1) + i = 0 + i
    BY <2>1
  <2>4. outgoing(0, k)[i] = entry(0, dest(0, i), 1)
    BY <1>2, <1>3, <2>1
  <2> QED BY <2>2, <2>3, <2>4
<1> QED BY <1>2, <1>4, <1>5 DEF Segment

(***************************************************************************)
(* The root begins an exchange.                                            *)
(***************************************************************************)
LEMMA GatherStep == ASSUME Inv, Gather PROVE Inv'
<1> USE Processes
<1>1. /\ TypeOK /\ Peers /\ Sync /\ Filed /\ Connected /\ Distinct
      /\ RootControl /\ RootGather /\ RootReflect /\ RootRuns
  BY DEF Inv, Peers
<1>k. PICK k \in Nat : k = entered[0]
  BY <1>1, Streams
<1>2. /\ UNCHANGED <<rank_of, backlog, accepted, peer_fds_, up, down, todo>>
      /\ pc[0] = "idle" /\ at' = 1
      /\ \A q \in Peer : /\ entered'[q] = entered[q] /\ table'[q] = table[q]
                         /\ due'[q] = due[q] /\ pc'[q] = pc[q] /\ left'[q] = left[q]
      /\ entered'[0] = k + 1 /\ table'[0] = outgoing(0, k + 1) /\ due'[0] = -1
      /\ table' = [table EXCEPT ![0] = outgoing(0, k + 1)]
      /\ due' = [due EXCEPT ![0] = -1]
      /\ entered' = [entered EXCEPT ![0] = k + 1]
  BY <1>1, <1>k DEF Gather, TypeOK, setup
<1>3. \/ /\ P = 1 /\ pc' = pc /\ left' = [left EXCEPT ![0] = k + 1]
      \/ P # 1 /\ pc' = [pc EXCEPT ![0] = "gather"] /\ left' = left
  <2>1. left[0] = k
    BY <1>1, <1>2, <1>k DEF RootControl
  <2> QED BY <2>1 DEF Gather
<1>4. /\ left[0] = k /\ k + 1 \in Nat \ {0}
      /\ table'[0] \in Seq(Item) /\ Segment(table'[0], TabItems, 0)
      /\ Len(table'[0]) = IF k + 1 = 1 THEN P - 1 ELSE 0
  <2>1. k + 1 \in Nat \ {0} /\ left[0] = k
    BY <1>1, <1>2, <1>k DEF RootControl
  <2>2. /\ outgoing(0, k + 1) \in Seq(Item) /\ Segment(outgoing(0, k + 1), TabItems, 0)
        /\ Len(outgoing(0, k + 1)) = IF k + 1 = 1 THEN P - 1 ELSE 0
    BY <1>1, <2>1, OwnEntries
  <2> QED BY <1>2, <2>1, <2>2
<1>5. TypeOK'
  <2>1. table' \in [Proc -> Seq(Item)]
    BY <1>1, <1>2, <1>4 DEF TypeOK
  <2>2. due' \in [Proc -> Int]
    BY <1>1, <1>2 DEF TypeOK
  <2>3. entered' \in [Proc -> Nat]
    BY <1>1, <1>2, <1>4 DEF TypeOK
  <2>4. left' \in [Proc -> Nat]
    BY <1>1, <1>3, <1>4 DEF TypeOK
  <2>5. pc' \in [Proc -> {"start", "accept", "read_rank", "announce", "idle", "gather",
                           "reflect", "send", "recv", "failed"}]
    BY <1>1, <1>3 DEF TypeOK
  <2> QED BY <1>1, <1>2, <2>1, <2>2, <2>3, <2>4, <2>5 DEF TypeOK
<1>6. \A q \in Peer : PeerControl(q)' /\ PeerDown(q)'
  BY <1>1, <1>2, PeerFrame DEF Peers
<1>7. Filed' /\ Connected' /\ Distinct'
  BY <1>1, <1>2, FiledFrame, ConnectedFrame
<1>8. CASE P = 1
  <2>1. Peer = {} /\ Proc = {0}
    BY <1>8 DEF Peer, Proc
  <2>2. pc'[0] = "idle" /\ left'[0] = k + 1
    BY <1>1, <1>2, <1>3, <1>8 DEF TypeOK
  <2>3. Sync' /\ RootRuns'
    BY <1>2, <1>4, <2>1, <2>2 DEF Sync, RootRuns, Complete
  <2>4. RootControl' /\ RootGather' /\ RootReflect'
    BY <1>2, <2>2 DEF RootControl, RootGather, RootReflect
  <2> QED BY <1>5, <1>6, <1>7, <2>3, <2>4 DEF Inv
<1>9. CASE P # 1
  <2>1. pc'[0] = "gather" /\ left' = left
    BY <1>1, <1>3, <1>9 DEF TypeOK
  <2>2. Sync'
    <3>1. Complete' = Complete /\ \A a \in Peer : Got(a)' = Got(a)
      BY <1>2 DEF Complete, Got
    <3>2. ASSUME NEW q \in Proc
          PROVE  entered[q] \in Nat /\ entered[q] <= entered'[q] /\ entered'[q] \in Nat
      <4>1. entered[q] \in Nat /\ (entered'[q] = entered[q] \/ entered'[q] = entered[q] + 1)
        BY <1>1, <1>2, <1>k, Streams
      <4> QED BY <4>1
    <3>3. ASSUME NEW a \in Proc, NEW q \in Proc PROVE left'[a] <= entered'[q]
      <4>1. left[a] \in Nat /\ left[a] <= entered[q]
        BY <1>1, Streams DEF Sync
      <4> QED BY <2>1, <3>2, <4>1
    <3>4. ASSUME NEW a \in Peer, Got(a)' + Len(down'[a]) > 0
          PROVE  Complete' /\ \A q \in Proc : entered'[a] <= entered'[q]
      <4>1. Complete /\ \A q \in Proc : entered[a] <= entered[q]
        BY <1>1, <1>2, <3>1, <3>4 DEF Sync
      <4> QED BY <1>2, <3>1, <3>2, <4>1
    <3>5. \A a \in Proc : left'[a] > 0 => Complete'
      BY <1>1, <2>1, <3>1 DEF Sync
    <3> QED BY <3>3, <3>4, <3>5 DEF Sync
  <2>3. RootControl' /\ RootGather' /\ RootReflect'
    <3>1. 1 \in Peer /\ 1 * (P - 1) = P - 1
      BY <1>9 DEF Peer
    <3>2. RootControl'
      BY <1>2, <1>4, <2>1, <3>1 DEF RootControl
    <3>3. \A r \in 1 .. 1 - 1 : FALSE
      OBVIOUS
    <3>4. RootGather'
      BY <1>2, <1>4, <2>1, <3>1, <3>3 DEF RootGather
    <3>5. RootReflect'
      BY <2>1 DEF RootReflect
    <3> QED BY <3>2, <3>4, <3>5
  <2>4. RootRuns'
    <3>1. ASSUME NEW q \in Peer, Unread(q)' PROVE Announced(q)'
      <4>1. Unread(q) /\ Announced(q)
        BY <1>1, <1>2, <2>1, <3>1 DEF Unread, RootRuns
      <4> QED BY <1>2, <4>1, AnnouncedFrame
    <3>2. ASSUME NEW r \in Peer, peer_fds_'[r] # 0 PROVE UpStream(r)' /\ DownStream(r)'
      <4>1. UpStream(r) /\ DownStream(r)
        BY <1>1, <1>2, <3>2 DEF RootRuns
      <4>2. PICK p \in Peer : p = peer_fds_[r]
        BY <1>1, <1>2, <3>2 DEF TypeOK
      <4>3. entered[p] \in Nat /\ UpLen(k) \in Nat
        BY <1>1, Streams, Lengths
      <4>4. /\ Taken(r) = UpLen(k) /\ Reflected(r) = k /\ Pushed(r) = 0
        BY <1>2, <1>k DEF Taken, Reflected, Pushed
      <4>5. Taken(r)' = 0 /\ Reflected(r)' = k /\ Pushed(r)' = 0
        <5>1. ~(r < 1)
          OBVIOUS
        <5> QED BY <1>2, <2>1, <5>1 DEF Taken, Reflected, Pushed
      <4>6. UpStream(r)'
        <5>1. CASE entered[p] = k
          <6>1. Sends(p, k, UpLen(k))
            BY <1>2, <1>k, <4>1, <4>2, <4>3, <4>4, <5>1 DEF UpStream
          <6>2. UpLen(k) + Len(up[p]) + Len(todo[p]) = UpLen(k)
            BY <6>1 DEF Sends
          <6>3. /\ Len(up[p]) \in Nat /\ Len(todo[p]) \in Nat
                /\ up[p] \in Seq(Item) /\ todo[p] \in Seq(Item)
            BY <1>1, Streams
          <6>4. Len(up[p]) = 0 /\ Len(todo[p]) = 0
            BY <4>3, <6>2, <6>3
          <6>5. up[p] = <<>> /\ todo[p] = <<>>
            BY <6>3, <6>4, NoElements
          <6> QED BY <1>2, <2>1, <4>2, <4>5, <5>1, <6>5 DEF UpStream
        <5>2. CASE entered[p] # k
          <6>1. entered[p] = k + 1 /\ Sends(p, k + 1, 0)
            BY <1>2, <1>k, <4>1, <4>2, <4>4, <5>2 DEF UpStream
          <6>2. Sends(p, k + 1, 0)'
            BY <1>2, <6>1 DEF Sends
          <6> QED BY <1>2, <4>2, <4>5, <6>1, <6>2 DEF UpStream
        <5> QED BY <5>1, <5>2
      <4>7. DownStream(r)'
        <5>1. Got(p)' = Got(p)
          BY <1>2 DEF Got
        <5> QED BY <1>2, <4>1, <4>2, <4>4, <4>5, <5>1 DEF DownStream
      <4> QED BY <4>6, <4>7
    <3> QED BY <3>1, <3>2 DEF RootRuns
  <2> QED BY <1>5, <1>6, <1>7, <2>2, <2>3, <2>4 DEF Inv
<1> QED BY <1>8, <1>9

(***************************************************************************)
(* What a rank submits: a count, then its entries.                         *)
(***************************************************************************)
LEMMA UpItem ==
  ASSUME NEW r, NEW k \in Nat \ {0}
  PROVE  /\ UpItems(r, k)[1].n = UpLen(k) - 1
         /\ \A i \in Nat : i > 0 => UpItems(r, k)[i + 1] = entry(r, dest(r, i), k)
<1>1. UpItems(r, k)[1] = u32(UpLen(k) - 1)
  BY DEF UpItems
<1>2. u32(UpLen(k) - 1).n = UpLen(k) - 1
  <2>1. UpLen(k) - 1 \in Nat
    BY Lengths
  <2> QED BY <2>1, ItemParts
<1>3. ASSUME NEW i \in Nat, i > 0 PROVE UpItems(r, k)[i + 1] = entry(r, dest(r, i), k)
  <2>1. i + 1 \in Nat /\ i + 1 # 1 /\ (i + 1) - 1 = i
    BY <1>3
  <2> QED BY <2>1 DEF UpItems
<1> QED BY <1>1, <1>2, <1>3

(***************************************************************************)
(* While the root gathers, it has not taken all of the rank it waits for.  *)
(***************************************************************************)
LEMMA TakenNow ==
  ASSUME TypeOK, RootControl, RootGather, pc[0] = "gather", NEW k \in Nat, k = entered[0]
  PROVE  /\ k > 0 /\ at \in Peer /\ UpLen(k) \in Nat
         /\ Taken(at) \in Nat /\ Taken(at) < UpLen(k)
         /\ Taken(at) = IF due[0] = -1 THEN 0 ELSE UpLen(k) - due[0]
         /\ due[0] # -1 => k = 1 /\ due[0] \in 1 .. P - 1
<1> USE Processes
<1>1. k = left[0] + 1 /\ left[0] \in Nat /\ at \in Peer
  BY Streams DEF RootControl
<1>2. k > 0
  BY <1>1
<1>3. UpLen(k) \in Nat /\ UpLen(k) >= 1 /\ (k = 1 => UpLen(k) = P)
  BY <1>2, Lengths
<1>4. due[0] # -1 => k = 1 /\ due[0] \in 1 .. P - 1
  BY DEF RootGather
<1>5. Taken(at) = IF due[0] = -1 THEN 0 ELSE UpLen(k) - due[0]
  BY <1>1 DEF Taken
<1>6. due[0] # -1 => UpLen(k) - due[0] \in Nat /\ UpLen(k) - due[0] < UpLen(k)
  BY <1>3, <1>4
<1> QED BY <1>1, <1>2, <1>3, <1>4, <1>5, <1>6

(* With n items of rank a still to come after this one, the root goes on   *)
(* with a, turns to the next rank, or starts to reflect.                   *)
Turn(a, k, c, n) ==
  /\ c + 1 + n = UpLen(k) /\ (n > 0 => k = 1 /\ n <= P - 1)
  /\ Len(table'[0]) = IF k = 1 THEN a * (P - 1) + (P - 1) - n ELSE 0
  /\ due'[0] = IF n = 0 THEN -1 ELSE n
  /\ \/ n > 0 /\ UNCHANGED <<pc, at, todo>>
     \/ n = 0 /\ a < P - 1 /\ at' = a + 1 /\ UNCHANGED <<pc, todo>>
     \/ /\ n = 0 /\ a = P - 1 /\ at' = 1
        /\ pc' = [pc EXCEPT ![0] = "reflect"]
        /\ todo' = [todo EXCEPT ![0] = Reflection(table'[0])]

(***************************************************************************)
(* Gathering an item: the count of rank at, or the next of its entries,    *)
(* which is the next of the table.  n entries are still to come.           *)
(***************************************************************************)
LEMMA Gathered ==
  ASSUME Inv, GatherRecv, NEW a \in Nat, a = at, NEW fd, fd = peer_fds_[at],
         NEW k \in Nat, k = entered[0], NEW c \in Nat, c = Taken(at)
  PROVE  /\ a \in Peer /\ fd \in Peer /\ k > 0 /\ entered[fd] = k /\ pc[0] = "gather"
         /\ Sends(fd, k, c) /\ up[fd] # <<>> /\ up'[fd] = Tail(up[fd])
         /\ table'[0] \in Seq(Item) /\ Segment(table'[0], TabItems, 0)
         /\ \E n \in Nat : Turn(a, k, c, n)
<1> USE Processes
<1>1. /\ TypeOK /\ Peers /\ Filed /\ RootControl /\ RootGather /\ RootRuns
  BY DEF Inv, Peers
<1> DEFINE x == Head(up[fd])
           m == IF due[0] = -1 THEN x.n ELSE due[0] - 1
           tab == IF due[0] = -1 THEN table[0] ELSE Append(table[0], x)
<1>2. /\ pc[0] = "gather" /\ fd # 0 /\ up[fd] # <<>>
      /\ up' = [up EXCEPT ![fd] = Tail(up[fd])]
      /\ table' = [table EXCEPT ![0] = tab]
      /\ due' = [due EXCEPT ![0] = IF m = 0 THEN -1 ELSE m]
      /\ \/ m > 0 /\ UNCHANGED <<pc, at, todo>>
         \/ m = 0 /\ a < P - 1 /\ at' = a + 1 /\ UNCHANGED <<pc, todo>>
         \/ /\ m = 0 /\ a = P - 1 /\ at' = 1
            /\ pc' = [pc EXCEPT ![0] = "reflect"]
            /\ todo' = [todo EXCEPT ![0] = Reflection(tab)]
  BY DEF GatherRecv, last_rank
<1>3. /\ k > 0 /\ a \in Peer /\ UpLen(k) \in Nat /\ c < UpLen(k)
      /\ c = IF due[0] = -1 THEN 0 ELSE UpLen(k) - due[0]
      /\ due[0] # -1 => k = 1 /\ due[0] \in 1 .. P - 1
  BY <1>1, <1>2, TakenNow
<1>4. fd \in Peer /\ rank_of[fd] = a
  BY <1>1, <1>2, <1>3 DEF TypeOK, Filed
<1>5. entered[fd] = k /\ Sends(fd, k, c)
  <2>1. UpStream(a)
    BY <1>1, <1>2, <1>3 DEF RootRuns
  <2> QED BY <1>2, <1>3, <2>1 DEF UpStream
<1>u. PICK u \in Seq(Item) : u = up[fd] /\ u # <<>>
  BY <1>1, <1>2, <1>4, Streams
<1>6. x \in Item /\ x = UpItems(a, k)[c + 1]
  <2>1. PICK items : items = UpItems(a, k)
    OBVIOUS
  <2>2. Segment(u, items, c)
    BY <1>4, <1>5, <1>u, <2>1 DEF Sends
  <2>3. Head(u) \in Item /\ Head(u) = items[c + 1]
    BY <1>u, <2>2, SegmentTail
  <2> QED BY <1>u, <2>1, <2>3
<1>t. PICK t \in Seq(Item) : t = table[0]
  BY <1>1, Streams
<1>q. PICK q \in Nat : q = a * (P - 1)
  <2>1. a * (P - 1) \in Nat
    BY <1>3
  <2> QED BY <2>1
<1>7. /\ Segment(t, TabItems, 0)
      /\ \/ due[0] = -1 /\ Len(t) = IF k = 1 THEN q ELSE 0
         \/ /\ k = 1 /\ due[0] \in 1 .. P - 1
            /\ Len(t) = q + (P - 1) - due[0]
  BY <1>1, <1>2, <1>t, <1>q DEF RootGather
<1>8. /\ m \in Nat /\ c + 1 + m = UpLen(k) /\ (m > 0 => k = 1 /\ m <= P - 1)
      /\ tab \in Seq(Item) /\ Segment(tab, TabItems, 0)
      /\ Len(tab) = IF k = 1 THEN q + (P - 1) - m ELSE 0
  <2>k. k \in Nat \ {0}
    BY <1>3
  <2>1. CASE due[0] = -1
    <3>1. c = 0 /\ c + 1 = 1 /\ m = x.n /\ tab = t
      BY <1>3, <1>t, <2>1
    <3>2. x.n = UpLen(k) - 1
      <4>1. UpItems(a, k)[1].n = UpLen(k) - 1
        BY <2>k, UpItem
      <4>2. x = UpItems(a, k)[1]
        BY <1>6, <3>1
      <4> HIDE DEF x
      <4> QED BY <4>1, <4>2
    <3>3. (k = 1 => UpLen(k) = P) /\ (k > 1 => UpLen(k) = 1)
      BY Lengths
    <3>4. m \in Nat /\ c + 1 + m = UpLen(k) /\ (m > 0 => k = 1 /\ m <= P - 1)
      <4>1. m = UpLen(k) - 1
        BY <3>1, <3>2
      <4> HIDE DEF m
      <4>2. PICK v \in Nat : v = UpLen(k) /\ v >= 1
        BY <1>3, Lengths
      <4>3. m = v - 1 /\ c = 0
        BY <3>1, <4>1, <4>2
      <4>4. m \in Nat /\ c + 1 + m = v /\ (m > 0 => v > 1)
        BY <4>2, <4>3
      <4>5. v > 1 => k = 1 /\ v = P
        BY <1>3, <3>3, <4>2
      <4>6. v > 1 => m <= P - 1
        BY <4>3, <4>5
      <4> QED BY <4>2, <4>4, <4>5, <4>6
    <3>5. Len(t) = IF k = 1 THEN q ELSE 0
      BY <1>7, <2>1
    <3>6. k = 1 => q + (P - 1) - m = q
      BY <1>q, <3>1, <3>2, <3>3
    <3> QED BY <1>7, <3>1, <3>4, <3>5, <3>6
  <2>2. CASE due[0] # -1
    <3>1. PICK d \in 1 .. P - 1 : d = due[0]
      BY <1>3, <2>2
    <3>2. k = 1 /\ UpLen(k) = P /\ c = P - d /\ m = d - 1 /\ P - d \in 1 .. P - 1
      <4>1. k = 1 /\ c = UpLen(k) - d /\ m = d - 1
        BY <1>3, <2>2, <3>1
      <4>2. UpLen(k) = P
        BY <4>1, Lengths
      <4>3. P - d \in 1 .. P - 1
        OBVIOUS
      <4> QED BY <4>1, <4>2, <4>3
    <3>3. m \in Nat /\ c + 1 + m = UpLen(k) /\ m <= P - 1
      BY <3>2
    <3>4. Len(t) = q + (P - 1) - d
      BY <1>7, <2>2, <3>1
    <3>5. x = TabItems[q + (P - d)]
      <4>1. x = entry(a, dest(a, P - d), 1)
        <5> HIDE DEF x, m, tab
        <5>1. P - d \in Nat /\ P - d > 0
          BY <3>2
        <5>2. UpItems(a, k)[(P - d) + 1] = entry(a, dest(a, P - d), k)
          <6>1. \A i \in Nat : i > 0 => UpItems(a, k)[i + 1] = entry(a, dest(a, i), k)
            BY <2>k, UpItem, Zenon
          <6> QED BY <5>1, <6>1
        <5> QED BY <1>6, <3>2, <5>2
      <4>2. TabItems[a * (P - 1) + (P - d)] = entry(a, dest(a, P - d), 1)
        BY <1>3, <3>2, TabPosition
      <4> QED BY <1>q, <4>1, <4>2
    <3>6. 0 + Len(t) + 1 = q + (P - d)
      <4> HIDE DEF x, m, tab
      <4>1. PICK l \in Nat : l = Len(t)
        BY Elements
      <4>2. l = q + (P - 1) - d /\ P \in Nat /\ d \in Nat
        BY <3>4, <4>1
      <4> QED BY <4>1, <4>2
    <3>7. PICK y \in Item : y = x
      BY <1>6
    <3>8. /\ Append(t, y) \in Seq(Item) /\ Len(Append(t, y)) = Len(t) + 1
          /\ Segment(Append(t, y), TabItems, 0)
      BY <1>7, <3>5, <3>6, <3>7, SegmentAppend
    <3>9. tab = Append(t, y)
      BY <1>t, <2>2, <3>7
    <3>10. Len(tab) = q + (P - 1) - m
      <4>1. Len(tab) = q + (P - 1) - d + 1 /\ m = d - 1
        BY <3>2, <3>4, <3>8, <3>9
      <4> HIDE DEF x, m, tab
      <4>2. P \in Nat /\ d \in Nat
        OBVIOUS
      <4>3. PICK l : l = Len(tab)
        OBVIOUS
      <4>4. PICK n : n = m
        OBVIOUS
      <4>5. l = q + (P - 1) - d + 1 /\ n = d - 1
        BY <4>1, <4>3, <4>4
      <4>6. l = q + (P - 1) - n
        BY <4>2, <4>5
      <4> QED BY <4>3, <4>4, <4>6
    <3> QED BY <3>2, <3>3, <3>8, <3>9, <3>10
  <2> QED BY <2>1, <2>2
<1> HIDE DEF x, m, tab
<1>9. /\ table'[0] = tab /\ due'[0] = (IF m = 0 THEN -1 ELSE m) /\ up'[fd] = Tail(up[fd])
  BY <1>1, <1>2, <1>4 DEF TypeOK
<1>10. Len(table'[0]) = IF k = 1 THEN a * (P - 1) + (P - 1) - m ELSE 0
  BY <1>8, <1>9, <1>q
<1>11. Turn(a, k, c, m)
  BY <1>2, <1>8, <1>9, <1>10 DEF Turn
<1> QED BY <1>2, <1>3, <1>4, <1>5, <1>8, <1>9, <1>11

(***************************************************************************)
(* The reflection of a table that is complete.                             *)
(***************************************************************************)
LEMMA ReflectionItems ==
  ASSUME NEW k \in Nat \ {0}, NEW t \in Seq(Item), Segment(t, TabItems, 0),
         Len(t) = TabLen(k), NEW s, s = Reflection(t)
  PROVE  s \in Seq(Item) /\ Len(s) = DownLen(k) /\ Segment(s, DownItems(k), 0)
<1>m. PICK m \in Nat : m = Len(t) /\ m = TabLen(k)
  BY Lengths
<1>1. u32(m) \in Item /\ s = <<u32(m)>> \o t
  BY <1>m, ItemParts DEF Reflection
<1>2. /\ <<u32(m)>> \o t \in Seq(Item) /\ Len(<<u32(m)>> \o t) = Len(t) + 1
      /\ (<<u32(m)>> \o t)[1] = u32(m)
      /\ \A i \in 1 .. Len(t) : (<<u32(m)>> \o t)[i + 1] = t[i]
  BY <1>1, Counted
<1>3. /\ s \in Seq(Item) /\ Len(s) = m + 1 /\ s[1] = u32(m)
      /\ \A i \in 1 .. m : s[i + 1] = t[i]
  BY <1>1, <1>2, <1>m
<1>4. DownLen(k) = m + 1
  BY <1>m, Lengths
<1>5. ASSUME NEW i \in 1 .. m + 1 PROVE s[i] = DownItems(k)[0 + i]
  <2>1. 0 + i = i
    OBVIOUS
  <2>2. CASE i = 1
    BY <1>3, <1>m, <2>1, <2>2, DownItem
  <2>3. CASE i # 1
    <3>1. PICK j \in 1 .. m : i = j + 1
      <4>1. i - 1 \in 1 .. m /\ i = (i - 1) + 1
        BY <2>3
      <4> QED BY <4>1
    <3>2. DownItems(k)[j + 1] = TabItems[j]
      BY DownItem
    <3>3. t[j] = TabItems[0 + j] /\ 0 + j = j
      BY <1>m DEF Segment
    <3> QED BY <1>3, <2>1, <3>1, <3>2, <3>3
  <2> QED BY <2>2, <2>3
<1> QED BY <1>3, <1>4, <1>5 DEF Segment

(***************************************************************************)
(* The root takes an item from the rank whose turn it is, and turns to the *)
(* next rank, or to reflecting, with the last one.                         *)
(***************************************************************************)
LEMMA GatherRecvStep == ASSUME Inv, GatherRecv PROVE Inv'
<1> USE Processes
<1>1. /\ TypeOK /\ Peers /\ Sync /\ Filed /\ Connected /\ Distinct
      /\ RootControl /\ RootGather /\ RootReflect /\ RootRuns
  BY DEF Inv, Peers
<1>k. PICK k \in Nat : k = entered[0]
  BY <1>1, Streams
<1>2. pc[0] = "gather" /\ at \in Nat
  BY <1>1 DEF GatherRecv, TypeOK
<1>c. PICK c \in Nat : c = Taken(at)
  BY <1>1, <1>2, <1>k, TakenNow
<1>a. PICK a \in Nat : a = at
  BY <1>2
<1>f. PICK fd : fd = peer_fds_[at]
  OBVIOUS
<1>3. /\ a \in Peer /\ fd \in Peer /\ k > 0 /\ entered[fd] = k
      /\ Sends(fd, k, c) /\ up[fd] # <<>> /\ up'[fd] = Tail(up[fd])
      /\ table'[0] \in Seq(Item) /\ Segment(table'[0], TabItems, 0)
  BY <1>k, <1>c, <1>a, <1>f, Gathered
<1>t. PICK n \in Nat : Turn(a, k, c, n)
  BY <1>k, <1>c, <1>a, <1>f, Gathered
<1>n. /\ c + 1 + n = UpLen(k) /\ (n > 0 => k = 1 /\ n <= P - 1)
      /\ Len(table'[0]) = IF k = 1 THEN a * (P - 1) + (P - 1) - n ELSE 0
      /\ due'[0] = IF n = 0 THEN -1 ELSE n
      /\ \/ n > 0 /\ UNCHANGED <<pc, at, todo>>
         \/ n = 0 /\ a < P - 1 /\ at' = a + 1 /\ UNCHANGED <<pc, todo>>
         \/ /\ n = 0 /\ a = P - 1 /\ at' = 1
            /\ pc' = [pc EXCEPT ![0] = "reflect"]
            /\ todo' = [todo EXCEPT ![0] = Reflection(table'[0])]
  BY <1>t DEF Turn
<1>4. /\ UNCHANGED <<rank_of, backlog, accepted, peer_fds_, down, entered, left>>
      /\ \A q \in Proc : q # fd => up'[q] = up[q]
      /\ \A q \in Peer : table'[q] = table[q] /\ due'[q] = due[q]
      /\ up' = [up EXCEPT ![fd] = Tail(up[fd])] /\ due' = [due EXCEPT ![0] = due'[0]]
      /\ table' = [table EXCEPT ![0] = table'[0]]
  <2>1. /\ UNCHANGED <<rank_of, backlog, accepted, peer_fds_, down, entered, left>>
        /\ up' = [up EXCEPT ![fd] = Tail(up[fd])]
    BY <1>f DEF GatherRecv, setup
  <2>2. /\ \E y : table' = [table EXCEPT ![0] = y]
        /\ \E z : due' = [due EXCEPT ![0] = z]
    BY DEF GatherRecv
  <2> QED BY <1>1, <1>3, <2>1, <2>2 DEF TypeOK
<1>5. \A q \in Peer : pc'[q] = pc[q] /\ todo'[q] = todo[q]
  BY <1>1, <1>n DEF TypeOK
<1>6. /\ pc' \in [Proc -> {"start", "accept", "read_rank", "announce", "idle", "gather",
                           "reflect", "send", "recv", "failed"}]
      /\ pc'[0] \in {"gather", "reflect"}
  BY <1>1, <1>2, <1>n DEF TypeOK
<1>7. ASSUME pc'[0] = "reflect"
      PROVE  /\ n = 0 /\ a = P - 1 /\ at' = 1
             /\ Len(table'[0]) = TabLen(k)
             /\ todo'[0] \in Seq(Item) /\ Len(todo'[0]) = DownLen(k)
             /\ Segment(todo'[0], DownItems(k), 0)
  <2>1. n = 0 /\ a = P - 1 /\ at' = 1 /\ todo'[0] = Reflection(table'[0])
    BY <1>1, <1>2, <1>7, <1>n DEF TypeOK
  <2>2. Len(table'[0]) = TabLen(k)
    <3>1. Len(table'[0]) = IF k = 1 THEN (P - 1) * (P - 1) + (P - 1) - 0 ELSE 0
      BY <1>n, <2>1
    <3>2. (P - 1) * (P - 1) + (P - 1) - 0 = P * (P - 1)
      <4>1. PICK w \in Nat : w = P - 1
        OBVIOUS
      <4>2. w * w + w - 0 = (w + 1) * w
        OBVIOUS
      <4>3. P = w + 1
        BY <4>1
      <4> QED BY <4>1, <4>2, <4>3
    <3> QED BY <3>1, <3>2 DEF TabLen
  <2>3. PICK t \in Seq(Item) : t = table'[0]
    BY <1>3
  <2>4. PICK s : s = Reflection(t)
    OBVIOUS
  <2>5. k \in Nat \ {0} /\ Segment(t, TabItems, 0) /\ Len(t) = TabLen(k)
    BY <1>3, <2>2, <2>3
  <2>6. s \in Seq(Item) /\ Len(s) = DownLen(k) /\ Segment(s, DownItems(k), 0)
    BY <2>4, <2>5, ReflectionItems
  <2>7. todo'[0] = s
    BY <2>1, <2>3, <2>4
  <2> QED BY <2>1, <2>2, <2>6, <2>7
<1>8. TypeOK'
  <2>1. up' \in [Proc -> Seq(Item)]
    <3>1. up[fd] \in Seq(Item)
      BY <1>1, <1>3, Streams
    <3>2. Tail(up[fd]) \in Seq(Item)
      BY <1>3, <3>1, OneLess
    <3> QED BY <1>1, <1>3, <1>4, <3>2 DEF TypeOK
  <2>2. table' \in [Proc -> Seq(Item)]
    BY <1>1, <1>3, <1>4 DEF TypeOK
  <2>3. due' \in [Proc -> Int]
    <3>1. due'[0] \in Int
      BY <1>n
    <3> QED BY <1>1, <1>4, <3>1 DEF TypeOK
  <2>4. todo' \in [Proc -> Seq(Item)]
    <3>1. CASE pc'[0] = "reflect"
      <4>1. todo' = [todo EXCEPT ![0] = todo'[0]]
        BY <1>1, <1>n DEF TypeOK
      <4> QED BY <1>1, <1>7, <3>1, <4>1 DEF TypeOK
    <3>2. CASE pc'[0] # "reflect"
      <4>1. todo' = todo
        BY <1>1, <1>n, <3>2 DEF TypeOK
      <4> QED BY <1>1, <4>1 DEF TypeOK
    <3> QED BY <3>1, <3>2
  <2>5. at' \in Nat
    BY <1>2, <1>a, <1>n
  <2> QED BY <1>1, <1>4, <1>6, <2>1, <2>2, <2>3, <2>4, <2>5 DEF TypeOK
<1>9. /\ rank_of[fd] = a /\ peer_fds_[a] = fd /\ fd # 0
      /\ pc[fd] \notin {"start", "announce"}
  BY <1>1, <1>3, <1>a, <1>f DEF Filed
<1>10. ASSUME NEW q \in Peer PROVE PeerControl(q)' /\ PeerDown(q)'
  <2>1. PeerControl(q) /\ PeerDown(q) /\ Got(q)' = Got(q)
    BY <1>1, <1>4 DEF Peers, Got
  <2>2. CASE q # fd
    BY <1>4, <1>5, <2>1, <2>2, PeerFrame
  <2>3. CASE q = fd
    <3>1. PeerControl(q)'
      BY <1>4, <1>5, <1>9, <2>1, <2>3 DEF PeerControl
    <3>2. PeerDown(q)'
      BY <1>4, <2>1 DEF PeerDown
    <3> QED BY <3>1, <3>2
  <2> QED BY <2>2, <2>3
<1>11. Sync'
  <2>1. Complete' = Complete /\ \A q \in Peer : Got(q)' = Got(q)
    BY <1>4 DEF Complete, Got
  <2> QED BY <1>1, <1>4, <2>1 DEF Sync
<1>12. Filed' /\ Connected' /\ Distinct'
  BY <1>1, <1>4, <1>5, FiledFrame, ConnectedFrame
<1>13. RootControl'
  <2>1. at' \in Peer
    <3>1. a \in Nat /\ 1 <= a /\ a <= P - 1
      BY <1>3
    <3>2. at' = a \/ (at' = a + 1 /\ a < P - 1) \/ at' = 1
      BY <1>a, <1>n
    <3> QED BY <3>1, <3>2 DEF Peer
  <2>2. entered'[0] = left'[0] + 1
    BY <1>1, <1>2, <1>4 DEF RootControl
  <2> QED BY <1>6, <2>1, <2>2 DEF RootControl
<1>14. RootGather'
  <2> SUFFICES ASSUME pc'[0] = "gather" PROVE RootGather'
    BY <1>6 DEF RootGather
  <2>1. \A r \in 1 .. a - 1 : peer_fds_[r] # 0
    BY <1>1, <1>2, <1>a DEF RootGather
  <2>2. pc'[0] # "reflect" /\ peer_fds_' = peer_fds_ /\ entered'[0] = k
    BY <1>4, <1>k
  <2>3. CASE n > 0
    <3>1. at' = a /\ due'[0] = n /\ k = 1 /\ n \in 1 .. P - 1
      BY <1>a, <1>n, <2>3
    <3>2. Len(table'[0]) = a * (P - 1) + (P - 1) - n
      BY <1>n, <3>1
    <3> QED BY <1>3, <1>9, <2>1, <2>2, <3>1, <3>2 DEF RootGather
  <2>4. CASE n = 0
    <3>1. at' = a + 1 /\ due'[0] = -1
      BY <1>1, <1>n, <2>2, <2>4 DEF TypeOK
    <3>2. Len(table'[0]) = IF k = 1 THEN (a + 1) * (P - 1) ELSE 0
      <4>1. PICK w \in Nat : w = P - 1
        OBVIOUS
      <4>2. a * w + w - 0 = (a + 1) * w
        OBVIOUS
      <4> QED BY <1>n, <2>4, <4>1, <4>2
    <3>3. \A r \in 1 .. (a + 1) - 1 : r \in 1 .. a - 1 \/ r = a
      OBVIOUS
    <3> QED BY <1>3, <1>9, <2>1, <2>2, <3>1, <3>2, <3>3 DEF RootGather
  <2> QED BY <2>3, <2>4
<1>15. RootReflect'
  <2> SUFFICES ASSUME pc'[0] = "reflect" PROVE RootReflect'
    BY DEF RootReflect
  <2>1. \A r \in 1 .. a - 1 : peer_fds_[r] # 0
    BY <1>1, <1>2, <1>a DEF RootGather
  <2>2. /\ a = P - 1 /\ Len(table'[0]) = TabLen(k)
        /\ todo'[0] \in Seq(Item) /\ Len(todo'[0]) = DownLen(k)
        /\ Segment(todo'[0], DownItems(k), 0)
    BY <1>7
  <2>3. Complete'
    <3>1. \A r \in Peer : r \in 1 .. a - 1 \/ r = a
      BY <2>2
    <3> QED BY <1>4, <1>9, <2>1, <3>1 DEF Complete
  <2>4. DownLen(k) \in Nat /\ DownLen(k) >= 1 /\ DownLen(k) - DownLen(k) = 0
    <3>1. TabLen(k) \in Nat /\ DownLen(k) = TabLen(k) + 1
      BY <1>3, Lengths
    <3> QED BY <3>1
  <2>5. entered'[0] = k
    BY <1>4, <1>k
  <2> QED BY <1>3, <2>2, <2>3, <2>4, <2>5 DEF RootReflect
<1>16. RootRuns'
  <2>1. ASSUME NEW q \in Peer, Unread(q)' PROVE Announced(q)'
    <3>1. Unread(q) /\ Announced(q)
      BY <1>1, <1>2, <1>4, <1>6, <2>1 DEF Unread, RootRuns
    <3>2. q # fd
      BY <1>3, <1>9, <3>1 DEF Announced
    <3> QED BY <1>4, <1>5, <3>1, <3>2, AnnouncedFrame
  <2>2. ASSUME NEW r \in Peer, peer_fds_'[r] # 0 PROVE UpStream(r)'
    <3>1. UpStream(r)
      BY <1>1, <1>2, <1>4, <2>2 DEF RootRuns
    <3>2. PICK p \in Peer : p = peer_fds_[r]
      BY <1>1, <1>4, <2>2 DEF TypeOK
    <3>3. UpLen(k) \in Nat /\ UpLen(k) >= 1 /\ entered'[0] = k /\ entered' = entered
      BY <1>3, <1>4, <1>k, Lengths
    <3>4. CASE r = a
      <4>1. Taken(r)' = c + 1
        <5>1. n = 0 => UpLen(k) = c + 1
          BY <1>n
        <5>2. n # 0 => UpLen(k) - n = c + 1
          BY <1>n, <3>3
        <5>3. CASE pc'[0] = "reflect"
          BY <1>7, <3>3, <5>1, <5>3 DEF Taken
        <5>4. CASE pc'[0] = "gather" /\ n > 0
          <6>1. at' = a /\ due'[0] = n /\ n # -1
            BY <1>a, <1>n, <5>4
          <6> QED BY <3>3, <3>4, <5>2, <5>4, <6>1 DEF Taken
        <5>5. CASE pc'[0] = "gather" /\ n = 0
          <6>1. at' = a + 1 /\ r < a + 1
            BY <1>1, <1>n, <3>4, <5>5 DEF TypeOK
          <6> QED BY <3>3, <5>1, <5>5, <6>1 DEF Taken
        <5> QED BY <1>6, <5>3, <5>4, <5>5
      <4>2. p = fd
        BY <1>9, <3>2, <3>4
      <4>3. Sends(fd, k, c + 1)'
        <5>u. PICK u \in Seq(Item) : u = up[fd] /\ u # <<>>
          BY <1>1, <1>3, Streams
        <5>i. PICK items : items = UpItems(rank_of[fd], k)
          OBVIOUS
        <5>l. PICK l \in Nat : l = Len(u)
          BY Elements
        <5>1. /\ c + l + Len(todo[fd]) = UpLen(k) /\ Segment(u, items, c)
              /\ Segment(todo[fd], items, c + l)
          BY <1>3, <5>u, <5>i, <5>l DEF Sends
        <5>2. Len(Tail(u)) = l - 1 /\ Segment(Tail(u), items, c + 1)
          BY <5>u, <5>l, <5>1, SegmentTail
        <5>3. c + 1 + (l - 1) = c + l
          OBVIOUS
        <5>4. up'[fd] = Tail(u) /\ todo'[fd] = todo[fd] /\ rank_of' = rank_of
          BY <1>3, <1>4, <1>5, <5>u
        <5> QED BY <5>i, <5>1, <5>2, <5>3, <5>4 DEF Sends
      <4> QED BY <1>3, <1>4, <3>2, <3>3, <4>1, <4>2, <4>3 DEF UpStream
    <3>5. CASE r # a
      <4>1. p # fd
        BY <1>1, <1>4, <1>9, <2>2, <3>2, <3>5 DEF Filed
      <4>2. Taken(r)' = Taken(r)
        <5>1. r < a \/ r > a
          BY <3>5
        <5>2. CASE pc'[0] = "reflect"
          <6>1. r < a
            BY <1>7, <5>2, <3>5
          <6> QED BY <1>a, <3>3, <5>2, <6>1, <1>k DEF Taken
        <5>3. CASE pc'[0] = "gather" /\ n > 0
          <6>1. at' = at
            BY <1>n, <5>3
          <6> QED BY <1>2, <1>a, <1>k, <3>3, <5>1, <5>3, <6>1 DEF Taken
        <5>4. CASE pc'[0] = "gather" /\ n = 0
          <6>1. at' = a + 1 /\ due'[0] = -1
            BY <1>1, <1>n, <5>4 DEF TypeOK
          <6>2. r < a => r < a + 1
            OBVIOUS
          <6>3. r > a => ~(r < a + 1) /\ ~(r < a)
            OBVIOUS
          <6> QED BY <1>2, <1>a, <1>k, <3>3, <5>1, <5>4, <6>1, <6>2, <6>3 DEF Taken
        <5> QED BY <1>6, <5>2, <5>3, <5>4
      <4>3. pc'[0] = "gather" \/ Taken(r) = UpLen(k)
        <5>1. ASSUME pc'[0] = "reflect" PROVE Taken(r)' = UpLen(k)
          BY <3>3, <5>1 DEF Taken
        <5> QED BY <1>6, <4>2, <5>1
      <4>4. up'[p] = up[p] /\ todo'[p] = todo[p] /\ rank_of' = rank_of /\ peer_fds_' = peer_fds_
        BY <1>4, <1>5, <4>1
      <4>5. \A i, j : Sends(p, i, j)' = Sends(p, i, j)
        BY <4>4 DEF Sends
      <4> QED BY <1>k, <3>1, <3>2, <3>3, <4>2, <4>3, <4>4, <4>5 DEF UpStream
    <3> QED BY <3>4, <3>5
  <2>3. ASSUME NEW r \in Peer, peer_fds_'[r] # 0 PROVE DownStream(r)'
    <3>1. DownStream(r)
      BY <1>1, <1>2, <1>4, <2>3 DEF RootRuns
    <3>2. PICK p \in Peer : p = peer_fds_[r]
      BY <1>1, <1>4, <2>3 DEF TypeOK
    <3>3. Reflected(r)' = Reflected(r)
      <4>1. pc'[0] = "reflect" => at' <= r
        BY <1>7
      <4> QED BY <1>2, <1>4, <1>6, <4>1 DEF Reflected
    <3>4. Pushed(r)' = Pushed(r)
      <4>1. ASSUME pc'[0] = "reflect" PROVE DownLen(k) - Len(todo'[0]) = 0
        <5>1. Len(todo'[0]) = DownLen(k) /\ DownLen(k) \in Nat
          BY <1>7, <4>1, Lengths
        <5> QED BY <5>1
      <4>2. Pushed(r) = 0
        BY <1>2 DEF Pushed
      <4> QED BY <1>4, <1>6, <1>k, <4>1, <4>2 DEF Pushed
    <3>5. Got(p)' = Got(p)
      BY <1>4 DEF Got
    <3> QED BY <1>4, <3>1, <3>2, <3>3, <3>4, <3>5 DEF DownStream
  <2> QED BY <2>1, <2>2, <2>3 DEF RootRuns
<1> QED BY <1>8, <1>10, <1>11, <1>12, <1>13, <1>14, <1>15, <1>16 DEF Inv

(***************************************************************************)
(* The root, in its k-th exchange, still has to send the l items t to rank *)
(* a, which is process fd; this has received g items and h are on their    *)
(* way in d.                                                               *)
(***************************************************************************)
Awaited(k, a, fd, g, h, d, t, l) ==
  /\ k > 0 /\ k = left[0] + 1 /\ a \in Peer /\ fd \in Peer /\ rank_of[fd] = a
  /\ Complete /\ entered[fd] = k /\ \A q \in Proc : k <= entered[q]
  /\ g \in Nat /\ h \in Nat /\ d \in Seq(Item)
  /\ t \in Seq(Item) /\ t # <<>> /\ l \in 1 .. DownLen(k) /\ DownLen(k) \in Nat
  /\ g + h = DownLen(k) - l /\ Head(t) \in Item
  /\ Segment(Append(d, Head(t)), DownItems(k), g)
  /\ Segment(Tail(t), DownItems(k), DownLen(k) - (l - 1))

(***************************************************************************)
(* While the root reflects, everyone has entered its exchange, and the     *)
(* rank whose turn it is awaits the item the root has next.                *)
(***************************************************************************)
LEMMA Reflecting ==
  ASSUME Inv, pc[0] = "reflect", NEW k \in Nat, k = entered[0],
         NEW a \in Nat, a = at, NEW fd, fd = peer_fds_[at],
         NEW g, g = Got(fd), NEW d, d = down[fd], NEW t, t = todo[0],
         NEW l, l = Len(t), NEW h, h = Len(d)
  PROVE  Awaited(k, a, fd, g, h, d, t, l)
<1> USE Processes
<1>1. /\ TypeOK /\ Peers /\ Filed /\ RootControl /\ RootReflect /\ RootRuns
  BY DEF Inv, Peers
<1>2. k = left[0] + 1 /\ left[0] \in Nat /\ a \in Peer
  BY <1>1, Streams DEF RootControl
<1>3. /\ k > 0 /\ DownLen(k) \in Nat /\ Complete /\ l \in 1 .. DownLen(k)
      /\ Segment(t, DownItems(k), DownLen(k) - l)
  <2>1. k > 0 /\ DownLen(k) \in Nat
    <3>1. k > 0
      BY <1>2
    <3> QED BY <3>1, Lengths
  <2>2. /\ Complete /\ Len(todo[0]) \in 1 .. DownLen(entered[0])
        /\ Segment(todo[0], DownItems(entered[0]), DownLen(entered[0]) - Len(todo[0]))
    BY <1>1 DEF RootReflect
  <2> QED BY <2>1, <2>2
<1>4. fd \in Peer /\ rank_of[fd] = a
  BY <1>1, <1>2, <1>3 DEF TypeOK, Filed, Complete
<1>5. /\ g \in Nat /\ h \in Nat /\ d \in Seq(Item) /\ t \in Seq(Item)
  BY <1>1, <1>4, Streams
<1>6. t # <<>>
  BY <1>3, <1>5, NoElements
<1>7. ASSUME NEW r \in Peer
      PROVE  entered[peer_fds_[r]] = k \/ entered[peer_fds_[r]] = k + 1
  <2>1. UpStream(r)
    BY <1>1, <1>3 DEF RootRuns, Complete
  <2> QED BY <2>1 DEF UpStream
<1>8. ASSUME NEW q \in Proc PROVE k <= entered[q]
  <2>1. CASE q = 0
    BY <2>1
  <2>2. CASE q \in Peer
    <3>1. rank_of[q] \in Peer /\ peer_fds_[rank_of[q]] = q
      BY <1>1, <1>3, <2>2, AllFiled
    <3> QED BY <1>7, <3>1
  <2> QED BY <2>1, <2>2
<1>9. entered[fd] = k /\ g + h = DownLen(k) - l
  <2>1. DownStream(a)
    BY <1>1, <1>2, <1>3 DEF RootRuns, Complete
  <2>2. Reflected(a) = k - 1 /\ Pushed(a) = DownLen(k) - l
    BY <1>2 DEF Reflected, Pushed
  <2>3. entered[fd] # k - 1 /\ (k - 1) + 1 = k
    BY <1>2, <1>7
  <2> QED BY <2>1, <2>2, <2>3 DEF DownStream
<1>10. Segment(d, DownItems(k), g)
  BY <1>1, <1>4, <1>9 DEF Peers, PeerDown
<1>i. PICK items : items = DownItems(k)
  OBVIOUS
<1>11. Segment(t, items, g + h) /\ Segment(d, items, g)
  BY <1>3, <1>9, <1>10, <1>i
<1>12. Moved(d, t, items, g)
  BY <1>5, <1>6, <1>11, SegmentMove
<1>13. Head(t) \in Item /\ Len(Append(d, Head(t))) = h + 1
  <2>1. Head(t) \in Item
    BY <1>5, <1>6
  <2> QED BY <1>5, <2>1, OneMore
<1>14. g + (h + 1) = DownLen(k) - (l - 1)
  <2>1. PICK v \in Nat : v = DownLen(k)
    BY <1>3
  <2>2. l \in Nat /\ g \in Nat /\ h \in Nat /\ g + h = v - l
    BY <1>3, <1>5, <1>9, <2>1
  <2>3. g + (h + 1) = v - (l - 1)
    <3>1. PICK x \in Nat : x = g
      BY <2>2
    <3>2. PICK y \in Nat : y = h
      BY <2>2
    <3>3. PICK z \in Nat : z = l
      BY <2>2
    <3>4. x + y = v - z
      BY <2>2, <3>1, <3>2, <3>3
    <3>5. x + (y + 1) = v - (z - 1)
      BY <3>4
    <3> QED BY <3>1, <3>2, <3>3, <3>5
  <2> QED BY <2>1, <2>3
<1>15. /\ Segment(Append(d, Head(t)), DownItems(k), g)
       /\ Segment(Tail(t), DownItems(k), DownLen(k) - (l - 1))
  BY <1>i, <1>12, <1>13, <1>14 DEF Moved
<1> QED BY <1>2, <1>3, <1>4, <1>5, <1>6, <1>8, <1>9, <1>13, <1>15 DEF Awaited

(***************************************************************************)
(* The root reflects an item to the rank whose turn it is, and turns to    *)
(* the next rank, or returns, with the last one.                           *)
(***************************************************************************)
LEMMA ReflectStep == ASSUME Inv, Reflect PROVE Inv'
<1> USE Processes
<1>1. /\ TypeOK /\ Peers /\ Sync /\ Filed /\ Connected /\ Distinct
      /\ RootControl /\ RootGather /\ RootReflect /\ RootRuns
  BY DEF Inv, Peers
<1>k. PICK k \in Nat : k = entered[0]
  BY <1>1, Streams
<1>2. pc[0] = "reflect" /\ at \in Nat
  BY <1>1 DEF Reflect, TypeOK
<1>a. PICK a \in Nat : a = at
  BY <1>2
<1>f. PICK fd : fd = peer_fds_[at]
  OBVIOUS
<1>g. PICK g : g = Got(fd)
  OBVIOUS
<1>d. PICK d : d = down[fd]
  OBVIOUS
<1>t. PICK t : t = todo[0]
  OBVIOUS
<1>l. PICK l : l = Len(t)
  OBVIOUS
<1>h. PICK h : h = Len(d)
  OBVIOUS
<1>3. /\ k > 0 /\ k = left[0] + 1 /\ a \in Peer /\ fd \in Peer /\ rank_of[fd] = a
      /\ Complete /\ entered[fd] = k /\ \A q \in Proc : k <= entered[q]
      /\ g \in Nat /\ h \in Nat /\ d \in Seq(Item)
      /\ t \in Seq(Item) /\ t # <<>> /\ l \in 1 .. DownLen(k) /\ DownLen(k) \in Nat
      /\ g + h = DownLen(k) - l /\ Head(t) \in Item
      /\ Segment(Append(d, Head(t)), DownItems(k), g)
      /\ Segment(Tail(t), DownItems(k), DownLen(k) - (l - 1))
  <2>1. Awaited(k, a, fd, g, h, d, t, l)
    BY <1>2, <1>k, <1>a, <1>f, <1>g, <1>d, <1>t, <1>l, <1>h, Reflecting
  <2> QED BY <2>1 DEF Awaited
<1>4. /\ UNCHANGED <<rank_of, backlog, accepted, peer_fds_, up, entered, due, table>>
      /\ down' = [down EXCEPT ![fd] = Append(d, Head(t))]
      /\ \/ /\ Tail(t) # <<>>
            /\ todo' = [todo EXCEPT ![0] = Tail(t)] /\ UNCHANGED <<pc, at, left>>
         \/ /\ Tail(t) = <<>> /\ a < P - 1
            /\ todo' = [todo EXCEPT ![0] = Reflection(table[0])]
            /\ at' = a + 1 /\ UNCHANGED <<pc, left>>
         \/ /\ Tail(t) = <<>> /\ a = P - 1
            /\ todo' = [todo EXCEPT ![0] = <<>>]
            /\ pc' = [pc EXCEPT ![0] = "idle"]
            /\ left' = [left EXCEPT ![0] = k] /\ at' = at
  BY <1>k, <1>a, <1>f, <1>d, <1>t DEF Reflect, setup
<1>5. /\ Tail(t) \in Seq(Item) /\ Len(Tail(t)) = l - 1 /\ (l = 1 <=> Tail(t) = <<>>)
      /\ Append(d, Head(t)) \in Seq(Item) /\ Len(Append(d, Head(t))) = h + 1
  <2>1. Tail(t) \in Seq(Item) /\ Len(Tail(t)) = l - 1 /\ (l = 1 <=> Tail(t) = <<>>)
    BY <1>3, <1>l, OneLess
  <2>2. Append(d, Head(t)) \in Seq(Item) /\ Len(Append(d, Head(t))) = h + 1
    BY <1>3, <1>h, OneMore
  <2> QED BY <2>1, <2>2
<1>6. /\ Reflection(table[0]) \in Seq(Item) /\ Len(Reflection(table[0])) = DownLen(k)
      /\ Segment(Reflection(table[0]), DownItems(k), 0)
  <2>1. PICK s \in Seq(Item) : s = table[0]
    BY <1>1, Streams
  <2>2. k \in Nat \ {0} /\ Segment(s, TabItems, 0) /\ Len(s) = TabLen(k)
    BY <1>1, <1>2, <1>3, <1>k, <2>1 DEF RootReflect
  <2>3. PICK y : y = Reflection(s)
    OBVIOUS
  <2>4. y \in Seq(Item) /\ Len(y) = DownLen(k) /\ Segment(y, DownItems(k), 0)
    BY <2>2, <2>3, ReflectionItems
  <2> QED BY <2>1, <2>3, <2>4
<1>7. /\ \A q \in Proc : q # fd => down'[q] = down[q]
      /\ down'[fd] = Append(d, Head(t))
      /\ \A q \in Peer : todo'[q] = todo[q] /\ pc'[q] = pc[q] /\ left'[q] = left[q]
      /\ pc' \in [Proc -> {"start", "accept", "read_rank", "announce", "idle", "gather",
                           "reflect", "send", "recv", "failed"}]
  <2>1. /\ \A q \in Proc : q # fd => down'[q] = down[q]
        /\ down'[fd] = Append(d, Head(t))
    BY <1>1, <1>3, <1>4 DEF TypeOK
  <2>2. /\ \A q \in Peer : todo'[q] = todo[q] /\ pc'[q] = pc[q] /\ left'[q] = left[q]
        /\ pc' \in [Proc -> {"start", "accept", "read_rank", "announce", "idle", "gather",
                             "reflect", "send", "recv", "failed"}]
    <3>1. \E x : todo' = [todo EXCEPT ![0] = x]
      BY <1>4
    <3>2. pc' = pc \/ pc' = [pc EXCEPT ![0] = "idle"]
      BY <1>4
    <3>3. left' = left \/ left' = [left EXCEPT ![0] = k]
      BY <1>4
    <3>4. \A q \in Peer : todo'[q] = todo[q]
      BY <1>1, <3>1 DEF TypeOK
    <3>5. \A q \in Peer : left'[q] = left[q]
      BY <1>1, <3>3 DEF TypeOK
    <3>6. /\ \A q \in Peer : pc'[q] = pc[q]
          /\ pc' \in [Proc -> {"start", "accept", "read_rank", "announce", "idle", "gather",
                               "reflect", "send", "recv", "failed"}]
      BY <1>1, <3>2 DEF TypeOK
    <3> QED BY <3>4, <3>5, <3>6
  <2> QED BY <2>1, <2>2
<1>8. \/ /\ l # 1 /\ todo'[0] = Tail(t) /\ pc'[0] = "reflect" /\ at' = a /\ left'[0] = left[0]
      \/ /\ l = 1 /\ a < P - 1 /\ todo'[0] = Reflection(table[0]) /\ pc'[0] = "reflect"
         /\ at' = a + 1 /\ left'[0] = left[0]
      \/ l = 1 /\ a = P - 1 /\ pc'[0] = "idle" /\ left'[0] = k /\ at' = a
  BY <1>1, <1>2, <1>4, <1>5, <1>a DEF TypeOK
<1>9. TypeOK'
  <2>1. down' \in [Proc -> Seq(Item)]
    BY <1>1, <1>3, <1>4, <1>5 DEF TypeOK
  <2>2. todo' \in [Proc -> Seq(Item)]
    <3>1. <<>> \in Seq(Item)
      OBVIOUS
    <3>2. PICK x \in Seq(Item) : todo' = [todo EXCEPT ![0] = x]
      BY <1>4, <1>5, <1>6, <3>1
    <3> QED BY <1>1, <3>2 DEF TypeOK
  <2>3. left' \in [Proc -> Nat]
    <3>1. left' = left \/ left' = [left EXCEPT ![0] = k]
      BY <1>4
    <3> QED BY <1>1, <3>1 DEF TypeOK
  <2>4. at' \in Nat
    BY <1>8
  <2> QED BY <1>1, <1>4, <1>7, <2>1, <2>2, <2>3, <2>4 DEF TypeOK
<1>10. /\ \A q \in Peer : Got(q)' = Got(q) /\ Got(fd)' = g
       /\ Len(down'[fd]) = h + 1 /\ g + (h + 1) = DownLen(k) - (l - 1)
       /\ g + (h + 1) <= DownLen(k) /\ g + (h + 1) > 0
  <2>1. \A q \in Peer : Got(q)' = Got(q) /\ Got(fd)' = g
    BY <1>3, <1>4, <1>g DEF Got
  <2>2. g + (h + 1) = DownLen(k) - (l - 1) /\ g + (h + 1) <= DownLen(k) /\ g + (h + 1) > 0
    BY <1>3
  <2> QED BY <1>5, <1>7, <2>1, <2>2
<1>11. ASSUME NEW q \in Peer PROVE PeerControl(q)' /\ PeerDown(q)'
  <2>1. PeerControl(q) /\ PeerDown(q) /\ Got(q)' = Got(q)
    BY <1>1, <1>10 DEF Peers
  <2>2. CASE q # fd
    BY <1>4, <1>7, <2>1, <2>2, PeerFrame
  <2>3. CASE q = fd
    <3>1. PeerControl(q)'
      BY <1>4, <1>7, <2>1 DEF PeerControl
    <3>2. entered'[q] = k /\ entered[q] = k /\ Got(q)' = g
      BY <1>3, <1>4, <1>10, <2>3
    <3>3. Segment(down'[q], DownItems(k), g) /\ g + Len(down'[q]) <= DownLen(k)
      BY <1>3, <1>7, <1>10, <2>3
    <3>4. PeerDown(q)'
      BY <1>4, <2>1, <3>2, <3>3 DEF PeerDown
    <3> QED BY <3>1, <3>4
  <2> QED BY <2>2, <2>3
<1>12. Sync'
  <2>1. Complete'
    BY <1>3, <1>4 DEF Complete
  <2>2. ASSUME NEW p \in Proc, NEW q \in Proc PROVE left'[p] <= entered'[q]
    <3>1. left[p] <= entered[q]
      BY <1>1 DEF Sync
    <3>2. left'[p] = left[p] \/ left'[p] = k
      BY <1>7, <1>8
    <3> QED BY <1>3, <1>4, <3>1, <3>2
  <2>3. ASSUME NEW p \in Peer, Got(p)' + Len(down'[p]) > 0
        PROVE  \A q \in Proc : entered'[p] <= entered'[q]
    <3>1. CASE p = fd
      BY <1>3, <1>4, <3>1
    <3>2. CASE p # fd
      BY <1>1, <1>4, <1>7, <1>10, <2>3, <3>2 DEF Sync
    <3> QED BY <3>1, <3>2
  <2> QED BY <2>1, <2>2, <2>3 DEF Sync
<1>13. Filed' /\ Connected' /\ Distinct'
  BY <1>1, <1>4, <1>7, FiledFrame, ConnectedFrame
<1>14. RootControl' /\ RootGather'
  <2>1. at' \in Peer
    <3>1. a + 1 \in Peer \/ a = P - 1
      BY <1>3 DEF Peer
    <3> QED BY <1>3, <1>8, <3>1
  <2>2. RootControl'
    BY <1>3, <1>4, <1>8, <1>k, <2>1 DEF RootControl
  <2>3. RootGather'
    BY <1>8 DEF RootGather
  <2> QED BY <2>2, <2>3
<1>15. RootReflect'
  <2> SUFFICES ASSUME pc'[0] = "reflect" PROVE RootReflect'
    BY DEF RootReflect
  <2>1. /\ Complete' /\ Segment(table'[0], TabItems, 0)
        /\ Len(table'[0]) = TabLen(k) /\ entered'[0] = k
    BY <1>1, <1>2, <1>4, <1>k DEF RootReflect, Complete
  <2>2. CASE l # 1
    <3>1. todo'[0] = Tail(t)
      BY <1>8, <2>2
    <3>2. l - 1 \in 1 .. DownLen(k)
      BY <1>3, <2>2
    <3> QED BY <1>3, <1>5, <2>1, <3>1, <3>2 DEF RootReflect
  <2>3. CASE l = 1
    <3>1. todo'[0] = Reflection(table[0])
      BY <1>8, <2>3
    <3>2. DownLen(k) - DownLen(k) = 0 /\ DownLen(k) \in 1 .. DownLen(k)
      BY <1>3
    <3> QED BY <1>6, <2>1, <3>1, <3>2 DEF RootReflect
  <2> QED BY <2>2, <2>3
<1>16. RootRuns'
  <2>1. ASSUME NEW q \in Peer, Unread(q)' PROVE Announced(q)'
    <3>1. pc'[0] # "read_rank"
      BY <1>8
    <3>2. Unread(q) /\ Announced(q)
      BY <1>1, <1>2, <1>4, <2>1, <3>1 DEF Unread, RootRuns
    <3> QED BY <1>4, <1>7, <3>2, AnnouncedFrame
  <2>2. ASSUME NEW r \in Peer, peer_fds_'[r] # 0 PROVE UpStream(r)'
    <3>1. UpStream(r)
      BY <1>1, <1>2, <1>4, <2>2 DEF RootRuns
    <3>2. PICK p \in Peer : p = peer_fds_[r]
      BY <1>1, <1>4, <2>2 DEF TypeOK
    <3>3. Taken(r)' = Taken(r)
      BY <1>2, <1>4, <1>8 DEF Taken
    <3>4. \A i, j : Sends(p, i, j)' = Sends(p, i, j)
      BY <1>4, <1>7 DEF Sends
    <3> QED BY <1>2, <1>4, <3>1, <3>2, <3>3, <3>4 DEF UpStream
  <2>3. ASSUME NEW r \in Peer, peer_fds_'[r] # 0 PROVE DownStream(r)'
    <3>1. DownStream(r) /\ entered'[0] = k
      BY <1>1, <1>2, <1>4, <1>k, <2>3 DEF RootRuns
    <3>2. PICK p \in Peer : p = peer_fds_[r]
      BY <1>1, <1>4, <2>3 DEF TypeOK
    <3>3. CASE r = a
      <4>1. p = fd /\ entered'[p] = k /\ Got(p)' + Len(down'[p]) = DownLen(k) - (l - 1)
        BY <1>3, <1>4, <1>10, <1>a, <1>f, <3>2, <3>3
      <4>2. CASE l # 1
        <5>1. Reflected(r)' = k - 1 /\ Pushed(r)' = DownLen(k) - (l - 1)
          BY <1>5, <1>8, <3>1, <3>3, <4>2 DEF Reflected, Pushed
        <5>2. (k - 1) + 1 = k
          OBVIOUS
        <5> QED BY <1>4, <3>2, <4>1, <5>1, <5>2 DEF DownStream
      <4>3. CASE l = 1
        <5>1. DownLen(k) - (l - 1) = DownLen(k)
          BY <1>3, <4>3
        <5>2. Reflected(r)' = k
          <6>1. ~(a + 1 <= r)
            BY <3>3
          <6> QED BY <1>8, <3>1, <4>3, <6>1 DEF Reflected
        <5> QED BY <1>4, <3>2, <4>1, <5>1, <5>2 DEF DownStream
      <4> QED BY <4>2, <4>3
    <3>4. CASE r # a
      <4>1. p # fd
        BY <1>1, <1>3, <1>4, <2>3, <3>2, <3>4 DEF Filed
      <4>2. entered'[p] = entered[p] /\ Got(p)' = Got(p) /\ down'[p] = down[p]
        BY <1>4, <1>7, <1>10, <4>1
      <4>3. /\ (a + 1 <= r) <=> (a <= r)
            /\ a = P - 1 => ~(a <= r)
        BY <1>3, <3>4
      <4>4. Reflected(r)' = Reflected(r)
        BY <1>2, <1>8, <1>a, <1>k, <3>1, <4>3 DEF Reflected
      <4>5. Pushed(r)' = Pushed(r)
        <5>1. Pushed(r) = 0
          BY <1>a, <3>4 DEF Pushed
        <5>2. CASE pc'[0] = "reflect" /\ at' = r
          <6>1. todo'[0] = Reflection(table[0])
            BY <1>8, <3>4, <5>2
          <6>2. Pushed(r)' = DownLen(k) - DownLen(k)
            BY <1>6, <3>1, <5>2, <6>1 DEF Pushed
          <6> QED BY <1>3, <5>1, <6>2
        <5>3. CASE ~(pc'[0] = "reflect" /\ at' = r)
          BY <5>1, <5>3 DEF Pushed
        <5> QED BY <5>2, <5>3
      <4> QED BY <1>4, <3>1, <3>2, <4>2, <4>4, <4>5 DEF DownStream
    <3> QED BY <3>3, <3>4
  <2> QED BY <2>1, <2>2, <2>3 DEF RootRuns
<1> QED BY <1>9, <1>11, <1>12, <1>13, <1>14, <1>15, <1>16 DEF Inv

-----------------------------------------------------------------------------
(* The invariant, and what follows from it.                                *)

(***************************************************************************)
(* Every step keeps the invariant.                                         *)
(***************************************************************************)
LEMMA InvNext == Inv /\ [Next]_vars => Inv'
<1> SUFFICES ASSUME Inv, [Next]_vars PROVE Inv'
  OBVIOUS
<1> USE Processes
<1>1. CASE UNCHANGED vars
  BY <1>1, FailStep DEF vars, setup, others
<1>2. CASE Terminating
  BY <1>2, FailStep DEF Terminating, vars, setup, others
<1>3. CASE Root
  BY <1>3, ListenStep, AcceptStep, ReadRankStep, GatherStep, GatherRecvStep, ReflectStep
     DEF Root
<1>4. ASSUME NEW p \in Proc, Fail(p) \/ Crash(p) PROVE Inv'
  <2>1. UNCHANGED others /\ pc' = [pc EXCEPT ![p] = "failed"]
    BY <1>4 DEF Fail, Crash, setup, others
  <2> QED BY <2>1, FailStep
<1>5. ASSUME NEW p \in Peer, Other(p) PROVE Inv'
  <2>1. CASE Refused(p)
    <3>1. TypeOK
      BY DEF Inv
    <3>2. /\ UNCHANGED others
          /\ pc' = [pc EXCEPT ![p] = "failed"] \/ pc' = [pc EXCEPT ![p] = pc[p]]
      BY <2>1 DEF Refused, others
    <3>3. pc' = pc \/ pc' = [pc EXCEPT ![p] = "failed"]
      BY <3>1, <3>2 DEF TypeOK
    <3> QED BY <3>2, <3>3, FailStep
  <2> QED BY <1>5, <2>1, ConnectStep, AnnounceStep, SubmitStep, SendStep, RecvStep DEF Other
<1> QED BY <1>1, <1>2, <1>3, <1>4, <1>5 DEF Next

(***************************************************************************)
(* Every item in a stream of the bootstrap is where the sender's exchange  *)
(* and the receiver's place in it say, in every state of every run, for    *)
(* every number of processes, launch, socket capacity and set of crashes.  *)
(***************************************************************************)
THEOREM BootstrapInvariant == Spec => []Inv
BY InvInit, InvNext, PTL DEF Spec

(***************************************************************************)
(* exchange is a barrier: nobody returns from its k-th one before all have *)
(* begun theirs.                                                           *)
(***************************************************************************)
THEOREM ExchangeIsABarrier == Spec => []BarrierSync
<1>1. Inv => BarrierSync
  BY DEF Inv, Sync, BarrierSync
<1> QED BY <1>1, BootstrapInvariant, PTL

(***************************************************************************)
(* A wrong launch never produces a communicator: an exchange returns only  *)
(* once a connection is filed under every rank, which takes a process of   *)
(* every rank.                                                             *)
(***************************************************************************)
THEOREM WrongLaunchNeverReturns == Spec => []WrongLaunchIsLoud
<1>1. Inv => WrongLaunchIsLoud
  <2> SUFFICES ASSUME Inv, ~WellLaunched, NEW p \in Proc PROVE left[p] = 0
    BY DEF WrongLaunchIsLoud
  <2>1. TypeOK /\ Filed /\ left[p] \in Nat
    BY Streams DEF Inv
  <2>2. ~Complete
    BY <2>1, AllFiled
  <2>3. ~(left[p] > 0)
    BY <2>2 DEF Inv, Sync
  <2> QED BY <2>1, <2>3
<1> QED BY <1>1, BootstrapInvariant, PTL

-----------------------------------------------------------------------------
(* Refinement: what an exchange returns.                                   *)

(***************************************************************************)
(* What rank r is to get in exchange k.                                    *)
(***************************************************************************)
Answer(r, k) == [src \in (IF k = 1 THEN Proc \ {r} ELSE {}) |-> entry(src, r, 1)]

(***************************************************************************)
(* The destinations of a rank are the others, each once.                   *)
(***************************************************************************)
LEMMA Destinations ==
  ASSUME NEW s \in Proc
  PROVE  /\ \A i \in 1 .. P - 1 : dest(s, i) \in Proc /\ dest(s, i) # s
         /\ \A r \in Proc : r # s => \E i \in 1 .. P - 1 : dest(s, i) = r
         /\ \A i, j \in 1 .. P - 1 : dest(s, i) = dest(s, j) => i = j
<1> USE PAssumption
<1>1. \A i \in 1 .. P - 1 : dest(s, i) \in Proc /\ dest(s, i) # s
  BY DEF Proc, dest
<1>2. ASSUME NEW r \in Proc, r # s PROVE \E i \in 1 .. P - 1 : dest(s, i) = r
  <2>1. CASE r < s
    <3>1. r + 1 \in 1 .. P - 1 /\ dest(s, r + 1) = r
      BY <2>1 DEF Proc, dest
    <3> QED BY <3>1
  <2>2. CASE r > s
    <3>1. r \in 1 .. P - 1 /\ dest(s, r) = r
      BY <2>2 DEF Proc, dest
    <3> QED BY <3>1
  <2> QED BY <1>2, <2>1, <2>2 DEF Proc
<1>3. \A i, j \in 1 .. P - 1 : dest(s, i) = dest(s, j) => i = j
  BY DEF Proc, dest
<1> QED BY <1>1, <1>2, <1>3

(***************************************************************************)
(* A complete table holds one entry for rank r from every other rank, so   *)
(* that the map built from it has no choice.                               *)
(***************************************************************************)
LEMMA TableLookup ==
  ASSUME NEW k \in Nat, NEW tab \in Seq(Item), Segment(tab, TabItems, 0),
         Len(tab) = TabLen(k), NEW r \in Proc
  PROVE  addressed_to(r, tab) = Answer(r, k)
<1> USE Processes
<1> DEFINE Hit(i, src) == tab[i].dst = r /\ tab[i].src = src
<1>1. CASE k # 1
  <2>1. Len(tab) = 0
    BY <1>1 DEF TabLen
  <2>2. {tab[i].src : i \in {j \in 1 .. Len(tab) : tab[j].dst = r}} = {}
    BY <2>1
  <2> QED BY <1>1, <2>2 DEF addressed_to, Answer
<1>2. CASE k = 1
  <2>1. Len(tab) = P * (P - 1)
    BY <1>2 DEF TabLen
  <2>2. ASSUME NEW j \in 1 .. Len(tab)
        PROVE  \E s \in Proc, i \in 1 .. P - 1 :
                 /\ j = s * (P - 1) + i /\ tab[j] = entry(s, dest(s, i), 1)
                 /\ tab[j].src = s /\ tab[j].dst = dest(s, i)
    <3>1. PICK s \in Proc, i \in 1 .. P - 1 : j = s * (P - 1) + i
      BY <2>1, TabSource
    <3>2. TabItems[j] = entry(s, dest(s, i), 1)
      BY <3>1, TabPosition
    <3>3. tab[j] = TabItems[j]
      <4>1. 0 + j = j
        BY <2>1
      <4> QED BY <4>1 DEF Segment
    <3>4. PICK d \in Nat : d = dest(s, i)
      BY Destinations DEF Proc
    <3>5. entry(s, d, 1).src = s /\ entry(s, d, 1).dst = d
      <4>1. s \in Nat
        BY DEF Proc
      <4> QED BY <4>1, ItemParts
    <3> QED BY <3>1, <3>2, <3>3, <3>4, <3>5
  <2>3. ASSUME NEW j \in 1 .. Len(tab), NEW src, Hit(j, src)
        PROVE  src \in Proc /\ src # r /\ tab[j] = entry(src, r, 1)
    <3>1. PICK s \in Proc, i \in 1 .. P - 1 :
            /\ tab[j] = entry(s, dest(s, i), 1)
            /\ tab[j].src = s /\ tab[j].dst = dest(s, i)
      BY <2>2
    <3>2. dest(s, i) # s
      BY Destinations
    <3> QED BY <2>3, <3>1, <3>2
  <2>4. ASSUME NEW src \in Proc, src # r
        PROVE  \E i \in 1 .. Len(tab) :
                 Hit(i, src) /\ \A j \in i + 1 .. Len(tab) : ~Hit(j, src)
    <3>1. PICK d \in 1 .. P - 1 : dest(src, d) = r
      BY <2>4, Destinations
    <3>2. PICK c : c = src * (P - 1) + d
      OBVIOUS
    <3>3. c \in 1 .. Len(tab) /\ TabItems[c] = entry(src, r, 1)
      BY <2>1, <3>1, <3>2, TabPosition
    <3>4. Hit(c, src)
      <4>1. 0 + c = c
        BY <2>1, <3>3
      <4>2. tab[c] = entry(src, r, 1)
        BY <3>3, <4>1 DEF Segment
      <4>3. entry(src, r, 1).src = src /\ entry(src, r, 1).dst = r
        BY ItemParts DEF Proc
      <4> QED BY <4>2, <4>3
    <3>5. ASSUME NEW j \in 1 .. Len(tab), Hit(j, src) PROVE j = c
      <4>1. PICK s \in Proc, i \in 1 .. P - 1 :
              /\ j = s * (P - 1) + i /\ tab[j].src = s /\ tab[j].dst = dest(s, i)
        BY <2>2
      <4>2. s = src /\ dest(src, i) = dest(src, d)
        BY <3>1, <3>5, <4>1
      <4>3. i = d
        BY <4>2, Destinations
      <4> QED BY <3>2, <4>1, <4>2, <4>3
    <3>6. ASSUME NEW j \in c + 1 .. Len(tab) PROVE ~Hit(j, src)
      <4>1. j \in 1 .. Len(tab) /\ j # c
        BY <2>1, <3>3
      <4> QED BY <3>5, <4>1
    <3> QED BY <3>3, <3>4, <3>6
  <2>5. {tab[i].src : i \in {j \in 1 .. Len(tab) : tab[j].dst = r}} = Proc \ {r}
    <3>1. ASSUME NEW src \in Proc \ {r}
          PROVE  src \in {tab[i].src : i \in {j \in 1 .. Len(tab) : tab[j].dst = r}}
      BY <2>4
    <3>2. ASSUME NEW src \in {tab[i].src : i \in {j \in 1 .. Len(tab) : tab[j].dst = r}}
          PROVE  src \in Proc \ {r}
      BY <2>3
    <3> QED BY <3>1, <3>2
  <2>6. ASSUME NEW src \in Proc \ {r}
        PROVE  tab[CHOOSE i \in 1 .. Len(tab) : tab[i].dst = r /\ tab[i].src = src /\
                     \A j \in i + 1 .. Len(tab) : ~(tab[j].dst = r /\ tab[j].src = src)]
                 = entry(src, r, 1)
    <3> DEFINE c == CHOOSE i \in 1 .. Len(tab) : tab[i].dst = r /\ tab[i].src = src /\
                      \A j \in i + 1 .. Len(tab) : ~(tab[j].dst = r /\ tab[j].src = src)
    <3>1. \E i \in 1 .. Len(tab) : tab[i].dst = r /\ tab[i].src = src /\
            \A j \in i + 1 .. Len(tab) : ~(tab[j].dst = r /\ tab[j].src = src)
      BY <2>4
    <3>2. c \in 1 .. Len(tab) /\ tab[c].dst = r /\ tab[c].src = src
      BY <3>1
    <3> HIDE DEF c
    <3>3. tab[c] = entry(src, r, 1)
      BY <2>3, <3>2
    <3> QED BY <3>3 DEF c
  <2> QED BY <1>2, <2>5, <2>6 DEF addressed_to, Answer
<1> QED BY <1>1, <1>2

(***************************************************************************)
(* What q submits to exchange k, by destination.                           *)
(***************************************************************************)
Row(q, k) ==
  LET out == outgoing(q, k)
  IN  [dst \in {out[i].dst : i \in 1 .. Len(out)} |-> entry(rank_of[q], dst, k)]

(***************************************************************************)
(* That is an entry for every other rank in the first exchange, and        *)
(* nothing in the others.                                                  *)
(***************************************************************************)
LEMMA RowEntries ==
  ASSUME TypeOK, NEW q \in Proc, rank_of[q] \in Proc, NEW k \in Nat \ {0}
  PROVE  /\ DOMAIN Row(q, k) = IF k = 1 THEN Proc \ {rank_of[q]} ELSE {}
         /\ \A dst \in DOMAIN Row(q, k) : Row(q, k)[dst] = entry(rank_of[q], dst, k)
<1> USE Processes
<1>o. PICK out : out = outgoing(q, k)
  OBVIOUS
<1>r. PICK r \in Proc : r = rank_of[q]
  OBVIOUS
<1>1. Len(out) = UpLen(k) - 1 /\ \A i \in 1 .. UpLen(k) - 1 : out[i] = entry(r, dest(r, i), k)
  BY <1>o, <1>r, OutgoingItems
<1>2. /\ DOMAIN Row(q, k) = {out[i].dst : i \in 1 .. Len(out)}
      /\ \A dst \in DOMAIN Row(q, k) : Row(q, k)[dst] = entry(rank_of[q], dst, k)
  BY <1>o DEF Row
<1>3. {out[i].dst : i \in 1 .. Len(out)} = IF k = 1 THEN Proc \ {r} ELSE {}
  <2>1. CASE k # 1
    <3>1. UpLen(k) - 1 = 0
      BY <2>1 DEF UpLen
    <3> QED BY <1>1, <2>1, <3>1
  <2>2. CASE k = 1
    <3>1. UpLen(k) - 1 = P - 1
      BY <2>2 DEF UpLen
    <3>d. /\ \A i \in 1 .. P - 1 : dest(r, i) \in Proc /\ dest(r, i) # r
          /\ \A d \in Proc : d # r => \E i \in 1 .. P - 1 : dest(r, i) = d
      BY Destinations
    <3>2. ASSUME NEW i \in 1 .. P - 1 PROVE out[i].dst = dest(r, i)
      <4>1. out[i] = entry(r, dest(r, i), k)
        BY <1>1, <3>1
      <4>2. PICK d \in Nat : d = dest(r, i)
        BY <3>d DEF Proc
      <4>3. entry(r, d, k).dst = d
        BY ItemParts DEF Proc
      <4> QED BY <4>1, <4>2, <4>3
    <3>3. \A i \in 1 .. P - 1 : out[i].dst \in Proc \ {r}
      BY <3>2, <3>d
    <3>4. \A d \in Proc \ {r} : \E i \in 1 .. P - 1 : out[i].dst = d
      BY <3>2, <3>d
    <3> QED BY <1>1, <2>2, <3>1, <3>3, <3>4
  <2> QED BY <2>1, <2>2
<1> QED BY <1>2, <1>3, <1>r

(***************************************************************************)
(* A function on 1 .. n is a sequence of length n.                         *)
(***************************************************************************)
LEMMA FunctionSequence ==
  ASSUME NEW n \in Nat, NEW f, NEW s, s = [k \in 1 .. n |-> f[k]]
  PROVE  s \in Seq({f[k] : k \in 1 .. n}) /\ Len(s) = n
<1>1. \A k \in 1 .. n : s[k] \in {f[j] : j \in 1 .. n}
  OBVIOUS
<1> QED BY <1>1

(***************************************************************************)
(* With one more argument it is that sequence with an element appended.    *)
(***************************************************************************)
LEMMA FunctionAppend ==
  ASSUME NEW n \in Nat, NEW f
  PROVE  [k \in 1 .. n + 1 |-> f[k]] = Append([k \in 1 .. n |-> f[k]], f[n + 1])
<1>T. PICK T : T = {f[k] : k \in 1 .. n + 1}
  OBVIOUS
<1>s. PICK s : s = [k \in 1 .. n |-> f[k]]
  OBVIOUS
<1>x. PICK x \in T : x = f[n + 1]
  BY <1>T
<1>t. PICK t : t = Append(s, x)
  OBVIOUS
<1>1. s \in Seq(T) /\ Len(s) = n
  <2>1. \A k \in 1 .. n : s[k] \in T
    BY <1>T, <1>s
  <2> QED BY <1>s, <2>1
<1>2. /\ t \in Seq(T) /\ Len(t) = n + 1
      /\ \A i \in 1 .. n : t[i] = s[i]
      /\ t[n + 1] = x
  BY <1>1, <1>t, OneMore
<1>3. t = [i \in 1 .. n + 1 |-> t[i]]
  BY <1>2
<1>4. ASSUME NEW i \in 1 .. n + 1 PROVE t[i] = f[i]
  <2>1. i \in 1 .. n \/ i = n + 1
    OBVIOUS
  <2> QED BY <1>s, <1>x, <1>2, <2>1
<1> QED BY <1>s, <1>x, <1>t, <1>3, <1>4

(***************************************************************************)
(* The submissions of q so far.                                            *)
(***************************************************************************)
LEMMA Submissions ==
  ASSUME TypeOK, NEW q \in Proc
  PROVE  /\ Len(submissions(q)) = entered[q]
         /\ \A k \in 1 .. entered[q] : submissions(q)[k] = Row(q, k)
         /\ submissions(q) = [k \in 1 .. entered[q] |-> [j \in Nat |-> Row(q, j)][k]]
<1>n. PICK n \in Nat : n = entered[q]
  BY Streams
<1>f. PICK f : f = [j \in Nat |-> Row(q, j)]
  OBVIOUS
<1>1. submissions(q) = [k \in 1 .. n |-> Row(q, k)]
  BY <1>n DEF submissions, Row
<1>2. \A k \in 1 .. n : f[k] = Row(q, k)
  BY <1>f
<1>3. submissions(q) = [k \in 1 .. n |-> f[k]]
  BY <1>1, <1>2
<1>4. Len(submissions(q)) = n
  BY <1>3, FunctionSequence
<1> QED BY <1>n, <1>f, <1>1, <1>3, <1>4

(***************************************************************************)
(* Once every rank has a process of its own and all have entered their     *)
(* k-th exchange, what was submitted to rank r in it is the answer.        *)
(***************************************************************************)
LEMMA AddressedAnswer ==
  ASSUME TypeOK, Filed, Complete, NEW p \in Proc, NEW k \in Nat \ {0},
         \A q \in Proc : k <= entered[q]
  PROVE  Abstract!Addressed(p, k) = Answer(rank_of[p], k)
<1> USE Processes
<1>1. /\ \A q \in Proc : rank_of[q] \in Proc
      /\ \A q \in Peer : rank_of[q] \in Peer /\ peer_fds_[rank_of[q]] = q
  BY AllFiled DEF WellLaunched
<1>2. \A src \in Proc : \E q \in Proc : rank_of[q] = src
  <2>1. rank_of[0] = 0 /\ \A src \in Peer : peer_fds_[src] \in Proc /\ rank_of[peer_fds_[src]] = src
    BY DEF TypeOK, Filed, Complete
  <2> QED BY <2>1
<1>r. PICK r \in Proc : r = rank_of[p]
  BY <1>1
<1> DEFINE S == [x \in Proc |-> submissions(x)]
           to_p == {q \in Proc : rank_of[p] \in DOMAIN S[q][k]}
           value(src) == S[CHOOSE q \in to_p : rank_of[q] = src][k][rank_of[p]]
<1>3. Abstract!Addressed(p, k) = [src \in {rank_of[q] : q \in to_p} |-> value(src)]
  BY DEF Abstract!Addressed, Abstract!Proc, Proc
<1>4. ASSUME NEW q \in Proc
      PROVE  /\ DOMAIN S[q][k] = IF k = 1 THEN Proc \ {rank_of[q]} ELSE {}
             /\ \A dst \in DOMAIN S[q][k] : S[q][k][dst] = entry(rank_of[q], dst, k)
  <2>1. k \in 1 .. entered[q]
    BY Streams
  <2>2. S[q][k] = Row(q, k)
    BY <2>1, Submissions
  <2>3. /\ DOMAIN Row(q, k) = IF k = 1 THEN Proc \ {rank_of[q]} ELSE {}
        /\ \A dst \in DOMAIN Row(q, k) : Row(q, k)[dst] = entry(rank_of[q], dst, k)
    BY <1>1, RowEntries
  <2> QED BY <2>2, <2>3
<1> HIDE DEF S
<1>t. to_p = {q \in Proc : r \in DOMAIN S[q][k]}
  BY <1>r
<1> HIDE DEF to_p, value
<1>5. CASE k # 1
  <2>1. to_p = {}
    BY <1>4, <1>5, <1>t
  <2>2. {rank_of[q] : q \in to_p} = {}
    BY <2>1
  <2> QED BY <1>3, <1>5, <2>2 DEF Answer
<1>6. CASE k = 1
  <2>1. \A q \in Proc : q \in to_p <=> rank_of[q] # r
    BY <1>4, <1>6, <1>t
  <2>2. to_p \subseteq Proc
    BY <1>t
  <2>3. {rank_of[q] : q \in to_p} = Proc \ {r}
    <3>1. ASSUME NEW q \in to_p PROVE rank_of[q] \in Proc \ {r}
      BY <1>1, <2>1, <2>2
    <3>2. ASSUME NEW src \in Proc \ {r} PROVE \E q \in to_p : rank_of[q] = src
      BY <1>2, <2>1
    <3> QED BY <3>1, <3>2
  <2>4. ASSUME NEW src \in Proc \ {r}
        PROVE  value(src) = entry(src, r, 1)
    <3> DEFINE c == CHOOSE q \in to_p : rank_of[q] = src
    <3>1. \E q \in to_p : rank_of[q] = src
      BY <1>2, <2>1
    <3>2. c \in to_p /\ rank_of[c] = src
      BY <3>1
    <3> HIDE DEF c
    <3>3. S[c][k][r] = entry(src, r, k)
      BY <1>4, <1>t, <2>2, <3>2
    <3> QED BY <1>6, <1>r, <3>3 DEF c, value
  <2> QED BY <1>3, <1>6, <1>r, <2>3, <2>4 DEF Answer
<1> QED BY <1>5, <1>6

-----------------------------------------------------------------------------
(* Refinement: the steps.                                                  *)

(***************************************************************************)
(* What is submitted does not depend on the state.                         *)
(***************************************************************************)
LEMMA RowFrame ==
  ASSUME rank_of' = rank_of, NEW q, NEW k
  PROVE  Row(q, k)' = Row(q, k)
<1>1. outgoing(q, k)' = outgoing(q, k)
  BY DEF outgoing
<1> QED BY <1>1 DEF Row

(***************************************************************************)
(* A process that stays in its exchange, or outside, submits nothing.      *)
(***************************************************************************)
LEMMA SubmissionsFrame ==
  ASSUME rank_of' = rank_of, NEW q, entered'[q] = entered[q]
  PROVE  submissions(q)' = submissions(q)
<1>1. \A k : outgoing(q, k)' = outgoing(q, k)
  BY DEF outgoing
<1> QED BY <1>1 DEF submissions

(***************************************************************************)
(* A step between entering and leaving is none of the abstract exchange.   *)
(***************************************************************************)
LEMMA ExchangeStutters ==
  ASSUME UNCHANGED <<rank_of, entered, left, result>>
  PROVE  UNCHANGED Abstract!exchange
<1>1. \A q \in Proc : submissions(q)' = submissions(q)
  BY SubmissionsFrame
<1> QED BY <1>1 DEF Abstract!exchange

(***************************************************************************)
(* A process enters.                                                       *)
(***************************************************************************)
LEMMA ExchangeEnters ==
  ASSUME TypeOK, NEW p \in Proc, left[p] = entered[p],
         entered' = [entered EXCEPT ![p] = entered[p] + 1],
         UNCHANGED <<rank_of, left, result>>
  PROVE  Abstract!EnterSome(p)
<1>n. PICK n \in Nat : n = entered[p]
  BY Streams
<1>f. PICK f : f = [j \in Nat |-> Row(p, j)]
  OBVIOUS
<1>s. PICK s : s = submissions(p)
  OBVIOUS
<1>t. PICK t : t = submissions(p)'
  OBVIOUS
<1>1. entered'[p] = n + 1 /\ \A q \in Proc : q # p => entered'[q] = entered[q]
  BY <1>n DEF TypeOK
<1>2. s = [k \in 1 .. n |-> f[k]] /\ Len(s) = n
  BY <1>n, <1>f, <1>s, Submissions
<1>3. t = [k \in 1 .. n + 1 |-> f[k]]
  <2>1. submissions(p)' = [k \in 1 .. n + 1 |-> Row(p, k)']
    BY <1>1 DEF submissions, Row
  <2>2. \A k \in 1 .. n + 1 : Row(p, k)' = Row(p, k)
    BY RowFrame
  <2>3. \A k \in 1 .. n + 1 : Row(p, k) = f[k]
    BY <1>f
  <2> QED BY <1>t, <2>1, <2>2, <2>3
<1>4. t = Append(s, f[n + 1])
  BY <1>2, <1>3, FunctionAppend
<1>5. Len(t) = n + 1 /\ t[n + 1] = f[n + 1]
  <2>1. n + 1 \in Nat
    OBVIOUS
  <2>2. Len(t) = n + 1
    BY <1>3, <2>1, FunctionSequence
  <2> QED BY <1>3, <2>2
<1>6. \A q \in Proc : q # p => submissions(q)' = submissions(q)
  BY <1>1, SubmissionsFrame
<1>S. PICK S : S = [q \in Proc |-> submissions(q)]
  OBVIOUS
<1>Z. PICK Z : Z = [q \in Proc |-> submissions(q)']
  OBVIOUS
<1>7. /\ S[p] = s /\ Z[p] = t /\ Len(Z[p]) = Len(S[p]) + 1
      /\ Z = [S EXCEPT ![p] = Append(S[p], Z[p][Len(Z[p])])]
  <2>1. S[p] = s /\ Z[p] = t /\ DOMAIN S = Proc /\ DOMAIN Z = Proc
    BY <1>s, <1>t, <1>S, <1>Z
  <2>2. Z[p] = Append(S[p], Z[p][Len(Z[p])])
    BY <1>4, <1>5, <2>1
  <2>3. \A q \in Proc : q # p => Z[q] = S[q]
    BY <1>6, <1>S, <1>Z
  <2>4. Z = [q \in Proc |-> Z[q]] /\ S = [q \in Proc |-> S[q]]
    BY <1>S, <1>Z
  <2>5. Z = [S EXCEPT ![p] = Append(S[p], Z[p][Len(Z[p])])]
    BY <2>1, <2>2, <2>3, <2>4
  <2> QED BY <1>2, <1>5, <2>1, <2>5
<1>8. left[p] = Len(S[p])
  BY <1>2, <1>7, <1>n
<1> QED BY <1>7, <1>8, <1>S, <1>Z DEF Abstract!EnterSome, Abstract!Enter

(***************************************************************************)
(* A process leaves, with the answer.                                      *)
(***************************************************************************)
LEMMA ExchangeLeaves ==
  ASSUME TypeOK, Filed, Complete, NEW p \in Proc, NEW k \in Nat, k = left[p] + 1,
         \A q \in Proc : k <= entered[q],
         left' = [left EXCEPT ![p] = k],
         result' = [result EXCEPT ![p] = Answer(rank_of[p], k)],
         UNCHANGED <<rank_of, entered>>
  PROVE  Abstract!Leave(p)
<1> DEFINE S == [q \in Proc |-> submissions(q)]
<1>1. \A q \in Proc : Len(S[q]) = entered[q]
  BY Submissions
<1>2. \A q \in Proc : left[p] < Len(S[q])
  <2>1. left[p] \in Nat /\ \A q \in Proc : entered[q] \in Nat
    BY Streams
  <2> QED BY <1>1, <2>1
<1>3. k \in Nat \ {0}
  BY Streams
<1>4. Abstract!Addressed(p, left[p] + 1) = Answer(rank_of[p], k)
  BY <1>3, AddressedAnswer
<1>5. S' = S
  BY SubmissionsFrame
<1>6. \A q, s \in Proc : rank_of[q] = rank_of[s] => q = s
  BY AllFiled DEF WellLaunched
<1>7. Abstract!Proc = Proc
  BY DEF Abstract!Proc, Proc
<1> QED BY <1>2, <1>4, <1>5, <1>6, <1>7 DEF Abstract!Leave

(***************************************************************************)
(* Every step of several processes is one of the abstract exchange, or     *)
(* none.                                                                   *)
(***************************************************************************)
LEMMA ExchangeStep ==
  ASSUME P > 1, Inv, [Next]_vars
  PROVE  [\E p \in Abstract!Proc : Abstract!EnterSome(p) \/ Abstract!Leave(p)]_(Abstract!exchange)
<1> USE Processes
<1>1. /\ TypeOK /\ Peers /\ Sync /\ Filed /\ RootControl /\ RootReflect
  BY DEF Inv, Peers
<1>2. Abstract!Proc = Proc
  BY DEF Abstract!Proc, Proc
<1> DEFINE Goal == [\E p \in Abstract!Proc : Abstract!EnterSome(p) \/ Abstract!Leave(p)]_(Abstract!exchange)
<1>3. ASSUME UNCHANGED <<rank_of, entered, left, result>> PROVE Goal
  BY <1>3, ExchangeStutters
<1>4. ASSUME NEW p \in Proc, Abstract!EnterSome(p) \/ Abstract!Leave(p) PROVE Goal
  BY <1>2, <1>4
<1> HIDE DEF Goal
<1>5. ASSUME NEW p \in Peer, Submit(p) PROVE Goal
  <2>1. left[p] = entered[p]
    BY <1>1, <1>5 DEF Submit, Peers, PeerControl
  <2>2. entered' = [entered EXCEPT ![p] = entered[p] + 1] /\ UNCHANGED <<rank_of, left, result>>
    BY <1>5 DEF Submit
  <2> QED BY <1>1, <1>4, <2>1, <2>2, ExchangeEnters
<1>6. ASSUME NEW p \in Peer, Recv(p) PROVE Goal
  <2>e. PICK e \in Nat : e = entered[p]
    BY <1>1, Streams
  <2>g. PICK g \in Nat : g = Got(p)
    BY <1>1, Streams
  <2>1. /\ e = left[p] + 1 /\ down[p] # <<>>
        /\ table'[p] \in Seq(Item) /\ Segment(table'[p], TabItems, 0)
        /\ due'[p] = TabLen(e) - Len(table'[p])
        /\ \/ due'[p] > 0 /\ UNCHANGED <<pc, left, result>>
           \/ /\ due'[p] = 0
              /\ left' = [left EXCEPT ![p] = e]
              /\ result' = [result EXCEPT ![p] = addressed_to(rank_of[p], table'[p])]
    BY <1>6, <2>e, <2>g, Received
  <2>2. UNCHANGED <<rank_of, entered>>
    BY <1>6 DEF Recv
  <2>3. CASE UNCHANGED <<left, result>>
    BY <1>3, <2>2, <2>3
  <2>4. CASE /\ due'[p] = 0
             /\ left' = [left EXCEPT ![p] = e]
             /\ result' = [result EXCEPT ![p] = addressed_to(rank_of[p], table'[p])]
    <3>1. Complete /\ \A q \in Proc : e <= entered[q]
      <4>1. Len(down[p]) \in Nat /\ Len(down[p]) # 0
        BY <1>1, <2>1, Streams, NoElements
      <4>2. Got(p) + Len(down[p]) > 0
        BY <2>g, <4>1
      <4> QED BY <1>1, <2>e, <4>2 DEF Sync
    <3>2. PICK tab \in Seq(Item) : tab = table'[p]
      BY <2>1
    <3>3. Segment(tab, TabItems, 0) /\ Len(tab) = TabLen(e)
      <4>1. PICK m \in Nat : m = Len(tab)
        BY Elements
      <4>2. PICK z \in Nat : z = TabLen(e)
        BY Lengths
      <4>3. z - m = 0
        BY <2>1, <2>4, <3>2, <4>1, <4>2
      <4>4. z = m
        BY <4>3
      <4> QED BY <2>1, <3>2, <4>1, <4>2, <4>4
    <3>4. rank_of[p] \in Proc
      BY <1>1, <3>1, AllFiled
    <3>5. addressed_to(rank_of[p], tab) = Answer(rank_of[p], e)
      BY <3>3, <3>4, TableLookup
    <3>6. Abstract!Leave(p)
      BY <1>1, <2>1, <2>2, <2>4, <3>1, <3>2, <3>5, ExchangeLeaves
    <3> QED BY <1>4, <3>6
  <2> QED BY <2>1, <2>3, <2>4
<1>7. ASSUME Gather PROVE Goal
  <2>1. left[0] = entered[0]
    BY <1>1, <1>7 DEF Gather, RootControl
  <2>2. entered' = [entered EXCEPT ![0] = entered[0] + 1] /\ UNCHANGED <<rank_of, left, result>>
    BY <1>7 DEF Gather
  <2> QED BY <1>1, <1>4, <2>1, <2>2, ExchangeEnters
<1>8. ASSUME Reflect PROVE Goal
  <2>k. PICK k \in Nat : k = entered[0]
    BY <1>1, Streams
  <2>1. pc[0] = "reflect" /\ UNCHANGED <<rank_of, entered>>
    BY <1>8 DEF Reflect
  <2>2. \/ UNCHANGED <<left, result>>
        \/ /\ left' = [left EXCEPT ![0] = k]
           /\ result' = [result EXCEPT ![0] = addressed_to(0, table[0])]
    BY <1>8, <2>k DEF Reflect
  <2>3. CASE UNCHANGED <<left, result>>
    BY <1>3, <2>1, <2>3
  <2>4. CASE /\ left' = [left EXCEPT ![0] = k]
             /\ result' = [result EXCEPT ![0] = addressed_to(0, table[0])]
    <3>1. Complete /\ k = left[0] + 1 /\ \A q \in Proc : k <= entered[q]
      <4>1. PICK a \in Nat : a = at
        BY <1>1 DEF TypeOK
      <4>2. PICK fd : fd = peer_fds_[at]
        OBVIOUS
      <4>3. PICK d : d = down[fd]
        OBVIOUS
      <4>4. PICK t : t = todo[0]
        OBVIOUS
      <4>5. PICK g, h, l : g = Got(fd) /\ h = Len(d) /\ l = Len(t)
        OBVIOUS
      <4>6. Awaited(k, a, fd, g, h, d, t, l)
        BY <2>1, <2>k, <4>1, <4>2, <4>3, <4>4, <4>5, Reflecting
      <4> QED BY <4>6 DEF Awaited
    <3>2. PICK tab \in Seq(Item) : tab = table[0]
      BY <1>1, Streams
    <3>3. Segment(tab, TabItems, 0) /\ Len(tab) = TabLen(k)
      BY <1>1, <2>1, <2>k, <3>2 DEF RootReflect
    <3>4. rank_of[0] = 0
      BY <1>1 DEF TypeOK
    <3>5. addressed_to(0, tab) = Answer(0, k)
      BY <3>3, TableLookup
    <3>6. Abstract!Leave(0)
      BY <1>1, <2>1, <2>4, <3>1, <3>2, <3>4, <3>5, ExchangeLeaves
    <3> QED BY <1>4, <3>6
  <2> QED BY <2>2, <2>3, <2>4
<1>9. ASSUME Listen \/ Accept \/ ReadRank \/ GatherRecv PROVE Goal
  <2>1. UNCHANGED <<rank_of, entered, left, result>>
    BY <1>9 DEF Listen, Accept, ReadRank, GatherRecv
  <2> QED BY <1>3, <2>1
<1>10. ASSUME NEW p \in Proc,
              Connect(p) \/ Refused(p) \/ Announce(p) \/ Send(p) \/ Fail(p) \/ Crash(p)
       PROVE  Goal
  <2>1. UNCHANGED <<rank_of, entered, left, result>>
    BY <1>10 DEF Connect, Refused, Announce, Send, Fail, Crash
  <2> QED BY <1>3, <2>1
<1>11. ASSUME UNCHANGED vars PROVE Goal
  BY <1>3, <1>11 DEF vars
<1>12. Goal
  BY <1>5, <1>6, <1>7, <1>8, <1>9, <1>10, <1>11 DEF Next, Root, Other, Terminating
<1> QED BY <1>12 DEF Goal

(***************************************************************************)
(* The sockets, the table and its reflection implement exchange as its     *)
(* header states it, for every world of more than one process: everyone    *)
(* who returns has what all the others submitted to it in that exchange.   *)
(* (A single process returns in the step in which it enters.)              *)
(***************************************************************************)
THEOREM BootstrapImplementsExchange == P > 1 => (Spec => ImplementsExchange)
<1> SUFFICES ASSUME P > 1 PROVE Spec => ImplementsExchange
  OBVIOUS
<1>1. Init => Abstract!ExchangeInit(rank_of)
  <2> SUFFICES ASSUME Init PROVE Abstract!ExchangeInit(rank_of)
    OBVIOUS
  <2>1. \A q \in Proc : submissions(q) = <<>>
    BY DEF Init, submissions
  <2> QED BY <2>1 DEF Init, Abstract!ExchangeInit, Abstract!Proc, Proc
<1>2. Inv /\ [Next]_vars =>
        [\E p \in Abstract!Proc : Abstract!EnterSome(p) \/ Abstract!Leave(p)]_(Abstract!exchange)
  BY ExchangeStep
<1> QED BY <1>1, <1>2, BootstrapInvariant, PTL DEF Spec, ImplementsExchange, Abstract!ExchangeSpec
=============================================================================
