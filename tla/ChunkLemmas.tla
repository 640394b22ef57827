---------------------------- MODULE ChunkLemmas -----------------------------
(***************************************************************************)
(* Facts about the ranges of compute_chunks, for every total_count and     *)
(* num_chunks.                                                             *)
(***************************************************************************)
EXTENDS ChunkRanges, TLAPS

(***************************************************************************)
(* Division with remainder, as the provers need it.                        *)
(***************************************************************************)
LEMMA DivMod ==
  ASSUME NEW n \in Nat, NEW m \in Nat \ {0}
  PROVE  /\ base(n, m) \in Nat /\ remainder(n, m) \in Nat
         /\ remainder(n, m) < m
         /\ n = m * base(n, m) + remainder(n, m)
BY DEF base, remainder

(***************************************************************************)
(* A chunk ends where the next one starts; chunk num_chunks would start at *)
(* the end of the buffer.                                                  *)
(***************************************************************************)
LEMMA ChunkStep ==
  ASSUME NEW n \in Nat, NEW m \in Nat \ {0}, NEW k \in Nat, k < m
  PROVE  /\ chunk_count(n, m, k) \in Nat
         /\ chunk_offset(n, m, k) \in Nat
         /\ chunk_offset(n, m, k + 1) = chunk_offset(n, m, k) + chunk_count(n, m, k)
         /\ chunk_offset(n, m, 0) = 0
         /\ chunk_offset(n, m, m) = n
<1> DEFINE b == base(n, m)
           r == remainder(n, m)
<1>1. b \in Nat /\ r \in Nat /\ r < m /\ n = m * b + r
  BY DivMod
<1>2. k * b \in Nat /\ (k + 1) * b = k * b + b /\ 0 * b = 0
  BY <1>1
<1> HIDE DEF b, r
<1> QED
  BY <1>1, <1>2 DEF chunk_count, chunk_offset, b, r

(***************************************************************************)
(* Every chunk lies in the buffer, chunk 0 is a longest one, and a chunk   *)
(* ends before any later one starts.                                       *)
(***************************************************************************)
LEMMA ChunkBounds ==
  ASSUME NEW n \in Nat, NEW m \in Nat \ {0}, NEW i \in Nat, NEW j \in Nat,
         i < m, j < m
  PROVE  /\ chunk_offset(n, m, i) + chunk_count(n, m, i) <= n
         /\ chunk_count(n, m, i) <= chunk_count(n, m, 0)
         /\ i < j => chunk_offset(n, m, i) + chunk_count(n, m, i) <= chunk_offset(n, m, j)
<1> DEFINE b == base(n, m)
           r == remainder(n, m)
<1>1. b \in Nat /\ r \in Nat /\ r < m /\ n = m * b + r
  BY DivMod
<1> HIDE DEF b, r
<1>2. \A k \in Nat : i < k => (i + 1) * b <= k * b
  BY <1>1
<1>3. \A k \in Nat : (k + 1) * b = k * b + b /\ k * b \in Nat
  BY <1>1
<1>4. i < j => i * b + b <= j * b
  BY <1>1, <1>2, <1>3
<1>5. i * b + b <= m * b
  BY <1>1, <1>2, <1>3
<1> DEFINE ib == i * b
           jb == j * b
           mb == m * b
<1>6. /\ ib \in Nat /\ jb \in Nat /\ mb \in Nat /\ n = mb + r
      /\ i < j => ib + b <= jb
      /\ ib + b <= mb
  BY <1>1, <1>3, <1>4, <1>5
<1>7. /\ chunk_offset(n, m, i) = ib + (IF i < r THEN i ELSE r)
      /\ chunk_offset(n, m, j) = jb + (IF j < r THEN j ELSE r)
      /\ chunk_count(n, m, i) = b + (IF i < r THEN 1 ELSE 0)
      /\ chunk_count(n, m, 0) = b + (IF 0 < r THEN 1 ELSE 0)
  BY DEF chunk_count, chunk_offset, b, r
<1> HIDE DEF ib, jb, mb
<1> QED
  BY <1>1, <1>6, <1>7
=============================================================================
