--------------------------- MODULE ChunkingProofs ---------------------------
(***************************************************************************)
(* What compute_chunks returns, for every total_count and num_chunks: the  *)
(* chunks tile the buffer and are balanced.  The loop invariant says that  *)
(* the entries appended so far are the closed form of ChunkRanges and that *)
(* the running offset is the closed form of the next one.                  *)
(***************************************************************************)
EXTENDS Chunking, ChunkLemmas

(***************************************************************************)
(* The loop invariant.                                                     *)
(***************************************************************************)
LoopInv ==
  /\ TypeOK
  /\ pc \in {"loop", "returned"} => num_chunks # 0
  /\ i <= num_chunks
  /\ pc \in {"entry", "threw"} => i = 0
  /\ pc = "returned" => i = num_chunks
  /\ Len(chunks) = i
  /\ num_chunks # 0 => offset = chunk_offset(total_count, num_chunks, i)
  /\ LoopComputesClosedForm

(***************************************************************************)
(* The loop invariant holds of compute_chunks for every total_count and    *)
(* num_chunks, in every iteration.                                         *)
(***************************************************************************)
THEOREM LoopInvariant == Spec => []LoopInv
<1>1. Init => LoopInv
  BY ChunkStep, MaxTotalAssumption, MaxChunksAssumption
     DEF Init, LoopInv, TypeOK, LoopComputesClosedForm, ChunkRange
<1>2. LoopInv /\ [Next]_cvars => LoopInv'
  <2> SUFFICES ASSUME LoopInv, [Next]_cvars PROVE LoopInv'
    OBVIOUS
  <2>1. CASE RejectZero
    BY <2>1 DEF RejectZero, LoopInv, TypeOK, LoopComputesClosedForm
  <2>2. CASE EnterLoop
    BY <2>2 DEF EnterLoop, LoopInv, TypeOK, LoopComputesClosedForm
  <2>3. CASE PushChunk
    <3> DEFINE n == chunk_count(total_count, num_chunks, i)
               c == [offset |-> offset, count |-> n]
    <3>1. /\ chunks \in Seq(ChunkRange) /\ Len(chunks) = i
          /\ total_count \in Nat /\ num_chunks \in Nat \ {0} /\ i \in Nat
          /\ i < num_chunks /\ offset \in Nat
          /\ offset = chunk_offset(total_count, num_chunks, i)
      BY <2>3 DEF PushChunk, LoopInv, TypeOK
    <3>2. n \in Nat /\ offset + n = chunk_offset(total_count, num_chunks, i + 1)
      BY <3>1, ChunkStep
    <3>3. c \in ChunkRange
      BY <3>1, <3>2 DEF ChunkRange
    <3>4. /\ chunks' = Append(chunks, c) /\ offset' = offset + n /\ i' = i + 1
          /\ UNCHANGED <<total_count, num_chunks, pc>> /\ pc = "loop"
      BY <2>3 DEF PushChunk
    <3> HIDE DEF n, c
    <3>5. TypeOK'
      BY <3>1, <3>2, <3>3, <3>4 DEF LoopInv, TypeOK
    <3>6. /\ Len(chunks') = i + 1
          /\ \A k \in 1 .. i : chunks'[k] = chunks[k]
          /\ chunks'[i + 1] = c
      BY <3>1, <3>3, <3>4
    <3>7. LoopComputesClosedForm'
      BY <3>1, <3>4, <3>6 DEF LoopInv, LoopComputesClosedForm, c, n
    <3> QED
      BY <3>1, <3>2, <3>4, <3>5, <3>6, <3>7 DEF LoopInv
  <2>4. CASE Return
    BY <2>4 DEF Return, LoopInv, TypeOK, LoopComputesClosedForm
  <2>5. CASE UNCHANGED cvars
    BY <2>5 DEF cvars, LoopInv, TypeOK, LoopComputesClosedForm
  <2> QED
    BY <2>1, <2>2, <2>3, <2>4, <2>5 DEF Next
<1> QED
  BY <1>1, <1>2, PTL DEF Spec

(***************************************************************************)
(* For every buffer and every number of chunks, the ranges compute_chunks  *)
(* returns tile the buffer: no element is lost and none is in two chunks.  *)
(***************************************************************************)
THEOREM TilingTheorem == Spec => []Tiling
<1>1. LoopInv => Tiling
  <2> SUFFICES ASSUME LoopInv, pc = "returned" PROVE
        /\ Len(chunks) = num_chunks
        /\ chunks[1].offset = 0
        /\ \A k \in 1 .. num_chunks - 1 :
             chunks[k + 1].offset = chunks[k].offset + chunks[k].count
        /\ chunks[num_chunks].offset + chunks[num_chunks].count = total_count
    BY DEF Tiling
  <2>1. /\ Len(chunks) = num_chunks /\ num_chunks \in Nat \ {0}
        /\ total_count \in Nat
        /\ \A k \in 1 .. num_chunks :
             /\ chunks[k].offset = chunk_offset(total_count, num_chunks, k - 1)
             /\ chunks[k].count = chunk_count(total_count, num_chunks, k - 1)
    BY DEF LoopInv, TypeOK, LoopComputesClosedForm
  <2>2. \A k \in 1 .. num_chunks :
          chunk_offset(total_count, num_chunks, k) =
            chunk_offset(total_count, num_chunks, k - 1) +
            chunk_count(total_count, num_chunks, k - 1)
    <3> TAKE k \in 1 .. num_chunks
    <3>1. k - 1 \in Nat /\ k - 1 < num_chunks /\ (k - 1) + 1 = k
      BY <2>1
    <3> QED
      BY <2>1, <3>1, ChunkStep
  <2>3. /\ chunk_offset(total_count, num_chunks, 0) = 0
        /\ chunk_offset(total_count, num_chunks, num_chunks) = total_count
    BY <2>1, ChunkStep
  <2> QED
    BY <2>1, <2>2, <2>3
<1> QED
  BY <1>1, LoopInvariant, PTL

(***************************************************************************)
(* For every buffer and every number of chunks, the chunks differ by at    *)
(* most one element, the longer ones come first, and none is longer than   *)
(* the scratch buffer allreduce_ring.hpp asks its callers for.             *)
(***************************************************************************)
THEOREM BalancedTheorem == Spec => []Balanced
<1>1. LoopInv => Balanced
  <2> SUFFICES ASSUME LoopInv, NEW j \in 1 .. Len(chunks), NEW k \in 1 .. Len(chunks)
               PROVE  /\ j <= k => chunks[k].count <= chunks[j].count
                      /\ chunks[j].count <= chunks[k].count + 1
                      /\ chunks[j].count <=
                           (total_count + num_chunks - 1) \div num_chunks
    BY DEF Balanced
  <2> DEFINE b == base(total_count, num_chunks)
             r == remainder(total_count, num_chunks)
  <2>1. num_chunks \in Nat \ {0} /\ total_count \in Nat
    BY DEF LoopInv, TypeOK
  <2>2. b \in Nat /\ r \in Nat /\ total_count = num_chunks * b + r /\ r < num_chunks
    BY <2>1, DivMod
  <2>3. /\ chunks[j].count = b + (IF j - 1 < r THEN 1 ELSE 0)
        /\ chunks[k].count = b + (IF k - 1 < r THEN 1 ELSE 0)
    BY DEF LoopInv, LoopComputesClosedForm, chunk_count
  <2>4. j \in Nat /\ k \in Nat /\ j >= 1 /\ k >= 1
    BY DEF LoopInv, TypeOK
  <2> HIDE DEF b, r
  <2>5. (num_chunks * b + r + num_chunks - 1) \div num_chunks
          >= b + (IF r > 0 THEN 1 ELSE 0)
    <3> DEFINE q == (num_chunks * b + r + num_chunks - 1) \div num_chunks
               m == (num_chunks * b + r + num_chunks - 1) % num_chunks
    <3>1. /\ q \in Nat /\ m \in Nat /\ m < num_chunks
          /\ num_chunks * b + r + num_chunks - 1 = num_chunks * q + m
      BY <2>1, <2>2
    <3> HIDE DEF q, m
    <3>2. num_chunks * (q - b) >= r
      BY <3>1, <2>1, <2>2
    <3>3. q >= b
      BY <3>1, <3>2, <2>1, <2>2
    <3>4. r > 0 => q # b
      BY <3>1, <3>2, <2>1, <2>2
    <3> QED
      BY <3>1, <3>3, <3>4, <2>1, <2>2 DEF q
  <2> QED
    BY <2>1, <2>2, <2>3, <2>4, <2>5
<1> QED
  BY <1>1, LoopInvariant, PTL

(***************************************************************************)
(* At every iteration compute_chunks' loop has put into its vector what    *)
(* the closed form says: chunk i is base elements, and one more if i is    *)
(* below the remainder, at offset i * base + min(i, remainder).  The       *)
(* collectives are modelled with that closed form, so this is what entitles*)
(* their proofs to it, for every count and every number of ranks.          *)
(***************************************************************************)
THEOREM ClosedFormTheorem == Spec => []LoopComputesClosedForm
<1>1. LoopInv => LoopComputesClosedForm
  BY DEF LoopInv
<1> QED
  BY <1>1, LoopInvariant, PTL
=============================================================================
