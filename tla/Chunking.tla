------------------------------ MODULE Chunking ------------------------------
(***************************************************************************)
(* compute_chunks (src/collectives/chunking.cc): the split of a buffer of  *)
(* total_count elements into num_chunks contiguous ranges.                 *)
(*                                                                         *)
(* The C++ function is a loop that appends one ChunkRange per iteration    *)
(* and carries the running offset.  It is modelled as that loop, one step  *)
(* per iteration, so that what it computes can be proved for every input   *)
(* from a loop invariant.  ChunkRanges gives the same ranges in closed     *)
(* form, for the modules of the collectives that use them.                 *)
(***************************************************************************)
EXTENDS ChunkRanges, Sequences

CONSTANTS
  MaxTotal,   \* bound on total_count, the size of the buffer
  MaxChunks   \* bound on num_chunks, the number of ranks

ASSUME MaxTotalAssumption == MaxTotal \in Nat
ASSUME MaxChunksAssumption == MaxChunks \in Nat

VARIABLES
  total_count, num_chunks,  \* the arguments
  pc,                       \* "entry", "loop", "returned" or "threw"
  i, offset, chunks         \* the locals; chunks is the vector, 1-based here

cvars == <<total_count, num_chunks, pc, i, offset, chunks>>

Init ==
  /\ total_count \in 0 .. MaxTotal
  /\ num_chunks \in 0 .. MaxChunks
  /\ pc = "entry"
  /\ i = 0
  /\ offset = 0
  /\ chunks = <<>>

RejectZero ==
  /\ pc = "entry" /\ num_chunks = 0
  /\ pc' = "threw"
  /\ UNCHANGED <<total_count, num_chunks, i, offset, chunks>>

EnterLoop ==
  /\ pc = "entry" /\ num_chunks # 0
  /\ pc' = "loop"
  /\ UNCHANGED <<total_count, num_chunks, i, offset, chunks>>

(* Bugs: the last index instead of the length; an offset that advances by  *)
(* the base length; the remainder in the last chunk; the longer chunks     *)
(* last.                                                                   *)
PushChunk_With(count, advance) ==
  /\ pc = "loop" /\ i < num_chunks
  /\ chunks' = Append(chunks, [offset |-> offset, count |-> count])
  /\ offset' = offset + advance
  /\ i' = i + 1
  /\ UNCHANGED <<total_count, num_chunks, pc>>

PushChunk_BaseOffset ==
  PushChunk_With(chunk_count(total_count, num_chunks, i), base(total_count, num_chunks))

PushChunk_RemainderLast ==
  LET count == base(total_count, num_chunks) +
                 IF i = num_chunks - 1 THEN remainder(total_count, num_chunks) ELSE 0
  IN  PushChunk_With(count, count)

PushChunk_LongerLast ==
  LET count == base(total_count, num_chunks) +
                 IF i >= num_chunks - remainder(total_count, num_chunks) THEN 1 ELSE 0
  IN  PushChunk_With(count, count)

PushChunk ==
  LET count == chunk_count(total_count, num_chunks, i)
  IN  /\ pc = "loop" /\ i < num_chunks
      /\ chunks' = Append(chunks, [offset |-> offset, count |-> count])
      /\ offset' = offset + count
      /\ i' = i + 1
      /\ UNCHANGED <<total_count, num_chunks, pc>>

Return ==
  /\ pc = "loop" /\ i = num_chunks
  /\ pc' = "returned"
  /\ UNCHANGED <<total_count, num_chunks, i, offset, chunks>>

Next == RejectZero \/ EnterLoop \/ PushChunk \/ Return

Spec == Init /\ [][Next]_cvars

-----------------------------------------------------------------------------
ChunkRange == [offset : Nat, count : Nat]

TypeOK ==
  /\ total_count \in Nat
  /\ num_chunks \in Nat
  /\ pc \in {"entry", "loop", "returned", "threw"}
  /\ i \in Nat
  /\ offset \in Nat
  /\ chunks \in Seq(ChunkRange)

(***************************************************************************)
(* The ranges returned are exactly num_chunks, start at 0, each one starts *)
(* where the one before it ends, and the last one ends at total_count: no  *)
(* element is lost and none belongs to two chunks, whatever the remainder. *)
(***************************************************************************)
Tiling ==
  pc = "returned" =>
    /\ Len(chunks) = num_chunks
    /\ chunks[1].offset = 0
    /\ \A k \in 1 .. num_chunks - 1 :
         chunks[k + 1].offset = chunks[k].offset + chunks[k].count
    /\ chunks[num_chunks].offset + chunks[num_chunks].count = total_count

(***************************************************************************)
(* Any two chunks differ by at most one element and the longer ones come   *)
(* first, so that the empty chunks, if any, are a suffix; no chunk exceeds *)
(* ceil(total / num), the scratch size allreduce_ring.hpp asks callers for.*)
(***************************************************************************)
Balanced ==
  \A j, k \in 1 .. Len(chunks) :
    /\ j <= k => chunks[k].count <= chunks[j].count
    /\ chunks[j].count <= chunks[k].count + 1
    /\ chunks[j].count <= (total_count + num_chunks - 1) \div num_chunks

(***************************************************************************)
(* The loop computes the closed form the ring collectives are modelled     *)
(* with: entry k of the vector is the range of chunk k - 1.                *)
(***************************************************************************)
LoopComputesClosedForm ==
  \A k \in 1 .. Len(chunks) :
    chunks[k] = [offset |-> chunk_offset(total_count, num_chunks, k - 1),
                 count  |-> chunk_count(total_count, num_chunks, k - 1)]
=============================================================================
