---------------------------- MODULE ChunkRanges -----------------------------
(***************************************************************************)
(* The ranges compute_chunks (src/collectives/chunking.cc) returns, in     *)
(* closed form.  Module Chunking models the loop itself and shows that it  *)
(* computes these ranges; the ring collectives use them.                   *)
(***************************************************************************)
EXTENDS Integers

(***************************************************************************)
(* Element i of the result in closed form.  A size_t division and its      *)
(* remainder are \div and % on naturals.                                   *)
(***************************************************************************)
base(total, num) == total \div num
remainder(total, num) == total % num

chunk_count(total, num, i) ==
  base(total, num) + (IF i < remainder(total, num) THEN 1 ELSE 0)

chunk_offset(total, num, i) ==
  i * base(total, num) +
    (IF i < remainder(total, num) THEN i ELSE remainder(total, num))
=============================================================================
