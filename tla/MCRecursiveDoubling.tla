------------------------ MODULE MCRecursiveDoubling -------------------------
(***************************************************************************)
(* RecursiveDoubling for TLC.  In the run on the protocol a value is the   *)
(* bag of the contributions it was reduced from, with the int32_t Sum, Min *)
(* and Max of reduce_ops.cc over them: a contribution lost or taken twice  *)
(* makes another bag, and the sums of most subsets overflow.  In the run   *)
(* on floating point it is Min as reduce_ops.cc computes it.               *)
(***************************************************************************)
EXTENDS RecursiveDoublingInv, ReduceOps, Bags, FiniteSetsExt

CONSTANTS
  Counts,      \* the element counts tried
  Mismatch     \* may ranks pass different counts and bring short buffers?

Fitting(n) == [count |-> n, mr |-> n, scratch |-> n]

Agreeing == {[r \in Rank |-> Fitting(n)] : n \in Counts}

Disagreeing ==
  {[r \in Rank |-> Fitting(n[r])] : n \in {f \in [Rank -> Counts] :
                                             \E r, s \in Rank : f[r] # f[s]}}

Undersized ==
  {[f EXCEPT ![r].mr = @ - 1] : f \in Agreeing, r \in Rank} \cup
  {[f EXCEPT ![r].scratch = @ - 1] : f \in Agreeing, r \in Rank}

MCCalls ==
  Agreeing \cup
  (IF Mismatch THEN Disagreeing \cup {f \in Undersized : f \in [Rank -> Arg]} ELSE {})

(* What rank r puts into element e in round it, as an int32_t.             *)
IntInput(r, it, e) == wrap(3 * r + 5 * it + 2 * e + 1)

MCOp(dst, src) ==
  [from |-> dst.from (+) src.from,
   Sum |-> reduce_int("Sum", dst.Sum, src.Sum),
   Min |-> reduce_int("Min", dst.Min, src.Min),
   Max |-> reduce_int("Max", dst.Max, src.Max)]

MCInput(r, it, e) ==
  LET v == IntInput(r, it, e)
  IN  [from |-> SetToBag({<<r, it, e>>}), Sum |-> v, Min |-> v, Max |-> v]

MCZero == [from |-> EmptyBag, Sum |-> 0, Min |-> 0, Max |-> 0]

(* Rank 0 contributes NaN, the others numbers.                             *)
FloatOp(dst, src) == reduce_float("Min", dst, src)
FloatInput(r, it, e) == IF r = 0 THEN NaN ELSE Float(r, "plus")
FloatZero == Float(0, "plus")

ASSUME IntOrderIrrelevant

(***************************************************************************)
(* The result is the one computed serially, as expected_sum_at in          *)
(* test/integration_allreduce_4rank.cc does: every contribution to the     *)
(* element is in it exactly once and nothing else is, partial sums that    *)
(* overflow in between give the exact sum cast to 32 bits at the end, and  *)
(* Min and Max are those of the contributions.                             *)
(***************************************************************************)
MatchesSerial ==
  SameCount => \A r \in Rank : Returned(r) =>
    \A e \in Index : e < args[r].count =>
      LET result == mem[r]["data"][e]
          ints == {IntInput(s, round[r], e) : s \in Rank}
          total == MapThenSumSet(LAMBDA s : IntInput(s, round[r], e), Rank)
      IN  /\ result.from = SetToBag({<<s, round[r], e>> : s \in Rank})
          /\ result.Sum = wrap(total)
          /\ result.Min = Min(ints) /\ result.Max = Max(ints)
=============================================================================
