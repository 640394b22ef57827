-------------------------- MODULE MCAllreduceRing ---------------------------
(***************************************************************************)
(* AllreduceRing for TLC.  A value is the sequence of the contributions it *)
(* was reduced from and the reduction is concatenation, the most general   *)
(* one: a contribution that is lost, taken twice, mixed up between         *)
(* elements or rounds, or taken in another order makes another value.      *)
(***************************************************************************)
EXTENDS AllreduceRingInv

CONSTANTS
  Counts,     \* the element counts tried
  Mismatch    \* do ranks pass different counts?

MCOp(dst, src) == dst \o src
MCInput(r, it, e) == << <<r, it, e>> >>
MCZero == <<>>

(* Legal buffers, cut exactly to size.                                     *)
Fitting(n) == [count |-> n, mr |-> n, scratch |-> (n + P - 1) \div P]

Agreeing == {[r \in Rank |-> Fitting(n)] : n \in Counts}

Disagreeing ==
  {[r \in Rank |-> Fitting(n[r])] : n \in {f \in [Rank -> Counts] :
                                             \E r, s \in Rank : f[r] # f[s]}}

(* One rank brings a data or a scratch buffer that is one element short.   *)
Undersized ==
  {[f EXCEPT ![r] = a] : f \in Agreeing, r \in Rank, a \in
     {[Fitting(n) EXCEPT !.mr = @ - 1] : n \in Counts \ {0}} \cup
     {[Fitting(n) EXCEPT !.scratch = @ - 1] : n \in Counts \ {0}}}

MCCalls ==
  IF Mismatch THEN Agreeing \cup Disagreeing \cup {f \in Undersized :
                      \A r, s \in Rank : f[r].count = f[s].count}
  ELSE Agreeing
=============================================================================
