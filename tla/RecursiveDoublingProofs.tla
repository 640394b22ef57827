----------------------- MODULE RecursiveDoublingProofs ----------------------
(***************************************************************************)
(* allreduce_recursive_doubling, for every number of ranks, every set of   *)
(* calls, every number of rounds, every reduction and every order of the   *)
(* adapters' steps.                                                        *)
(***************************************************************************)
EXTENDS RecursiveDoublingInv, ReduceOps, TransportLemmas

-----------------------------------------------------------------------------
(* Arithmetic of the hypercube.                                            *)

(***************************************************************************)
(* 1 << k satisfies its recursion.                                         *)
(***************************************************************************)
LEMMA BitDef ==
  /\ bit[0] = 1
  /\ \A k \in 1 .. P : bit[k] = 2 * bit[k - 1]
<1> DEFINE body(f, k) == IF k = 0 THEN 1 ELSE 2 * f[k - 1]
           Good(n) == \E f : \A k \in 0 .. n : f[k] = body(f, k)
           T == {n \in Nat : ~Good(n)}
<1>1. T = {}
  <2> SUFFICES ASSUME T # {} PROVE FALSE
    OBVIOUS
  <2>1. PICK n \in T : \A m \in T : n <= m
    <3>1. T \subseteq Nat
      OBVIOUS
    <3> HIDE DEF T
    <3> QED BY <3>1, Least
  <2>2. CASE n = 0
    <3> DEFINE f == [k \in 0 .. 0 |-> 1]
    <3>1. \A k \in 0 .. 0 : f[k] = body(f, k)
      OBVIOUS
    <3>2. Good(0)
      BY <3>1
    <3> QED BY <2>2, <3>2
  <2>3. CASE n # 0
    <3>1. n - 1 \in Nat /\ n \in Nat /\ ~(n <= n - 1)
      BY <2>3
    <3>2. Good(n - 1)
      BY <3>1, <2>1
    <3>3. PICK h : \A k \in 0 .. n - 1 : h[k] = body(h, k)
      BY <3>2
    <3> DEFINE f == [k \in 0 .. n |-> IF k = n THEN body(h, n) ELSE h[k]]
    <3>4. \A k \in 0 .. n - 1 : f[k] = h[k]
      BY <3>1
    <3>5. \A k \in 0 .. n : body(f, k) = body(h, k)
      BY <3>1, <3>4
    <3>6. \A k \in 0 .. n : f[k] = body(f, k)
      BY <3>1, <3>3, <3>5
    <3>7. Good(n)
      BY <3>6
    <3> QED BY <3>7
  <2> QED BY <2>2, <2>3
<1>2. P \in Nat
  BY PAssumption
<1>3. PICK h : \A k \in 0 .. P : h[k] = body(h, k)
  BY <1>1, <1>2
<1>4. \E f : f = [k \in 0 .. P |-> body(f, k)]
  <2> DEFINE f == [k \in 0 .. P |-> h[k]]
  <2>1. \A k \in 0 .. P : body(f, k) = body(h, k)
    BY <1>2
  <2>2. f = [k \in 0 .. P |-> body(f, k)]
    BY <1>3, <2>1
  <2> QED BY <2>2
<1>5. bit = [k \in 0 .. P |-> body(bit, k)]
  BY <1>4, Zenon DEF bit
<1>6. \A k \in 0 .. P : bit[k] = body(bit, k)
  <2> HIDE DEF body
  <2> QED BY <1>5
<1> HIDE DEF Good, T
<1> QED
  BY <1>2, <1>6

(***************************************************************************)
(* A smaller power of two divides a larger one.                            *)
(***************************************************************************)
LEMMA BitDivides ==
  ASSUME NEW j \in 0 .. P, NEW i \in j .. P
  PROVE  /\ bit[j] \in Nat \ {0}
         /\ \E m \in Nat \ {0} : bit[i] = bit[j] * m
<1> DEFINE Bad1 == {n \in 0 .. P : bit[n] \notin Nat \ {0}}
           Bad2 == {n \in j .. P : ~\E m \in Nat \ {0} : bit[n] = bit[j] * m}
<1>0. P \in Nat /\ bit[0] = 1 /\ \A k \in 1 .. P : bit[k] = 2 * bit[k - 1]
  BY PAssumption, BitDef
<1>1. Bad1 = {}
  <2> SUFFICES ASSUME Bad1 # {} PROVE FALSE
    OBVIOUS
  <2>1. PICK n \in Bad1 : \A m \in Bad1 : n <= m
    <3>1. Bad1 \subseteq Nat
      BY <1>0
    <3> HIDE DEF Bad1
    <3> QED BY <3>1, Least
  <2>2. n # 0
    BY <1>0
  <2>3. n - 1 \in 0 .. P /\ n \in 1 .. P /\ ~(n <= n - 1)
    BY <1>0, <2>2
  <2>4. bit[n - 1] \in Nat \ {0}
    BY <2>1, <2>3
  <2>5. bit[n] = 2 * bit[n - 1]
    BY <1>0, <2>3
  <2> QED BY <2>4, <2>5
<1>2. \A k \in 0 .. P : bit[k] \in Nat \ {0}
  BY <1>1
<1>3. Bad2 = {}
  <2> SUFFICES ASSUME Bad2 # {} PROVE FALSE
    OBVIOUS
  <2>1. PICK n \in Bad2 : \A m \in Bad2 : n <= m
    <3>1. Bad2 \subseteq Nat
      BY <1>0
    <3> HIDE DEF Bad2
    <3> QED BY <3>1, Least
  <2>2. n # j
    <3>1. bit[j] = bit[j] * 1 /\ 1 \in Nat \ {0}
      BY <1>2
    <3> QED BY <3>1
  <2>3. n - 1 \in j .. P /\ n \in 1 .. P /\ ~(n <= n - 1)
    BY <1>0, <2>2
  <2>4. PICK m \in Nat \ {0} : bit[n - 1] = bit[j] * m
    BY <2>1, <2>3
  <2>5. bit[n] = 2 * bit[n - 1]
    BY <1>0, <2>3
  <2>6. bit[n] = bit[j] * (2 * m) /\ 2 * m \in Nat \ {0}
    BY <1>2, <2>4, <2>5
  <2> QED BY <2>6
<1> QED
  BY <1>2, <1>3

(***************************************************************************)
(* The exponent of the number of ranks.                                    *)
(***************************************************************************)
LEMMA Steps ==
  ASSUME is_power_of_two
  PROVE  /\ steps \in 0 .. P /\ bit[steps] = P
         /\ P = 1 <=> steps = 0
<1>1. steps \in 0 .. P /\ bit[steps] = P
  BY DEF is_power_of_two, steps
<1>2. P \in Nat \ {0} /\ bit[0] = 1 /\ \A k \in 1 .. P : bit[k] = 2 * bit[k - 1]
  BY PAssumption, BitDef
<1>3. ASSUME P = 1, steps # 0 PROVE FALSE
  BY <1>1, <1>2, <1>3
<1> QED
  BY <1>1, <1>2, <1>3

(***************************************************************************)
(* The powers of two below the number of ranks, and how many blocks of     *)
(* that size there are.                                                    *)
(***************************************************************************)
LEMMA StepBit ==
  ASSUME is_power_of_two, NEW k \in 0 .. steps - 1
  PROVE  /\ k \in Nat /\ k \in 0 .. P /\ k + 1 \in 0 .. P /\ k + 1 \in 0 .. steps
         /\ bit[k] \in Nat \ {0} /\ bit[k + 1] = 2 * bit[k]
         /\ \E m \in Nat \ {0} : P = (2 * bit[k]) * m
<1>1. steps \in 0 .. P /\ bit[steps] = P /\ P \in Nat \ {0}
  BY Steps, PAssumption
<1>2. k \in Nat /\ k \in 0 .. P /\ k + 1 \in 1 .. P /\ k + 1 \in 0 .. P /\ steps \in k + 1 .. P
      /\ k + 1 \in 0 .. steps /\ k \in k .. P
  BY <1>1
<1>3. bit[k] \in Nat \ {0}
  BY <1>2, BitDivides
<1>4. \E m \in Nat \ {0} : bit[steps] = bit[k + 1] * m
  BY <1>2, BitDivides
<1>5. bit[k + 1] = 2 * bit[k + 1 - 1]
  BY <1>2, BitDef
<1> QED
  BY <1>1, <1>2, <1>3, <1>4, <1>5

(***************************************************************************)
(* Quotients: the bounds a quotient is determined by.                      *)
(***************************************************************************)
LEMMA Quotient ==
  ASSUME NEW b \in Nat \ {0}, NEW n \in Nat
  PROVE  /\ n \div b \in Nat /\ b * (n \div b) <= n /\ n < b * (n \div b) + b
         /\ \A q \in Int : b * q <= n /\ n < b * q + b => n \div b = q
<1>1. n \div b \in Nat /\ b * (n \div b) <= n /\ n < b * (n \div b) + b
  OBVIOUS
<1>2. ASSUME NEW q \in Int, b * q <= n, n < b * q + b PROVE n \div b = q
  <2> DEFINE x == n \div b
  <2>1. x \in Int /\ b * x <= n /\ n < b * x + b
    BY <1>1
  <2> HIDE DEF x
  <2>2. b * x < b * (q + 1) /\ b * q < b * (x + 1)
    BY <1>2, <2>1
  <2>3. x < q + 1 /\ q < x + 1
    BY <2>1, <2>2
  <2> QED BY <2>1, <2>3 DEF x
<1> QED BY <1>1, <1>2

(***************************************************************************)
(* The partner of a step: a rank, another one, and a partner in turn, in   *)
(* the neighbouring block of that size.                                    *)
(***************************************************************************)
LEMMA Partners ==
  ASSUME is_power_of_two, NEW k \in 0 .. steps - 1, NEW r \in Rank
  PROVE  /\ partner(r, k) \in Rank /\ partner(r, k) # r
         /\ partner(partner(r, k), k) = r
         /\ partner(r, k) = r + bit[k] \/ partner(r, k) = r - bit[k]
         /\ partner(r, k) \div bit[k] =
              IF (r \div bit[k]) % 2 = 0 THEN r \div bit[k] + 1 ELSE r \div bit[k] - 1
<1> DEFINE b == bit[k]
           q == r \div b
<1>1. b \in Nat \ {0} /\ r \in Nat /\ r < P /\ P \in Nat
  <2>1. b \in Nat \ {0}
    BY StepBit, Zenon
  <2>2. r \in Nat /\ r < P /\ P \in Nat
    BY PAssumption DEF Rank
  <2> QED BY <2>1, <2>2
<1>2. PICK m \in Nat \ {0} : P = (2 * b) * m
  BY StepBit
<1>3. q \in Nat /\ b * q <= r /\ r < b * q + b
  BY <1>1, Quotient
<1>4. partner(r, k) = IF q % 2 = 0 THEN r + b ELSE r - b
  BY DEF partner
<1> HIDE DEF b
<1>5. CASE q % 2 = 0
  <2>1. PICK t \in Nat : q = 2 * t
    BY <1>3, <1>5
  <2>2. t < m
    <3>1. (2 * b) * t < (2 * b) * m
      BY <1>1, <1>2, <1>3, <2>1
    <3> QED BY <1>1, <3>1
  <2>3. r + b < P
    <3>1. (2 * b) * (t + 1) <= (2 * b) * m
      BY <1>1, <2>2
    <3> QED BY <1>1, <1>2, <1>3, <2>1, <3>1
  <2>4. (r + b) \div b = q + 1
    <3>1. b * (q + 1) <= r + b /\ r + b < b * (q + 1) + b /\ r + b \in Nat /\ q + 1 \in Int
      BY <1>1, <1>3
    <3> QED BY <1>1, <3>1, Quotient
  <2>5. (q + 1) % 2 # 0
    BY <2>1
  <2>6. partner(r + b, k) = r
    BY <1>1, <2>4, <2>5 DEF partner, b
  <2> QED
    BY <1>1, <1>4, <1>5, <2>3, <2>4, <2>6 DEF Rank, b
<1>6. CASE q % 2 # 0
  <2>1. PICK t \in Nat : q = 2 * t + 1
    BY <1>3, <1>6
  <2>2. r - b \in Nat
    <3>1. b * q >= b
      BY <1>1, <2>1
    <3> QED BY <1>1, <1>3, <3>1
  <2>3. (r - b) \div b = q - 1
    <3>1. b * (q - 1) <= r - b /\ r - b < b * (q - 1) + b /\ q - 1 \in Int
      BY <1>1, <1>3
    <3> QED BY <1>1, <2>2, <3>1, Quotient
  <2>4. (q - 1) % 2 = 0
    BY <2>1
  <2>5. partner(r - b, k) = r
    BY <1>1, <2>3, <2>4 DEF partner, b
  <2> QED
    BY <1>1, <1>4, <1>6, <2>2, <2>3, <2>5 DEF Rank, b
<1> QED BY <1>5, <1>6

(***************************************************************************)
(* A rank has another partner in every step.                               *)
(***************************************************************************)
LEMMA PartnersDiffer ==
  ASSUME is_power_of_two, NEW r \in Rank, NEW j \in 0 .. steps - 1, NEW k \in 0 .. steps - 1,
         partner(r, j) = partner(r, k)
  PROVE  j = k
<1>1. ASSUME NEW a \in 0 .. steps - 1, NEW c \in 0 .. steps - 1, a < c
      PROVE  bit[a] < bit[c]
  <2>1. steps \in 0 .. P /\ P \in Nat
    BY Steps, PAssumption
  <2>2. a + 1 \in 0 .. P /\ c \in a + 1 .. P /\ a \in 0 .. P /\ a \in a .. P
    BY <1>1, <2>1
  <2>3. PICK m \in Nat \ {0} : bit[c] = bit[a + 1] * m
    BY <2>2, BitDivides
  <2>4. bit[a] \in Nat \ {0} /\ bit[a + 1] = 2 * bit[a]
    <3>1. bit[a] \in Nat \ {0}
      BY <2>2, BitDivides
    <3>2. bit[a + 1] = 2 * bit[a + 1 - 1] /\ a + 1 - 1 = a
      BY <2>1, <2>2, BitDef
    <3> QED BY <3>1, <3>2
  <2>5. bit[a] < (2 * bit[a]) * m
    BY <2>4
  <2> QED BY <2>3, <2>4, <2>5
<1>2. bit[j] \in Nat \ {0} /\ bit[k] \in Nat \ {0} /\ r \in Int
  <2>1. bit[j] \in Nat \ {0} /\ bit[k] \in Nat \ {0}
    BY StepBit, Zenon
  <2> QED BY <2>1 DEF Rank
<1>3. /\ partner(r, j) = r + bit[j] \/ partner(r, j) = r - bit[j]
      /\ partner(r, k) = r + bit[k] \/ partner(r, k) = r - bit[k]
  BY Partners, Zenon
<1>4. bit[j] = bit[k]
  BY <1>2, <1>3
<1>5. steps \in Int
  BY Steps, PAssumption
<1>6. ~(j < k) /\ ~(k < j)
  BY <1>1, <1>2, <1>4
<1> QED BY <1>5, <1>6

(***************************************************************************)
(* Blocks: a rank alone, two blocks of a size make one of the next, and    *)
(* the last one is everybody.                                              *)
(***************************************************************************)
LEMMA Blocks ==
  ASSUME is_power_of_two, NEW r \in Rank
  PROVE  /\ Block(r, 0) = {r}
         /\ \A k \in 0 .. steps - 1 :
              Block(r, k + 1) = Block(r, k) \cup Block(partner(r, k), k)
         /\ Block(r, steps) = Rank
<1>1. \A s \in Rank : s \in Nat /\ s < P /\ s \in Int
  BY PAssumption DEF Rank
<1>2. Block(r, 0) = {r}
  <2>1. \A s \in Nat : s \div 1 = s
    OBVIOUS
  <2> QED
    BY <1>1, <2>1, BitDef DEF Block
<1>3. Block(r, steps) = Rank
  <2>1. bit[steps] = P /\ P \in Nat \ {0}
    BY Steps, PAssumption
  <2>2. ASSUME NEW s \in Rank PROVE s \div P = 0
    BY <1>1, <2>1
  <2> QED
    BY <2>1, <2>2 DEF Block
<1>4. ASSUME NEW k \in 0 .. steps - 1
      PROVE  Block(r, k + 1) = Block(r, k) \cup Block(partner(r, k), k)
  <2> DEFINE b == bit[k]
  <2>1. b \in Nat \ {0} /\ bit[k + 1] = 2 * b
    BY StepBit, Zenon
  <2>2. partner(r, k) \div b = IF (r \div b) % 2 = 0 THEN r \div b + 1 ELSE r \div b - 1
    BY Partners, Zenon
  <2> HIDE DEF b
  <2>3. ASSUME NEW n \in Nat PROVE n \div (2 * b) = (n \div b) \div 2
    <3> DEFINE q == n \div b
               h == q \div 2
    <3>1. q \in Nat /\ b * q <= n /\ n < b * q + b
      BY <2>1, Quotient
    <3> HIDE DEF q
    <3>2. h \in Nat /\ 2 * h <= q /\ q < 2 * h + 2
      BY <3>1
    <3> HIDE DEF h
    <3>3. b * (2 * h) <= b * q /\ b * (q + 1) <= b * (2 * h + 2)
      <4>1. q + 1 <= 2 * h + 2 /\ 2 * h <= q
        BY <3>1, <3>2
      <4> QED BY <2>1, <3>1, <3>2, <4>1
    <3>4. (2 * b) * h <= n /\ n < (2 * b) * h + 2 * b
      BY <2>1, <3>1, <3>2, <3>3
    <3>5. 2 * b \in Nat \ {0} /\ h \in Int
      BY <2>1, <3>2
    <3>6. n \div (2 * b) = h
      BY <3>4, <3>5, Quotient
    <3> QED BY <3>6 DEF h, q
  <2>4. ASSUME NEW s \in Rank
        PROVE  s \div (2 * b) = r \div (2 * b) <=>
                 s \div b = r \div b \/ s \div b = partner(r, k) \div b
    <3> DEFINE x == s \div b
               y == r \div b
    <3>1. x \in Nat /\ y \in Nat
      BY <1>1, <2>1, Quotient
    <3>2. s \div (2 * b) = x \div 2 /\ r \div (2 * b) = y \div 2
      BY <1>1, <2>3
    <3>3. partner(r, k) \div b = IF y % 2 = 0 THEN y + 1 ELSE y - 1
      BY <2>2
    <3> HIDE DEF x, y
    <3>4. x \div 2 = y \div 2 <=> x = y \/ x = IF y % 2 = 0 THEN y + 1 ELSE y - 1
      BY <3>1
    <3> QED BY <3>2, <3>3, <3>4 DEF x, y
  <2> QED
    BY <2>1, <2>4 DEF Block, b
<1> QED
  BY <1>2, <1>3, <1>4

(***************************************************************************)
(* Tree satisfies its recursion.                                           *)
(***************************************************************************)
LEMMA TreeDef ==
  ASSUME is_power_of_two, NEW it, NEW e
  PROVE  /\ \A r \in Rank : Tree(it, e)[0][r] = Input(r, it, e)
         /\ \A k \in 0 .. steps - 1, r \in Rank :
              Tree(it, e)[k + 1][r] =
                Op(Tree(it, e)[k][r], Tree(it, e)[k][partner(r, k)])
<1> DEFINE leaf == [r \in Rank |-> Input(r, it, e)]
           level(g, j) == [r \in Rank |-> Op(g[r], g[partner(r, j)])]
<1> DEFINE body(f, k) == IF k = 0 THEN leaf ELSE level(f[k - 1], k - 1)
           Good(n) == \E f : \A k \in 0 .. n : f[k] = body(f, k)
           T == {n \in Nat : ~Good(n)}
<1> HIDE DEF leaf, level
<1>1. T = {}
  <2> SUFFICES ASSUME T # {} PROVE FALSE
    OBVIOUS
  <2>1. PICK n \in T : \A m \in T : n <= m
    <3>1. T \subseteq Nat
      OBVIOUS
    <3> HIDE DEF T
    <3> QED BY <3>1, Least
  <2>2. CASE n = 0
    <3> DEFINE f == [k \in 0 .. 0 |-> leaf]
    <3>1. \A k \in 0 .. 0 : f[k] = body(f, k)
      OBVIOUS
    <3>2. Good(0)
      BY <3>1
    <3> QED BY <2>2, <3>2
  <2>3. CASE n # 0
    <3>1. n - 1 \in Nat /\ n \in Nat /\ ~(n <= n - 1)
      BY <2>3
    <3>2. Good(n - 1)
      BY <3>1, <2>1
    <3>3. PICK h : \A k \in 0 .. n - 1 : h[k] = body(h, k)
      BY <3>2
    <3> DEFINE f == [k \in 0 .. n |-> IF k = n THEN body(h, n) ELSE h[k]]
    <3>4. \A k \in 0 .. n - 1 : f[k] = h[k]
      BY <3>1
    <3>5. \A k \in 0 .. n : body(f, k) = body(h, k)
      BY <3>1, <3>4
    <3>6. \A k \in 0 .. n : f[k] = body(f, k)
      BY <3>1, <3>3, <3>5
    <3>7. Good(n)
      BY <3>6
    <3> QED BY <3>7
  <2> QED BY <2>2, <2>3
<1>2. steps \in Nat
  BY Steps, PAssumption
<1>3. PICK h : \A k \in 0 .. steps : h[k] = body(h, k)
  BY <1>1, <1>2
<1>4. \E f : f = [k \in 0 .. steps |-> body(f, k)]
  <2> DEFINE f == [k \in 0 .. steps |-> h[k]]
  <2>1. \A k \in 0 .. steps : body(f, k) = body(h, k)
    BY <1>2
  <2>2. f = [k \in 0 .. steps |-> body(f, k)]
    BY <1>3, <2>1
  <2> QED BY <2>2
<1>5. Tree(it, e) = [k \in 0 .. steps |-> body(Tree(it, e), k)]
  BY <1>4, Zenon DEF Tree, leaf, level
<1>6. \A k \in 0 .. steps : Tree(it, e)[k] = body(Tree(it, e), k)
  <2> HIDE DEF body
  <2> QED BY <1>5
<1> HIDE DEF Good, T
<1>7. ASSUME NEW k \in 0 .. steps - 1, NEW r \in Rank
      PROVE  Tree(it, e)[k + 1][r] = Op(Tree(it, e)[k][r], Tree(it, e)[k][partner(r, k)])
  <2>1. k + 1 \in 0 .. steps /\ k + 1 # 0 /\ k + 1 - 1 = k
    BY <1>2
  <2>2. Tree(it, e)[k + 1] =
          level(Tree(it, e)[k], k)
    BY <1>6, <2>1
  <2> QED BY <2>2 DEF level
<1>8. Tree(it, e)[0] = leaf
  BY <1>2, <1>6
<1> QED
  BY <1>7, <1>8 DEF leaf

-----------------------------------------------------------------------------
(* Types and control.                                                      *)

(***************************************************************************)
(* The arguments of a rank are the same in every call, and with them what  *)
(* its checks say.                                                         *)
(***************************************************************************)
LEMMA SameArguments ==
  ASSUME [Next]_vars
  PROVE  /\ args' = args
         /\ \A r \in Rank : bad_arguments(r)' = bad_arguments(r)
         /\ SameCount' = SameCount /\ LengthsTell' = LengthsTell /\ WellCalled' = WellCalled
<1>1. args' = args
  BY DEF Next, RankStep, Work, Nic, AdapterStep, Terminating, Call, PostRecv, PostSend,
         WaitSend, WaitRecv, Throw, Exit, Finish, ctl, vars
<1> QED
  BY <1>1 DEF bad_arguments, SameCount, LengthsTell, WellCalled

(***************************************************************************)
(* A rank that is in a call has accepted arguments and a partner.          *)
(***************************************************************************)
LEMMA InTheCall ==
  ASSUME TypeOK, Control, NEW r \in Rank, InCall(r)
  PROVE  /\ is_power_of_two /\ P > 1 /\ step[r] \in 0 .. steps - 1
         /\ peer(r) \in Rank /\ peer(r) # r /\ partner(peer(r), step[r]) = r
         /\ round[r] \in 1 .. MaxRounds /\ args[r].count \in Nat
         /\ args[r].count <= args[r].mr /\ args[r].mr <= Span
         /\ args[r].count <= args[r].scratch /\ args[r].scratch <= Span
         /\ ~bad_arguments(r)
<1>1. /\ P > 1 /\ step[r] < steps /\ round[r] > 0 /\ ~bad_arguments(r)
      /\ args[r] \in Arg /\ step[r] \in Nat /\ round[r] \in 0 .. MaxRounds
      /\ P \in Nat /\ Span \in Nat /\ MaxRounds \in Nat
  BY PAssumption, SpanAssumption, MaxRoundsAssumption DEF Control, ControlOf, TypeOK
<1>2. is_power_of_two
  BY <1>1 DEF bad_arguments
<1>3. step[r] \in 0 .. steps - 1
  BY <1>1, <1>2, Steps
<1>4. /\ args[r].count \in Nat /\ args[r].mr \in 0 .. Span /\ args[r].scratch \in 0 .. Span
      /\ args[r].count <= args[r].mr /\ args[r].count <= args[r].scratch
  BY <1>1 DEF bad_arguments, Arg
<1>5. peer(r) \in Rank /\ peer(r) # r /\ partner(peer(r), step[r]) = r
  BY <1>2, <1>3, Partners DEF peer
<1> QED
  BY <1>1, <1>2, <1>3, <1>4, <1>5

(***************************************************************************)
(* Every step of a rank or of an adapter keeps the types and the control.  *)
(***************************************************************************)
LEMMA TypeStep == TypeOK /\ Control /\ [Next]_vars => TypeOK'
<1> SUFFICES ASSUME TypeOK, Control, [Next]_vars PROVE TypeOK'
  OBVIOUS
<1>0. ASSUME NEW r \in Rank, InCall(r)
      PROVE  /\ peer(r) \in Rank
             /\ send_request(r) \in WorkRequest /\ recv_request(r) \in WorkRequest
  BY <1>0, InTheCall, SgeType DEF send_request, recv_request, Buffer
<1> USE DEF TypeOK, TransportTypeOK
<1>1. ASSUME NEW r \in Rank, Call(r) PROVE TypeOK'
  <2>1. round[r] + 1 \in 0 .. MaxRounds
    BY <1>1, MaxRoundsAssumption DEF Call
  <2> QED
    BY <1>1, <2>1 DEF Call, nic
<1>2. ASSUME NEW r \in Rank, PostRecv(r) PROVE TypeOK'
  <2>1. rq' = [rq EXCEPT ![r][peer(r)] = Append(@, recv_request(r))] /\ InCall(r)
    BY <1>2 DEF PostRecv, post_recv, peer, recv_request, InCall
  <2>2. rq' \in [Rank -> [Rank -> Seq(WorkRequest)]]
    BY <1>0, <2>1, WorkQueueType
  <2> QED
    BY <1>2, <2>2 DEF PostRecv
<1>3. ASSUME NEW r \in Rank, PostSend(r) PROVE TypeOK'
  <2>1. sq' = [sq EXCEPT ![r][peer(r)] = Append(@, send_request(r))] /\ InCall(r)
    BY <1>3 DEF PostSend, post_send, peer, send_request, InCall
  <2>2. sq' \in [Rank -> [Rank -> Seq(WorkRequest)]]
    BY <1>0, <2>1, WorkQueueType
  <2> QED
    BY <1>3, <2>2 DEF PostSend
<1>4. ASSUME NEW r \in Rank, WaitSend(r) PROVE TypeOK'
  <2>1. send_cq' \in [Rank -> Seq(Completion)]
    BY <1>4, TakeType DEF WaitSend, completed
  <2> QED
    BY <1>4, <2>1 DEF WaitSend
<1>5. ASSUME NEW r \in Rank, WaitRecv(r) PROVE TypeOK'
  <2>1. recv_cq' \in [Rank -> Seq(Completion)]
    BY <1>5, TakeType DEF WaitRecv, received, completed
  <2>2. step' \in [Rank -> Nat]
    BY <1>5 DEF WaitRecv
  <2>3. pc' \in [Rank -> {"idle", "post_recv", "post_send", "wait_send", "wait_recv",
                          "threw", "exited", "finished"}]
    BY <1>5 DEF WaitRecv
  <2> QED
    BY <1>5, <2>1, <2>2, <2>3 DEF WaitRecv
<1>6. ASSUME NEW r \in Rank, Throw(r) PROVE TypeOK'
  <2>1. /\ send_cq' = send_cq \/ (send_cq[r] # <<>> /\ send_cq' = take(send_cq, r))
        /\ recv_cq' = recv_cq \/ (recv_cq[r] # <<>> /\ recv_cq' = take(recv_cq, r))
    BY <1>6 DEF Throw, received, completed, completion_error
  <2>2. /\ send_cq[r] # <<>> => take(send_cq, r) \in [Rank -> Seq(Completion)]
        /\ recv_cq[r] # <<>> => take(recv_cq, r) \in [Rank -> Seq(Completion)]
    <3>1. CASE send_cq[r] # <<>>
      BY <3>1, TakeType
    <3>2. CASE recv_cq[r] # <<>>
      BY <3>2, TakeType
    <3> QED
      BY <3>1, <3>2, TakeType
  <2>3. send_cq' \in [Rank -> Seq(Completion)] /\ recv_cq' \in [Rank -> Seq(Completion)]
    BY <2>1, <2>2
  <2> QED
    BY <1>6, <2>3 DEF Throw
<1>7. ASSUME NEW r \in Rank, Exit(r) \/ Finish(r) PROVE TypeOK'
  <2>1. TransportTypeOK'
    BY <1>7, DestroyType DEF Exit, Finish
  <2> QED
    BY <1>7, <2>1 DEF Exit, Finish
<1>8. ASSUME NEW s \in Rank, NEW d \in Rank, AdapterStep(s, d), UNCHANGED ctl PROVE TypeOK'
  <2>1. TransportTypeOK'
    BY <1>8, AdapterType
  <2> QED
    BY <1>8, <2>1 DEF ctl
<1>9. CASE UNCHANGED vars
  BY <1>9 DEF vars, nic
<1> QED
  BY <1>1, <1>2, <1>3, <1>4, <1>5, <1>6, <1>7, <1>8, <1>9
     DEF Next, RankStep, Work, Nic, Terminating

(***************************************************************************)
(* A rank that is in a call has passed the argument checks and has steps   *)
(* left to do.                                                             *)
(***************************************************************************)
LEMMA ControlStep == TypeOK /\ Control /\ [Next]_vars => Control'
<1> SUFFICES ASSUME TypeOK, Control, [Next]_vars, NEW q \in Rank PROVE ControlOf(q)'
  BY DEF Control
<1>1. /\ bad_arguments(q)' = bad_arguments(q) /\ ControlOf(q)
      /\ round \in [Rank -> 0 .. MaxRounds] /\ step \in [Rank -> Nat]
      /\ pc \in [Rank -> {"idle", "post_recv", "post_send", "wait_send",
                          "wait_recv", "threw", "exited", "finished"}]
      /\ P \in Nat \ {0}
  BY SameArguments, PAssumption DEF Control, TypeOK
<1>2. ~bad_arguments(q) => is_power_of_two
  BY DEF bad_arguments
<1>3. ~bad_arguments(q) => steps \in Nat /\ (P > 1 => 0 < steps)
  BY <1>1, <1>2, Steps
<1> USE DEF ControlOf, InCall, Returned, Outside
<1>4. CASE UNCHANGED ctl
  BY <1>1, <1>4 DEF ctl
<1>5. ASSUME NEW r \in Rank, Call(r) PROVE ControlOf(q)'
  <2>1. /\ round' = [round EXCEPT ![r] = @ + 1] /\ step' = [step EXCEPT ![r] = 0]
        /\ pc' = [pc EXCEPT ![r] = IF bad_arguments(r) THEN "threw"
                                   ELSE IF P = 1 THEN "idle" ELSE "post_recv"]
    BY <1>5 DEF Call
  <2>2. CASE q # r
    BY <1>1, <2>1, <2>2
  <2>3. CASE q = r
    <3>1. /\ round'[q] > 0 /\ step'[q] = 0
          /\ pc'[q] = IF bad_arguments(q) THEN "threw"
                      ELSE IF P = 1 THEN "idle" ELSE "post_recv"
      BY <1>1, <2>1, <2>3
    <3>2. CASE bad_arguments(q)
      BY <1>1, <3>1, <3>2
    <3>3. CASE ~bad_arguments(q)
      BY <1>1, <1>3, <3>1, <3>3
    <3> QED BY <3>2, <3>3
  <2> QED BY <2>2, <2>3
<1>6. ASSUME NEW r \in Rank, PostRecv(r) \/ PostSend(r) \/ WaitSend(r) PROVE ControlOf(q)'
  BY <1>1, <1>6 DEF PostRecv, PostSend, WaitSend
<1>7. ASSUME NEW r \in Rank, WaitRecv(r) PROVE ControlOf(q)'
  <2>1. /\ round' = round /\ pc[r] = "wait_recv"
        /\ step' = [step EXCEPT ![r] = IF last_step(r) THEN 0 ELSE @ + 1]
        /\ pc' = [pc EXCEPT ![r] = IF last_step(r) THEN "idle" ELSE "post_recv"]
    BY <1>7 DEF WaitRecv
  <2>2. CASE q # r
    BY <1>1, <2>1, <2>2
  <2>3. CASE q = r
    <3>1. step[q] \in Nat /\ steps \in Nat /\ step[q] < steps /\ ~bad_arguments(q)
          /\ P > 1 /\ round[q] > 0
      BY <1>1, <1>3, <2>1, <2>3
    <3>2. CASE last_step(q)
      BY <1>1, <2>1, <2>3, <3>1, <3>2
    <3>3. CASE ~last_step(q)
      <4>1. step[q] + 1 < steps
        BY <3>1, <3>3 DEF last_step
      <4> QED BY <1>1, <2>1, <2>3, <3>1, <3>3, <4>1
    <3> QED BY <3>2, <3>3
  <2> QED BY <2>2, <2>3
<1>8. ASSUME NEW r \in Rank, Throw(r) \/ Exit(r) \/ Finish(r) PROVE ControlOf(q)'
  BY <1>1, <1>8 DEF Throw, Exit, Finish
<1> QED
  BY <1>4, <1>5, <1>6, <1>7, <1>8 DEF Next, RankStep, Work, Nic, Terminating, vars, ctl

-----------------------------------------------------------------------------
(* Queues.                                                                 *)

(***************************************************************************)
(* A post into empty queues leaves one request.                            *)
(***************************************************************************)
LEMMA PostOne ==
  ASSUME NEW q \in [Rank -> Seq(WorkRequest)], NEW cq \in Seq(Completion),
         ~Busy(q, cq), NEW p \in Rank, NEW wr,
         NEW q2, q2[p] = Append(q[p], wr), \A o \in Rank \ {p} : q2[o] = q[o]
  PROVE  Only(q2, cq, p, wr) /\ Busy(q2, cq)
<1>1. cq = <<>> /\ \A o \in Rank : q[o] = <<>>
  BY DEF Busy
<1>2. Append(q[p], wr) = <<wr>> /\ <<wr>> # <<>>
  BY <1>1, AppendToEmpty
<1>3. q2[p] = <<wr>> /\ \A o \in Rank \ {p} : q2[o] = <<>>
  BY <1>1, <1>2
<1>4. Len(cq) <= 1
  BY <1>1, EmptySeq
<1> QED
  BY <1>1, <1>2, <1>3, <1>4 DEF Only, Busy

(***************************************************************************)
(* A request that is outstanding is the only one, and not completed.       *)
(***************************************************************************)
LEMMA OutstandingOne ==
  ASSUME NEW q, NEW cq, NEW p, NEW wr, Only(q, cq, p, wr), NEW o \in Rank, q[o] # <<>>
  PROVE  /\ o = p /\ q[o] = <<wr>> /\ Head(q[o]) = wr /\ Tail(q[o]) = <<>>
         /\ cq = <<>> /\ \A i \in Rank \ {o} : q[i] = <<>>
<1>1. o = p /\ q[o] = <<wr>> /\ cq = <<>> /\ \A i \in Rank \ {o} : q[i] = <<>>
  BY DEF Only
<1> QED
  BY <1>1, AppendToEmpty

(***************************************************************************)
(* A completion alone is within bounds.                                    *)
(***************************************************************************)
LEMMA CompletionOnly ==
  ASSUME NEW q, \A i \in Rank : q[i] = <<>>, NEW c, NEW cq, cq = <<c>>, NEW p, NEW wr
  PROVE  Only(q, cq, p, wr) /\ Busy(q, cq)
<1>1. cq # <<>> /\ Len(cq) = 1
  OBVIOUS
<1> QED
  BY <1>1 DEF Only, Busy

(***************************************************************************)
(* Polling the completion leaves nothing.                                  *)
(***************************************************************************)
LEMMA TakeOne ==
  ASSUME NEW q \in [Rank -> Seq(WorkRequest)], NEW cq \in Seq(Completion),
         NEW p, NEW wr, Only(q, cq, p, wr), cq # <<>>
  PROVE  /\ \A o \in Rank : q[o] = <<>>
         /\ Tail(cq) = <<>> /\ ~Busy(q, Tail(cq))
<1>1. Len(cq) = 1
  BY OneEntry DEF Only
<1>2. Tail(cq) = <<>>
  BY <1>1, TailOfOne
<1> QED
  BY <1>2 DEF Only, Busy

(***************************************************************************)
(* Where nothing is outstanding anything may be posted next.               *)
(***************************************************************************)
LEMMA NothingOutstanding ==
  ASSUME NEW q, NEW cq, ~Busy(q, cq), NEW p, NEW wr
  PROVE  Only(q, cq, p, wr)
<1>1. cq = <<>> /\ \A o \in Rank : q[o] = <<>>
  BY DEF Busy
<1>2. Len(cq) <= 1
  BY <1>1, EmptySeq
<1> QED
  BY <1>1, <1>2 DEF Only

(***************************************************************************)
(* What a rank does not touch: the queues of the others stay as they are.  *)
(***************************************************************************)
LEMMA SendFrame ==
  ASSUME NEW q \in Rank, SendQueueOf(q), args' = args, pc'[q] = pc[q], step'[q] = step[q],
         sq'[q] = sq[q], response'[q] = response[q], send_cq'[q] = send_cq[q]
  PROVE  SendQueueOf(q)'
BY DEF SendQueueOf, SendPending, send_request, peer, Only, Busy

(***************************************************************************)
(* The adapter holds at most the send a rank waits for, or its completion. *)
(***************************************************************************)
LEMMA SendQueueStep == TypeOK /\ Control /\ SendQueue /\ [Next]_vars => SendQueue'
<1> SUFFICES ASSUME TypeOK, Control, SendQueue, [Next]_vars, NEW q \in Rank
             PROVE  SendQueueOf(q)'
  BY DEF SendQueue
<1>1. /\ args' = args /\ SendQueueOf(q)
      /\ sq \in [Rank -> [Rank -> Seq(WorkRequest)]]
      /\ response \in [Rank -> [Rank -> {"none", "ack", "nak"}]]
      /\ send_cq \in [Rank -> Seq(Completion)] /\ step \in [Rank -> Nat]
      /\ pc \in [Rank -> {"idle", "post_recv", "post_send", "wait_send",
                          "wait_recv", "threw", "exited", "finished"}]
      /\ sq[q] \in [Rank -> Seq(WorkRequest)] /\ send_cq[q] \in Seq(Completion)
      /\ Only(sq[q], send_cq[q], peer(q), send_request(q))
  BY SameArguments DEF SendQueue, SendQueueOf, TypeOK, TransportTypeOK
<1>2. send_request(q)' = send_request(q)
  BY <1>1 DEF send_request
<1>3. CASE UNCHANGED <<pc, step, sq, response, send_cq>>
  BY <1>1, <1>3, SendFrame
<1>4. ASSUME NEW r \in Rank, Call(r) \/ PostRecv(r) \/ WaitRecv(r) PROVE SendQueueOf(q)'
  <2>1. UNCHANGED <<sq, response, send_cq>>
    BY <1>4 DEF Call, PostRecv, WaitRecv, nic
  <2>2. /\ pc[r] # "wait_send" /\ pc'[r] # "wait_send"
        /\ q # r => pc'[q] = pc[q] /\ step'[q] = step[q]
    BY <1>1, <1>4 DEF Call, PostRecv, WaitRecv
  <2>3. CASE q # r
    BY <1>1, <2>1, <2>2, <2>3, SendFrame
  <2>4. CASE q = r
    <3>1. ~Busy(sq[q], send_cq[q])
      BY <1>1, <2>2, <2>4 DEF SendQueueOf, SendPending
    <3>2. Only(sq[q], send_cq[q], peer(q)', send_request(q)')
      BY <3>1, NothingOutstanding
    <3> QED
      BY <1>1, <2>1, <2>2, <2>4, <3>1, <3>2 DEF SendQueueOf, SendPending
  <2> QED BY <2>3, <2>4
<1>5. ASSUME NEW r \in Rank, PostSend(r) PROVE SendQueueOf(q)'
  <2>1. /\ UNCHANGED <<step, response, send_cq>>
        /\ pc' = [pc EXCEPT ![r] = "wait_send"] /\ pc[r] = "post_send"
        /\ sq' = [sq EXCEPT ![r][peer(r)] = Append(@, send_request(r))]
    BY <1>5 DEF PostSend, post_send, peer, send_request
  <2>2. CASE q # r
    <3>1. sq'[q] = sq[q]
      BY <1>1, <2>1, <2>2
    <3> QED
      BY <1>1, <2>1, <2>2, <3>1, SendFrame
  <2>3. CASE q = r
    <3>1. peer(q) \in Rank
      BY <2>1, <2>3, InTheCall DEF InCall
    <3>2. ~Busy(sq[q], send_cq[q])
      BY <1>1, <2>1, <2>3 DEF SendQueueOf, SendPending
    <3>3. /\ sq'[q][peer(q)] = Append(sq[q][peer(q)], send_request(q))
          /\ \A o \in Rank \ {peer(q)} : sq'[q][o] = sq[q][o]
      BY <1>1, <2>1, <2>3, <3>1
    <3>4. Only(sq'[q], send_cq[q], peer(q), send_request(q)) /\ Busy(sq'[q], send_cq[q])
      BY <1>1, <3>1, <3>2, <3>3, PostOne
    <3>5. \A p \in Rank : response[q][p] = "none"
      BY <1>1, <3>2 DEF SendQueueOf, Busy
    <3>6. peer(q)' = peer(q)
      BY <2>1 DEF peer
    <3> QED
      BY <1>1, <1>2, <2>1, <2>3, <3>4, <3>5, <3>6 DEF SendQueueOf, SendPending
  <2> QED BY <2>2, <2>3
<1>6. ASSUME NEW r \in Rank, WaitSend(r) \/ Throw(r) PROVE SendQueueOf(q)'
  <2>1. /\ UNCHANGED <<step, response, sq>>
        /\ pc' = [pc EXCEPT ![r] = pc'[r]] /\ pc'[r] # "wait_send"
    BY <1>1, <1>6 DEF WaitSend, Throw
  <2>2. CASE q # r
    <3>1. send_cq'[q] = send_cq[q]
      BY <1>1, <1>6, <2>2 DEF WaitSend, Throw, take
    <3> QED
      BY <1>1, <2>1, <2>2, <3>1, SendFrame
  <2>3. CASE q = r
    <3>1. ~Busy(sq[q], send_cq'[q])
      <4>1. CASE send_cq' = send_cq /\ pc[q] # "wait_send"
        BY <1>1, <4>1 DEF SendQueueOf, SendPending
      <4>2. CASE send_cq[q] # <<>> /\ send_cq' = take(send_cq, q)
        <5>1. send_cq'[q] = Tail(send_cq[q])
          BY <1>1, <4>2 DEF take
        <5> QED
          BY <1>1, <4>2, <5>1, TakeOne
      <4> QED
        BY <1>6, <2>3, <4>1, <4>2 DEF WaitSend, Throw, completed, completion_error
    <3>2. Only(sq[q], send_cq'[q], peer(q)', send_request(q)')
      BY <3>1, NothingOutstanding
    <3> QED
      BY <1>1, <2>1, <2>3, <3>1, <3>2 DEF SendQueueOf, SendPending
  <2> QED BY <2>2, <2>3
<1>7. ASSUME NEW r \in Rank, Exit(r) \/ Finish(r) PROVE SendQueueOf(q)'
  <2>1. /\ step' = step /\ destroy(r)
        /\ pc' = [pc EXCEPT ![r] = "exited"] \/ pc' = [pc EXCEPT ![r] = "finished"]
    BY <1>7 DEF Exit, Finish
  <2>2. CASE q # r
    BY <1>1, <2>1, <2>2, SendFrame DEF destroy
  <2>3. CASE q = r
    <3>1. /\ \A p \in Rank : sq'[q][p] = <<>> /\ response'[q][p] = "none"
          /\ send_cq'[q] = <<>>
      BY <1>1, <2>1, <2>3 DEF destroy
    <3>2. ~Busy(sq'[q], send_cq'[q])
      BY <3>1 DEF Busy
    <3>3. Only(sq'[q], send_cq'[q], peer(q)', send_request(q)')
      BY <3>2, NothingOutstanding
    <3> QED
      BY <1>1, <2>1, <2>3, <3>1, <3>2, <3>3 DEF SendQueueOf, SendPending
  <2> QED BY <2>2, <2>3
<1>8. ASSUME NEW s \in Rank, NEW d \in Rank, Deliver(s, d) \/ LengthError(s, d) \/ FlushRecv(s, d),
             UNCHANGED ctl
      PROVE  SendQueueOf(q)'
  <2>1. UNCHANGED <<pc, step, sq, send_cq>>
    BY <1>8 DEF Deliver, LengthError, FlushRecv, ctl
  <2>2. \A p \in Rank : response'[q][p] # "none" => sq[q][p] # <<>>
    <3>1. CASE response' = response
      BY <1>1, <3>1 DEF SendQueueOf
    <3>2. ASSUME NEW answer, sq[s][d] # <<>>, response' = [response EXCEPT ![s][d] = answer]
          PROVE  \A p \in Rank : response'[q][p] # "none" => sq[q][p] # <<>>
      BY <1>1, <3>2 DEF SendQueueOf
    <3> QED
      BY <1>8, <3>1, <3>2 DEF Deliver, LengthError, FlushRecv, Arrived
  <2>3. peer(q)' = peer(q)
    BY <2>1 DEF peer
  <2> QED
    BY <1>1, <1>2, <2>1, <2>2, <2>3 DEF SendQueueOf, SendPending
<1>9. ASSUME NEW s \in Rank, NEW d \in Rank, NEW status, sq[s][d] # <<>>,
             FinishSend(s, d, status), UNCHANGED ctl
      PROVE  SendQueueOf(q)'
  <2>1. /\ UNCHANGED <<pc, step>>
        /\ sq' = [sq EXCEPT ![s][d] = Tail(@)]
        /\ response' = [response EXCEPT ![s][d] = "none"]
        /\ send_cq' = [send_cq EXCEPT ![s] = Append(@, cqe(status, 0))]
    BY <1>9 DEF FinishSend, ctl
  <2>2. CASE q # s
    BY <1>1, <2>1, <2>2, SendFrame
  <2>3. CASE q = s
    <3>1. /\ sq'[q][d] = Tail(sq[q][d]) /\ \A o \in Rank \ {d} : sq'[q][o] = sq[q][o]
          /\ send_cq'[q] = Append(send_cq[q], cqe(status, 0))
      BY <1>1, <2>1, <2>3
    <3>2. /\ Only(sq'[q], send_cq'[q], peer(q), send_request(q)) /\ Busy(sq'[q], send_cq'[q])
          /\ d = peer(q) /\ \A p \in Rank \ {d} : sq[q][p] = <<>>
      <4>1. Only(sq[q], send_cq[q], peer(q), send_request(q)) /\ sq[q][d] # <<>>
        BY <1>1, <1>9, <2>3
      <4>2. /\ d = peer(q) /\ Tail(sq[q][d]) = <<>> /\ send_cq[q] = <<>>
            /\ \A p \in Rank \ {d} : sq[q][p] = <<>>
        BY <4>1, OutstandingOne
      <4>3. send_cq'[q] = <<cqe(status, 0)>> /\ \A p \in Rank : sq'[q][p] = <<>>
        BY <3>1, <4>2, AppendToEmpty
      <4> QED BY <4>2, <4>3, CompletionOnly
    <3>3. \A p \in Rank : response'[q][p] = "none"
      BY <1>1, <2>1, <2>3, <3>2 DEF SendQueueOf
    <3>4. SendPending(q)
      BY <1>1, <1>9, <2>3 DEF SendQueueOf, Busy
    <3>5. peer(q)' = peer(q)
      BY <2>1 DEF peer
    <3> QED
      BY <1>2, <2>1, <3>2, <3>3, <3>4, <3>5 DEF SendQueueOf, SendPending
  <2> QED BY <2>2, <2>3
<1>10. ASSUME NEW s \in Rank, NEW d \in Rank,
              Complete(s, d) \/ RetryExceeded(s, d) \/ FlushSend(s, d), UNCHANGED ctl
       PROVE  SendQueueOf(q)'
  BY <1>9, <1>10 DEF Complete, RetryExceeded, FlushSend
<1> QED
  BY <1>3, <1>4, <1>5, <1>6, <1>7, <1>8, <1>10
     DEF Next, RankStep, Work, Nic, AdapterStep, Terminating, vars, nic

(***************************************************************************)
(* The same frame for the receive side.                                    *)
(***************************************************************************)
LEMMA RecvFrame ==
  ASSUME NEW q \in Rank, RecvQueueOf(q), args' = args, pc'[q] = pc[q], step'[q] = step[q],
         rq'[q] = rq[q], recv_cq'[q] = recv_cq[q]
  PROVE  RecvQueueOf(q)'
BY DEF RecvQueueOf, RecvPending, Alive, InCall, recv_request, peer, Only, Busy

(***************************************************************************)
(* The adapter holds at most the receive a rank waits for, or its          *)
(* completion.                                                             *)
(***************************************************************************)
LEMMA RecvQueueStep == TypeOK /\ Control /\ RecvQueue /\ [Next]_vars => RecvQueue'
<1> SUFFICES ASSUME TypeOK, Control, RecvQueue, [Next]_vars, NEW q \in Rank
             PROVE  RecvQueueOf(q)'
  BY DEF RecvQueue
<1>1. /\ args' = args /\ RecvQueueOf(q)
      /\ rq \in [Rank -> [Rank -> Seq(WorkRequest)]]
      /\ recv_cq \in [Rank -> Seq(Completion)] /\ step \in [Rank -> Nat]
      /\ pc \in [Rank -> {"idle", "post_recv", "post_send", "wait_send",
                          "wait_recv", "threw", "exited", "finished"}]
      /\ rq[q] \in [Rank -> Seq(WorkRequest)] /\ recv_cq[q] \in Seq(Completion)
      /\ Only(rq[q], recv_cq[q], peer(q), recv_request(q))
  BY SameArguments DEF RecvQueue, RecvQueueOf, TypeOK, TransportTypeOK
<1>2. recv_request(q)' = recv_request(q)
  BY <1>1 DEF recv_request
<1>3. CASE UNCHANGED <<pc, step, rq, recv_cq>>
  BY <1>1, <1>3, RecvFrame
<1>4. ASSUME NEW r \in Rank, Call(r) PROVE RecvQueueOf(q)'
  <2>1. /\ UNCHANGED <<rq, recv_cq>> /\ pc[r] = "idle"
        /\ pc'[r] \in {"idle", "threw", "post_recv"}
        /\ q # r => pc'[q] = pc[q] /\ step'[q] = step[q]
    BY <1>1, <1>4 DEF Call, nic
  <2>2. CASE q # r
    BY <1>1, <2>1, <2>2, RecvFrame
  <2>3. CASE q = r
    <3>1. ~Busy(rq[q], recv_cq[q])
      BY <1>1, <2>1, <2>3 DEF RecvQueueOf, Alive, RecvPending
    <3>2. Only(rq[q], recv_cq[q], peer(q)', recv_request(q)')
      BY <3>1, NothingOutstanding
    <3> QED
      BY <2>1, <2>3, <3>1, <3>2 DEF RecvQueueOf, RecvPending
  <2> QED BY <2>2, <2>3
<1>5. ASSUME NEW r \in Rank, PostSend(r) \/ WaitSend(r) PROVE RecvQueueOf(q)'
  <2>1. /\ UNCHANGED <<rq, recv_cq, step>>
        /\ pc[r] \in {"post_send", "wait_send"}
        /\ pc'[r] \in {"wait_send", "wait_recv"}
        /\ q # r => pc'[q] = pc[q]
    BY <1>1, <1>5 DEF PostSend, WaitSend
  <2>2. peer(q)' = peer(q)
    BY <2>1 DEF peer
  <2>3. CASE q # r
    BY <1>1, <2>1, <2>3, RecvFrame
  <2>4. CASE q = r
    BY <1>1, <1>2, <2>1, <2>2, <2>4 DEF RecvQueueOf, Alive, InCall, RecvPending
  <2> QED BY <2>3, <2>4
<1>6. ASSUME NEW r \in Rank, PostRecv(r) PROVE RecvQueueOf(q)'
  <2>1. /\ UNCHANGED <<step, recv_cq>>
        /\ pc' = [pc EXCEPT ![r] = "post_send"] /\ pc[r] = "post_recv"
        /\ rq' = [rq EXCEPT ![r][peer(r)] = Append(@, recv_request(r))]
    BY <1>6 DEF PostRecv, post_recv, peer, recv_request
  <2>2. CASE q # r
    <3>1. rq'[q] = rq[q]
      BY <1>1, <2>1, <2>2
    <3> QED
      BY <1>1, <2>1, <2>2, <3>1, RecvFrame
  <2>3. CASE q = r
    <3>1. peer(q) \in Rank
      BY <2>1, <2>3, InTheCall DEF InCall
    <3>2. ~Busy(rq[q], recv_cq[q])
      BY <1>1, <2>1, <2>3 DEF RecvQueueOf, Alive, InCall, RecvPending
    <3>3. /\ rq'[q][peer(q)] = Append(rq[q][peer(q)], recv_request(q))
          /\ \A o \in Rank \ {peer(q)} : rq'[q][o] = rq[q][o]
      BY <1>1, <2>1, <2>3, <3>1
    <3>4. Only(rq'[q], recv_cq[q], peer(q), recv_request(q)) /\ Busy(rq'[q], recv_cq[q])
      BY <1>1, <3>1, <3>2, <3>3, PostOne
    <3>5. peer(q)' = peer(q)
      BY <2>1 DEF peer
    <3> QED
      BY <1>1, <1>2, <2>1, <2>3, <3>4, <3>5 DEF RecvQueueOf, Alive, InCall, RecvPending
  <2> QED BY <2>2, <2>3
<1>7. ASSUME NEW r \in Rank, WaitRecv(r) \/ Throw(r) PROVE RecvQueueOf(q)'
  <2>1. /\ rq' = rq
        /\ q # r => pc'[q] = pc[q] /\ step'[q] = step[q]
    BY <1>1, <1>7 DEF WaitRecv, Throw
  <2>2. CASE q # r
    <3>1. recv_cq'[q] = recv_cq[q]
      BY <1>1, <1>7, <2>2 DEF WaitRecv, Throw, take
    <3> QED
      BY <1>1, <2>1, <2>2, <3>1, RecvFrame
  <2>3. CASE q = r
    <3>1. CASE recv_cq[q] # <<>> /\ recv_cq' = take(recv_cq, q)
      <4>1. recv_cq'[q] = Tail(recv_cq[q])
        BY <1>1, <3>1 DEF take
      <4>2. ~Busy(rq[q], recv_cq'[q])
        BY <1>1, <3>1, <4>1, TakeOne
      <4>3. Only(rq[q], recv_cq'[q], peer(q)', recv_request(q)')
        BY <4>2, NothingOutstanding
      <4>4. pc'[q] \in {"idle", "post_recv", "threw"}
        BY <1>1, <1>7, <2>3 DEF WaitRecv, Throw
      <4> QED
        BY <2>1, <4>2, <4>3, <4>4 DEF RecvQueueOf, RecvPending
    <3>2. CASE recv_cq' = recv_cq /\ step' = step /\ pc'[q] = "threw"
      <4>1. peer(q)' = peer(q)
        BY <3>2 DEF peer
      <4> QED
        BY <1>1, <1>2, <2>1, <3>2, <4>1 DEF RecvQueueOf, Alive, InCall
    <3> QED
      BY <1>1, <1>7, <2>3, <3>1, <3>2
         DEF WaitRecv, Throw, received, completed, completion_error
  <2> QED BY <2>2, <2>3
<1>8. ASSUME NEW r \in Rank, Exit(r) \/ Finish(r) PROVE RecvQueueOf(q)'
  <2>1. /\ step' = step /\ destroy(r)
        /\ pc' = [pc EXCEPT ![r] = "exited"] \/ pc' = [pc EXCEPT ![r] = "finished"]
    BY <1>8 DEF Exit, Finish
  <2>2. CASE q # r
    BY <1>1, <2>1, <2>2, RecvFrame DEF destroy
  <2>3. CASE q = r
    <3>1. (\A p \in Rank : rq'[q][p] = <<>>) /\ recv_cq'[q] = <<>>
      BY <1>1, <2>1, <2>3 DEF destroy
    <3>2. ~Busy(rq'[q], recv_cq'[q])
      BY <3>1 DEF Busy
    <3>3. Only(rq'[q], recv_cq'[q], peer(q)', recv_request(q)')
      BY <3>2, NothingOutstanding
    <3> QED
      BY <1>1, <2>1, <2>3, <3>2, <3>3 DEF RecvQueueOf, RecvPending
  <2> QED BY <2>2, <2>3
<1>9. ASSUME NEW s \in Rank, NEW d \in Rank, NEW c, rq[d][s] # <<>>, UNCHANGED ctl,
             rq' = [rq EXCEPT ![d][s] = Tail(@)],
             recv_cq' = [recv_cq EXCEPT ![d] = Append(@, c)]
      PROVE  RecvQueueOf(q)'
  <2>1. UNCHANGED <<pc, step>>
    BY <1>9 DEF ctl
  <2>2. CASE q # d
    BY <1>1, <1>9, <2>1, <2>2, RecvFrame
  <2>3. CASE q = d
    <3>1. /\ rq'[q][s] = Tail(rq[q][s]) /\ \A o \in Rank \ {s} : rq'[q][o] = rq[q][o]
          /\ recv_cq'[q] = Append(recv_cq[q], c)
      BY <1>1, <1>9, <2>3
    <3>2. Only(rq'[q], recv_cq'[q], peer(q), recv_request(q)) /\ Busy(rq'[q], recv_cq'[q])
      <4>1. Only(rq[q], recv_cq[q], peer(q), recv_request(q)) /\ rq[q][s] # <<>>
        BY <1>1, <1>9, <2>3
      <4>2. /\ Tail(rq[q][s]) = <<>> /\ recv_cq[q] = <<>>
            /\ \A p \in Rank \ {s} : rq[q][p] = <<>>
        BY <4>1, OutstandingOne
      <4>3. recv_cq'[q] = <<c>> /\ \A p \in Rank : rq'[q][p] = <<>>
        BY <3>1, <4>2, AppendToEmpty
      <4> QED BY <4>3, CompletionOnly
    <3>3. Busy(rq[q], recv_cq[q]) /\ peer(q)' = peer(q)
      BY <1>9, <2>1, <2>3 DEF Busy, peer
    <3> QED
      BY <1>1, <1>2, <2>1, <3>2, <3>3 DEF RecvQueueOf, Alive, InCall, RecvPending
  <2> QED BY <2>2, <2>3
<1>10. ASSUME NEW s \in Rank, NEW d \in Rank, Deliver(s, d) \/ LengthError(s, d) \/ FlushRecv(d, s),
              UNCHANGED ctl
       PROVE  RecvQueueOf(q)'
  BY <1>9, <1>10 DEF Deliver, LengthError, FlushRecv, Arrived
<1>11. ASSUME NEW s \in Rank, NEW d \in Rank,
              Complete(s, d) \/ RetryExceeded(s, d) \/ FlushSend(s, d), UNCHANGED ctl
       PROVE  RecvQueueOf(q)'
  <2>1. UNCHANGED <<pc, step, rq, recv_cq>>
    BY <1>11 DEF Complete, RetryExceeded, FlushSend, FinishSend, ctl
  <2> QED BY <1>3, <2>1
<1> QED
  BY <1>3, <1>4, <1>5, <1>6, <1>7, <1>8, <1>10, <1>11
     DEF Next, RankStep, Work, Nic, AdapterStep, Terminating, vars, nic

(***************************************************************************)
(* The program starts with idle ranks and empty queues.                    *)
(***************************************************************************)
LEMMA InitDiscipline == Init => Discipline
<1> SUFFICES ASSUME Init PROVE Discipline
  OBVIOUS
<1>1. TypeOK
  BY CallsAssumption, MaxRoundsAssumption
     DEF Init, TransportInit, TypeOK, TransportTypeOK, Buffer
<1>2. Control
  BY DEF Init, Control, ControlOf, InCall, Returned, Outside
<1>3. ASSUME NEW r \in Rank PROVE SendQueueOf(r) /\ RecvQueueOf(r)
  <2>1. /\ pc[r] = "idle" /\ send_cq[r] = <<>> /\ recv_cq[r] = <<>>
        /\ \A p \in Rank : sq[r][p] = <<>> /\ rq[r][p] = <<>> /\ response[r][p] = "none"
    BY DEF Init, TransportInit
  <2>2. ~Busy(sq[r], send_cq[r]) /\ ~Busy(rq[r], recv_cq[r])
    BY <2>1 DEF Busy
  <2>3. /\ Only(sq[r], send_cq[r], peer(r), send_request(r))
        /\ Only(rq[r], recv_cq[r], peer(r), recv_request(r))
    BY <2>2, NothingOutstanding
  <2> QED
    BY <2>1, <2>2, <2>3 DEF SendQueueOf, RecvQueueOf, SendPending, RecvPending
<1> QED
  BY <1>1, <1>2, <1>3 DEF Discipline, SendQueue, RecvQueue

(***************************************************************************)
(* The queue discipline of recursive doubling.                             *)
(***************************************************************************)
THEOREM DisciplineInvariant == Spec => []Discipline
<1>1. Discipline /\ [Next]_vars => Discipline'
  BY TypeStep, ControlStep, SendQueueStep, RecvQueueStep DEF Discipline
<1> QED
  BY InitDiscipline, <1>1, PTL DEF Spec

(***************************************************************************)
(* OneOutstanding: however the adapters and the ranks interleave, whoever  *)
(* fails, and whichever partners its completions come from, the completion *)
(* wait_completion takes is that of the request just posted.               *)
(***************************************************************************)
THEOREM OneOutstandingTheorem == Spec => []OneOutstanding
<1>1. ASSUME NEW q, NEW cq, NEW r \in Rank, NEW p, NEW wr, Only(q[r], cq[r], p, wr)
      PROVE  AtMostOne(q, cq, r)
  <2>1. Len(<<wr>>) = 1
    OBVIOUS
  <2> QED
    BY <1>1, <2>1 DEF Only, AtMostOne
<1>2. Discipline => OneOutstanding
  BY <1>1 DEF Discipline, SendQueue, RecvQueue, SendQueueOf, RecvQueueOf, OneOutstanding
<1> QED
  BY DisciplineInvariant, <1>2, PTL

-----------------------------------------------------------------------------
(* Partners are matched step by step.                                      *)

(***************************************************************************)
(* A rank that failed stays failed.                                        *)
(***************************************************************************)
LEMMA AliveBefore ==
  ASSUME TypeOK, [Next]_vars, NEW r \in Rank, Alive(r)'
  PROVE  Alive(r)
<1>1. pc \in [Rank -> {"idle", "post_recv", "post_send", "wait_send",
                       "wait_recv", "threw", "exited", "finished"}]
  BY DEF TypeOK
<1> QED
  BY <1>1 DEF Alive, InCall, Next, RankStep, Work, Nic, Terminating, vars, ctl, Call, PostRecv,
              PostSend, WaitSend, WaitRecv, Throw, Exit, Finish

(***************************************************************************)
(* A queue pair that is broken or gone stays so.                           *)
(***************************************************************************)
LEMMA ConnectedBefore ==
  ASSUME TypeOK, [Next]_vars, NEW r \in Rank, NEW p \in Rank, qp'[r][p] = "RTS"
  PROVE  qp[r][p] = "RTS"
<1>1. qp \in [Rank -> [Rank -> {"RTS", "ERR", "GONE"}]]
  BY DEF TypeOK, TransportTypeOK
<1>2. CASE qp' = qp
  BY <1>2
<1>3. ASSUME NEW a \in Rank, NEW b \in Rank, qp' = [qp EXCEPT ![a][b] = "ERR"]
      PROVE  qp[r][p] = "RTS"
  BY <1>1, <1>3
<1>4. ASSUME NEW a \in Rank, destroy(a) PROVE qp[r][p] = "RTS"
  BY <1>1, <1>4 DEF destroy
<1>5. CASE \E a \in Rank : RankStep(a)
  BY <1>2, <1>4, <1>5 DEF RankStep, Work, Call, PostRecv, PostSend, WaitSend, WaitRecv, Throw,
                         Exit, Finish, nic
<1>6. CASE \E a, b \in Rank : Nic(a, b)
  BY <1>2, <1>3, <1>6 DEF Nic, AdapterStep, Deliver, LengthError, Complete, RetryExceeded,
                         FlushSend, FlushRecv, FinishSend
<1> QED
  BY <1>2, <1>5, <1>6 DEF Next, Terminating, vars, nic

(***************************************************************************)
(* Who has a send outstanding waits for it, and it is the one of its step. *)
(***************************************************************************)
LEMMA Sending ==
  ASSUME Discipline, NEW a \in Rank, NEW b \in Rank, sq[a][b] # <<>>
  PROVE  /\ InCall(a) /\ pc[a] = "wait_send" /\ b = peer(a) /\ send_cq[a] = <<>>
         /\ sq[a][b] = <<send_request(a)>> /\ Head(sq[a][b]) = send_request(a)
         /\ Tail(sq[a][b]) = <<>> /\ \A p \in Rank \ {b} : sq[a][p] = <<>>
<1>1. SendQueueOf(a)
  BY DEF Discipline, SendQueue
<1>2. Only(sq[a], send_cq[a], peer(a), send_request(a))
  BY <1>1 DEF SendQueueOf
<1>3. SendPending(a)
  BY <1>1 DEF SendQueueOf, Busy
<1> QED
  BY <1>2, <1>3, OutstandingOne DEF SendPending, InCall

(***************************************************************************)
(* Who has a receive outstanding waits for it, unless it has thrown since, *)
(* and it is the one of its step.                                          *)
(***************************************************************************)
LEMMA Receiving ==
  ASSUME Discipline, NEW a \in Rank, NEW b \in Rank, rq[b][a] # <<>>
  PROVE  /\ a = peer(b) /\ recv_cq[b] = <<>>
         /\ rq[b][a] = <<recv_request(b)>> /\ Head(rq[b][a]) = recv_request(b)
         /\ pc[b] = "threw" \/ (RecvPending(b) /\ InCall(b))
         /\ Alive(b) => RecvPending(b) /\ InCall(b)
<1>1. RecvQueueOf(b)
  BY DEF Discipline, RecvQueue
<1>2. Only(rq[b], recv_cq[b], peer(b), recv_request(b))
  BY <1>1 DEF RecvQueueOf
<1>3. pc[b] = "threw" \/ RecvPending(b)
  BY <1>1 DEF RecvQueueOf, Busy
<1> QED
  BY <1>2, <1>3, OutstandingOne DEF RecvPending, Alive, InCall

(***************************************************************************)
(* A message meets the receive its receiver is waiting with: both partners *)
(* are in the same step of the same call.                                  *)
(***************************************************************************)
LEMMA Matched ==
  ASSUME Discipline, Paired, NEW a \in Rank, NEW b \in Rank, Arrived(a, b), Alive(b)
  PROVE  /\ is_power_of_two /\ step[a] = step[b] /\ round[a] = round[b]
         /\ peer(a) = b /\ peer(b) = a
<1>1. /\ InCall(a) /\ pc[a] = "wait_send" /\ b = peer(a) /\ send_cq[a] = <<>>
      /\ a = peer(b) /\ recv_cq[b] = <<>> /\ InCall(b) /\ RecvPending(b)
  BY Sending, Receiving DEF Arrived
<1>2. /\ is_power_of_two /\ step[a] \in 0 .. steps - 1 /\ step[b] \in 0 .. steps - 1
      /\ round[a] \in 1 .. MaxRounds /\ round[b] \in 1 .. MaxRounds
      /\ partner(b, step[a]) = a
  BY <1>1, InTheCall DEF Discipline
<1>3. partner(b, step[b]) = a
  BY <1>1 DEF peer
<1>4. step[a] = step[b]
  BY <1>2, <1>3, PartnersDiffer
<1>5. Linked(a, partner(a, step[a])) /\ partner(a, step[a]) = b
  BY <1>1 DEF Linked, Arrived, Alive, peer
<1>6. \A it \in 1 .. MaxRounds : Sent(a, it, step[a]) <=> Received(b, it, step[a])
  BY <1>2, <1>5 DEF Paired, PairedOf
<1>7. ~Sent(a, round[a], step[a])
  <2>1. response[a][peer(a)] = "none" /\ round[a] \in Int /\ step[a] \in Int
    BY <1>1, <1>2, MaxRoundsAssumption DEF Arrived, Discipline, TypeOK
  <2> QED
    BY <1>1, <2>1 DEF Sent
<1>8. ~Received(b, round[b], step[b])
  <2>1. round[b] \in Int /\ step[b] \in Int
    BY <1>2, MaxRoundsAssumption DEF Discipline, TypeOK
  <2> QED
    BY <1>1, <2>1 DEF Received, InCall
<1>9. ~(round[b] < round[a])
  BY <1>2, <1>4, <1>6, <1>8 DEF Sent
<1>10. ~(round[a] < round[b])
  BY <1>2, <1>4, <1>6, <1>7 DEF Received
<1>11. round[a] = round[b]
  BY <1>2, <1>9, <1>10, MaxRoundsAssumption
<1> QED
  BY <1>1, <1>2, <1>4, <1>11

(***************************************************************************)
(* Where a step of rank r leaves it.                                       *)
(***************************************************************************)
LEMMA AfterRankStep ==
  ASSUME Discipline, NEW r \in Rank, RankStep(r), Alive(r)'
  PROVE  /\ round \in [Rank -> Nat] /\ step \in [Rank -> Nat]
         /\ \A q \in Rank \ {r} : pc'[q] = pc[q] /\ step'[q] = step[q] /\ round'[q] = round[q]
                                  /\ send_cq'[q] = send_cq[q] /\ recv_cq'[q] = recv_cq[q]
         /\ response' = response /\ qp' = qp
         /\ \/ /\ Call(r) /\ pc[r] = "idle" /\ round'[r] = round[r] + 1 /\ step'[r] = 0
               /\ pc'[r] = IF P = 1 THEN "idle" ELSE "post_recv"
               /\ UNCHANGED <<send_cq, recv_cq>>
            \/ /\ PostRecv(r) /\ pc[r] = "post_recv" /\ pc'[r] = "post_send"
               /\ UNCHANGED <<round, step, send_cq, recv_cq>> /\ recv_cq[r] = <<>>
            \/ /\ PostSend(r) /\ pc[r] = "post_send" /\ pc'[r] = "wait_send"
               /\ UNCHANGED <<round, step, send_cq, recv_cq>> /\ send_cq[r] = <<>>
               /\ \A p \in Rank : response[r][p] = "none"
            \/ /\ WaitSend(r) /\ pc[r] = "wait_send" /\ pc'[r] = "wait_recv"
               /\ UNCHANGED <<round, step, recv_cq>> /\ send_cq[r] # <<>>
            \/ /\ WaitRecv(r) /\ pc[r] = "wait_recv" /\ recv_cq[r] # <<>>
               /\ UNCHANGED <<round, send_cq>>
               /\ pc'[r] = IF last_step(r) THEN "idle" ELSE "post_recv"
               /\ step'[r] = IF last_step(r) THEN 0 ELSE step[r] + 1
<1>1. /\ round \in [Rank -> 0 .. MaxRounds] /\ step \in [Rank -> Nat]
      /\ send_cq \in [Rank -> Seq(Completion)] /\ recv_cq \in [Rank -> Seq(Completion)]
      /\ pc \in [Rank -> {"idle", "post_recv", "post_send", "wait_send",
                          "wait_recv", "threw", "exited", "finished"}]
      /\ SendQueueOf(r) /\ RecvQueueOf(r)
  BY DEF Discipline, TypeOK, TransportTypeOK, SendQueue, RecvQueue
<1>2. round \in [Rank -> Nat]
  BY <1>1, MaxRoundsAssumption
<1>3. CASE Call(r)
  BY <1>1, <1>2, <1>3 DEF Call, nic, Alive, InCall
<1>4. CASE PostRecv(r)
  <2>1. recv_cq[r] = <<>>
    BY <1>1, <1>4 DEF PostRecv, RecvQueueOf, Alive, InCall, RecvPending, Busy
  <2> QED
    BY <1>1, <1>2, <1>4, <2>1 DEF PostRecv
<1>5. CASE PostSend(r)
  <2>1. send_cq[r] = <<>> /\ \A p \in Rank : response[r][p] = "none"
    BY <1>1, <1>5 DEF PostSend, SendQueueOf, SendPending, Busy
  <2> QED
    BY <1>1, <1>2, <1>5, <2>1 DEF PostSend
<1>6. CASE WaitSend(r)
  BY <1>1, <1>2, <1>6 DEF WaitSend, completed, take
<1>7. CASE WaitRecv(r)
  BY <1>1, <1>2, <1>7 DEF WaitRecv, received, completed, take
<1>8. CASE Throw(r) \/ Exit(r) \/ Finish(r)
  BY <1>1, <1>8 DEF Throw, Exit, Finish, Alive, InCall
<1> QED
  BY <1>3, <1>4, <1>5, <1>6, <1>7, <1>8 DEF RankStep, Work

(***************************************************************************)
(* The steps of the ranks do not change what has passed.                   *)
(***************************************************************************)
LEMMA PassedRank ==
  ASSUME Discipline, is_power_of_two, NEW r \in Rank, RankStep(r), NEW q \in Rank, Alive(q)',
         NEW it \in 1 .. MaxRounds, NEW k \in 0 .. steps - 1
  PROVE  /\ Sent(q, it, k)' <=> Sent(q, it, k)
         /\ Received(q, it, k)' <=> Received(q, it, k)
<1>0. it \in Int /\ k \in Int /\ 0 <= k /\ k < steps /\ steps \in Int /\ P # 1
  BY MaxRoundsAssumption, PAssumption, Steps
<1>1. CASE q # r /\ ~Alive(r)'
  <2>1. pc'[r] \in {"threw", "exited", "finished"}
    BY <1>1 DEF RankStep, Work, Call, PostRecv, PostSend, WaitSend, WaitRecv, Throw, Exit,
                Finish, Alive, InCall, Discipline, TypeOK
  <2>2. /\ pc'[q] = pc[q] /\ step'[q] = step[q] /\ round'[q] = round[q]
        /\ send_cq'[q] = send_cq[q] /\ recv_cq'[q] = recv_cq[q] /\ response'[q] = response[q]
    <3>1. /\ round \in [Rank -> 0 .. MaxRounds] /\ step \in [Rank -> Nat]
          /\ send_cq \in [Rank -> Seq(Completion)] /\ recv_cq \in [Rank -> Seq(Completion)]
          /\ pc \in [Rank -> {"idle", "post_recv", "post_send", "wait_send",
                              "wait_recv", "threw", "exited", "finished"}]
          /\ response \in [Rank -> [Rank -> {"none", "ack", "nak"}]]
      BY DEF Discipline, TypeOK, TransportTypeOK
    <3> QED
      BY <1>1, <2>1, <3>1 DEF RankStep, Work, Call, PostRecv, PostSend, WaitSend, WaitRecv, Throw,
                         Exit, Finish, take, destroy, nic
  <2> QED
    BY <2>2 DEF Sent, Received, RecvPending, peer
<1>2. CASE q # r /\ Alive(r)'
  <2>1. /\ pc'[q] = pc[q] /\ step'[q] = step[q] /\ round'[q] = round[q]
        /\ send_cq'[q] = send_cq[q] /\ recv_cq'[q] = recv_cq[q] /\ response' = response
    BY <1>2, AfterRankStep
  <2> QED
    BY <2>1 DEF Sent, Received, RecvPending, peer
<1>3. CASE q = r
  <2>1. round[q] \in Int /\ step[q] \in Int /\ response' = response
    BY <1>3, AfterRankStep
  <2>2. CASE /\ pc[q] = "idle" /\ round'[q] = round[q] + 1 /\ step'[q] = 0
             /\ pc'[q] = "post_recv"
    BY <1>0, <2>1, <2>2 DEF Sent, Received, RecvPending
  <2>3. CASE /\ pc[q] = "post_recv" /\ pc'[q] = "post_send"
             /\ UNCHANGED <<round, step, send_cq, recv_cq>> /\ recv_cq[q] = <<>>
    BY <2>1, <2>3 DEF Sent, Received, RecvPending
  <2>4. CASE /\ pc[q] = "post_send" /\ pc'[q] = "wait_send"
             /\ UNCHANGED <<round, step, send_cq, recv_cq>> /\ send_cq[q] = <<>>
             /\ response[q][peer(q)] = "none"
    BY <2>1, <2>4 DEF Sent, Received, RecvPending, peer
  <2>5. CASE /\ pc[q] = "wait_send" /\ pc'[q] = "wait_recv"
             /\ UNCHANGED <<round, step, recv_cq>> /\ send_cq[q] # <<>>
    BY <2>1, <2>5 DEF Sent, Received, RecvPending
  <2>6. CASE /\ pc[q] = "wait_recv" /\ recv_cq[q] # <<>> /\ UNCHANGED <<round, send_cq>>
             /\ pc'[q] = IF last_step(q) THEN "idle" ELSE "post_recv"
             /\ step'[q] = IF last_step(q) THEN 0 ELSE step[q] + 1
    <3>1. CASE last_step(q)
      <4>1. k < step[q] \/ k = step[q]
        BY <1>0, <2>1, <3>1 DEF last_step
      <4> QED
        BY <2>1, <2>6, <3>1, <4>1 DEF Sent, Received, RecvPending
    <3>2. CASE ~last_step(q)
      <4>1. k < step'[q] <=> k < step[q] \/ k = step[q]
        BY <1>0, <2>1, <2>6, <3>2
      <4> QED
        BY <2>1, <2>6, <3>2, <4>1 DEF Sent, Received, RecvPending
    <3> QED BY <3>1, <3>2
  <2>7. pc[q] = "post_send" => peer(q) \in Rank
    BY InTheCall DEF Discipline, InCall
  <2> QED
    BY <1>0, <1>3, <2>2, <2>3, <2>4, <2>5, <2>6, <2>7, AfterRankStep
<1> QED
  BY <1>1, <1>2, <1>3

(***************************************************************************)
(* The steps of the adapters other than a delivery do not change what has  *)
(* passed between partners that can still talk.                            *)
(***************************************************************************)
LEMMA PassedFinish ==
  ASSUME Discipline, is_power_of_two, NEW a \in Rank, NEW b \in Rank, NEW status,
         sq[a][b] # <<>>, FinishSend(a, b, status), UNCHANGED ctl,
         status = "SUCCESS" => response[a][b] # "none",
         NEW q \in Rank, NEW it \in 1 .. MaxRounds, NEW k \in 0 .. steps - 1
  PROVE  /\ qp'[q][partner(q, k)] = "RTS" => (Sent(q, it, k)' <=> Sent(q, it, k))
         /\ Received(q, it, k)' <=> Received(q, it, k)
<1>1. /\ response \in [Rank -> [Rank -> {"none", "ack", "nak"}]]
      /\ qp \in [Rank -> [Rank -> {"RTS", "ERR", "GONE"}]]
      /\ send_cq \in [Rank -> Seq(Completion)]
  BY DEF Discipline, TypeOK, TransportTypeOK
<1>2. /\ UNCHANGED <<pc, step, round, recv_cq>>
      /\ response' = [response EXCEPT ![a][b] = "none"]
      /\ send_cq' = [send_cq EXCEPT ![a] = Append(@, cqe(status, 0))]
      /\ qp' = IF status = "SUCCESS" THEN qp ELSE [qp EXCEPT ![a][b] = "ERR"]
  BY DEF FinishSend, ctl
<1>3. Received(q, it, k)' <=> Received(q, it, k)
  BY <1>2 DEF Received, RecvPending
<1>4. CASE q # a
  <2>1. response'[q] = response[q] /\ send_cq'[q] = send_cq[q]
    BY <1>1, <1>2, <1>4
  <2> QED
    BY <1>2, <1>3, <2>1 DEF Sent, peer
<1>5. CASE q = a
  <2>1. pc[q] = "wait_send" /\ b = peer(q) /\ send_cq[q] = <<>>
    BY <1>5, Sending
  <2>2. send_cq'[q] # <<>>
    <3>1. send_cq'[q] = Append(send_cq[q], cqe(status, 0))
      BY <1>1, <1>2, <1>5
    <3> QED
      BY <2>1, <3>1, AppendToEmpty
  <2>3. CASE k # step[q]
    BY <1>2, <1>3, <2>3 DEF Sent
  <2>4. CASE k = step[q] /\ qp'[q][partner(q, k)] = "RTS"
    <3>1. partner(q, k) = b
      BY <2>1, <2>4 DEF peer
    <3>2. status = "SUCCESS"
      BY <1>1, <1>2, <1>5, <2>4, <3>1
    <3>3. response[q][peer(q)] # "none"
      BY <1>5, <2>1, <3>2
    <3> QED
      BY <1>2, <1>3, <2>1, <2>2, <2>4, <3>3 DEF Sent
  <2> QED
    BY <1>3, <2>3, <2>4
<1> QED
  BY <1>4, <1>5

(***************************************************************************)
(* What a delivery, an overlong message or a flushed receive changes.      *)
(***************************************************************************)
LEMMA PassedArrival ==
  ASSUME Discipline, is_power_of_two, NEW a \in Rank, NEW b \in Rank, rq[b][a] # <<>>,
         NEW c, recv_cq' = [recv_cq EXCEPT ![b] = Append(@, c)],
         UNCHANGED ctl, send_cq' = send_cq,
         NEW q \in Rank, Alive(q), NEW it \in 1 .. MaxRounds, NEW k \in 0 .. steps - 1
  PROVE  /\ ~(q = b /\ k = step[b]) => (Received(q, it, k)' <=> Received(q, it, k))
         /\ q = b /\ k = step[b] =>
              /\ partner(q, k) = a
              /\ Received(q, it, k)' <=> Received(q, it, k) \/ it = round[q]
         /\ response' = response => (Sent(q, it, k)' <=> Sent(q, it, k))
<1>1. UNCHANGED <<pc, step, round>> /\ recv_cq \in [Rank -> Seq(Completion)]
  BY DEF ctl, Discipline, TypeOK, TransportTypeOK
<1>2. response' = response => (Sent(q, it, k)' <=> Sent(q, it, k))
  BY <1>1 DEF Sent, peer
<1>3. CASE q # b
  <2>1. recv_cq'[q] = recv_cq[q]
    BY <1>1, <1>3
  <2> QED
    BY <1>1, <1>2, <1>3, <2>1 DEF Received, RecvPending
<1>4. CASE q = b
  <2>1. a = peer(q) /\ recv_cq[q] = <<>> /\ RecvPending(q)
    BY <1>4, Receiving
  <2>2. recv_cq'[q] # <<>>
    <3>1. recv_cq'[q] = Append(recv_cq[q], c)
      BY <1>1, <1>4
    <3> QED
      BY <2>1, <3>1, AppendToEmpty
  <2>3. CASE k # step[q]
    BY <1>1, <1>2, <1>4, <2>3 DEF Received, RecvPending
  <2>4. CASE k = step[q]
    BY <1>1, <1>2, <1>4, <2>1, <2>2, <2>4 DEF Received, RecvPending, peer
  <2> QED BY <2>3, <2>4
<1> QED
  BY <1>3, <1>4

(***************************************************************************)
(* What an answer of the receiver changes at the sender.                   *)
(***************************************************************************)
LEMMA PassedAnswer ==
  ASSUME Discipline, is_power_of_two, NEW a \in Rank, NEW b \in Rank, Arrived(a, b),
         NEW answer \in {"ack", "nak"}, response' = [response EXCEPT ![a][b] = answer],
         UNCHANGED ctl, send_cq' = send_cq,
         NEW q \in Rank, NEW it \in 1 .. MaxRounds, NEW k \in 0 .. steps - 1
  PROVE  /\ ~(q = a /\ k = step[a]) => (Sent(q, it, k)' <=> Sent(q, it, k))
         /\ q = a /\ k = step[a] =>
              /\ partner(q, k) = b
              /\ Sent(q, it, k)' <=> Sent(q, it, k) \/ it = round[q]
<1>1. /\ UNCHANGED <<pc, step, round>>
      /\ response \in [Rank -> [Rank -> {"none", "ack", "nak"}]]
  BY DEF ctl, Discipline, TypeOK, TransportTypeOK
<1>2. CASE q # a
  <2>1. response'[q] = response[q]
    BY <1>1, <1>2
  <2> QED
    BY <1>1, <1>2, <2>1 DEF Sent, peer
<1>3. CASE q = a
  <2>1. b = peer(q) /\ pc[q] = "wait_send"
    BY <1>3, Sending DEF Arrived
  <2>2. response'[q][b] # "none"
    BY <1>1, <1>3
  <2>3. CASE k # step[q]
    BY <1>1, <1>3, <2>3 DEF Sent
  <2>4. CASE k = step[q]
    <3>1. peer(q)' = peer(q)
      BY <1>1 DEF peer
    <3>2. partner(q, k) = b
      BY <2>1, <2>4 DEF peer
    <3> QED
      BY <1>1, <1>3, <2>1, <2>2, <2>4, <3>1, <3>2 DEF Sent
  <2> QED BY <2>3, <2>4
<1> QED
  BY <1>2, <1>3

(***************************************************************************)
(* Partners that can still talk agree on what has passed between them.     *)
(***************************************************************************)
LEMMA PairedStep == Discipline /\ Paired /\ [Next]_vars => Paired'
<1> SUFFICES ASSUME Discipline, Paired, [Next]_vars, is_power_of_two, NEW s \in Rank,
                    NEW k \in 0 .. steps - 1, Linked(s, partner(s, k))',
                    NEW it \in 1 .. MaxRounds
             PROVE  Sent(s, it, k)' <=> Received(partner(s, k), it, k)'
  <2>1. is_power_of_two' = is_power_of_two
    BY DEF is_power_of_two
  <2> QED
    BY <2>1 DEF Paired, PairedOf
<1> DEFINE d == partner(s, k)
<1>1. d \in Rank /\ d # s /\ partner(d, k) = s
  BY Partners
<1> HIDE DEF d
<1>2. /\ Alive(s)' /\ Alive(d)' /\ qp'[s][d] = "RTS" /\ qp'[d][s] = "RTS"
  BY DEF Linked, d
<1>3. /\ Alive(s) /\ Alive(d) /\ Linked(s, d)
  BY <1>1, <1>2, AliveBefore, ConnectedBefore DEF Linked, Discipline
<1>4. Sent(s, it, k) <=> Received(d, it, k)
  BY <1>3 DEF Paired, PairedOf, d
<1>5. CASE UNCHANGED vars
  BY <1>4, <1>5 DEF vars, nic, Sent, Received, RecvPending, peer, d
<1>6. ASSUME NEW r \in Rank, RankStep(r)
      PROVE  Sent(s, it, k)' <=> Received(d, it, k)'
  BY <1>1, <1>2, <1>4, <1>6, PassedRank
<1>7. ASSUME NEW a \in Rank, NEW b \in Rank, Complete(a, b) \/ RetryExceeded(a, b) \/ FlushSend(a, b),
             UNCHANGED ctl
      PROVE  Sent(s, it, k)' <=> Received(d, it, k)'
  <2>1. PICK status : /\ sq[a][b] # <<>> /\ FinishSend(a, b, status)
                      /\ status = "SUCCESS" => response[a][b] # "none"
    BY <1>7 DEF Complete, RetryExceeded, FlushSend
  <2>2. /\ Sent(s, it, k)' <=> Sent(s, it, k)
        /\ Received(d, it, k)' <=> Received(d, it, k)
    BY <1>1, <1>2, <1>7, <2>1, PassedFinish DEF d
  <2> QED BY <1>4, <2>2
<1>8. ASSUME NEW a \in Rank, NEW b \in Rank, FlushRecv(b, a), UNCHANGED ctl
      PROVE  Sent(s, it, k)' <=> Received(d, it, k)'
  <2>1. /\ rq[b][a] # <<>> /\ recv_cq' = [recv_cq EXCEPT ![b] = Append(@, cqe("WR_FLUSH_ERR", 0))]
        /\ send_cq' = send_cq /\ response' = response /\ qp' = qp /\ qp[b][a] = "ERR"
    BY <1>8 DEF FlushRecv
  <2>2. Sent(s, it, k)' <=> Sent(s, it, k)
    BY <1>3, <1>8, <2>1, PassedArrival
  <2>3. ~(d = b /\ k = step[b])
    <3>1. a = peer(b)
      BY <2>1, Receiving
    <3> QED BY <1>1, <1>2, <2>1, <3>1 DEF peer
  <2>4. Received(d, it, k)' <=> Received(d, it, k)
    BY <1>1, <1>3, <1>8, <2>1, <2>3, PassedArrival
  <2> QED BY <1>4, <2>2, <2>4
<1>9. ASSUME NEW a \in Rank, NEW b \in Rank, LengthError(a, b), UNCHANGED ctl
      PROVE  Sent(s, it, k)' <=> Received(d, it, k)'
  <2>1. /\ Arrived(a, b) /\ rq[b][a] # <<>> /\ send_cq' = send_cq
        /\ recv_cq' = [recv_cq EXCEPT ![b] = Append(@, cqe("LOC_LEN_ERR", 0))]
        /\ response' = [response EXCEPT ![a][b] = "nak"] /\ qp' = [qp EXCEPT ![b][a] = "ERR"]
        /\ qp \in [Rank -> [Rank -> {"RTS", "ERR", "GONE"}]]
    BY <1>9 DEF LengthError, Arrived, Discipline, TypeOK, TransportTypeOK
  <2>2. qp'[b][a] = "ERR"
    BY <2>1
  <2>3. ~(s = a /\ k = step[a])
    <3>1. b = peer(a)
      BY <2>1, Sending DEF Arrived
    <3> QED BY <1>2, <2>2, <3>1 DEF peer, d
  <2>4. ~(d = b /\ k = step[b])
    <3>1. a = peer(b)
      BY <2>1, Receiving
    <3> QED BY <1>1, <1>2, <2>2, <3>1 DEF peer
  <2>5. Sent(s, it, k)' <=> Sent(s, it, k)
    BY <1>9, <2>1, <2>3, PassedAnswer
  <2>6. Received(d, it, k)' <=> Received(d, it, k)
    BY <1>1, <1>3, <1>9, <2>1, <2>4, PassedArrival
  <2> QED BY <1>4, <2>5, <2>6
<1>10. ASSUME NEW a \in Rank, NEW b \in Rank, Deliver(a, b), UNCHANGED ctl
      PROVE  Sent(s, it, k)' <=> Received(d, it, k)'
  <2>1. /\ Arrived(a, b) /\ rq[b][a] # <<>> /\ send_cq' = send_cq
        /\ \E c : recv_cq' = [recv_cq EXCEPT ![b] = Append(@, c)]
        /\ response' = [response EXCEPT ![a][b] = "ack"]
    BY <1>10 DEF Deliver, Arrived
  <2>2. /\ ~(s = a /\ k = step[a]) => (Sent(s, it, k)' <=> Sent(s, it, k))
        /\ s = a /\ k = step[a] =>
              d = b /\ (Sent(s, it, k)' <=> Sent(s, it, k) \/ it = round[s])
    <3>1. b = peer(a)
      BY <2>1, Sending DEF Arrived
    <3>2. s = a /\ k = step[a] => d = b
      BY <3>1 DEF peer, d
    <3> QED BY <1>10, <2>1, <3>2, PassedAnswer
  <2>3. /\ ~(d = b /\ k = step[b]) => (Received(d, it, k)' <=> Received(d, it, k))
        /\ d = b /\ k = step[b] =>
              s = a /\ (Received(d, it, k)' <=> Received(d, it, k) \/ it = round[d])
    <3>1. a = peer(b)
      BY <2>1, Receiving
    <3>2. d = b /\ k = step[b] => s = a
      BY <1>1, <3>1 DEF peer
    <3>3. PICK c : recv_cq' = [recv_cq EXCEPT ![b] = Append(@, c)]
      BY <2>1
    <3>4. CASE d = b /\ k = step[b]
      BY <1>1, <1>3, <1>10, <2>1, <3>2, <3>3, <3>4, PassedArrival
    <3>5. CASE ~(d = b /\ k = step[b])
      BY <1>1, <1>3, <1>10, <2>1, <3>3, <3>5, PassedArrival
    <3> QED BY <3>4, <3>5
  <2>4. (s = a /\ d = b) => step[a] = step[b] /\ round[a] = round[b]
    BY <1>3, <2>1, Matched
  <2> QED
    BY <1>4, <2>2, <2>3, <2>4
<1> QED
  BY <1>5, <1>6, <1>7, <1>8, <1>9, <1>10
     DEF Next, Nic, AdapterStep, Terminating, d

-----------------------------------------------------------------------------
(* What a rank has heard of, and what it holds.                            *)

(***************************************************************************)
(* A rank's step leaves the others alone.                                  *)
(***************************************************************************)
LEMMA OtherRanks ==
  ASSUME Discipline, NEW r \in Rank, RankStep(r), NEW q \in Rank, q # r
  PROVE  /\ pc'[q] = pc[q] /\ step'[q] = step[q] /\ round'[q] = round[q]
         /\ recv_cq'[q] = recv_cq[q] /\ send_cq'[q] = send_cq[q]
         /\ qp'[q] = qp[q] /\ response'[q] = response[q]
         /\ \A b \in Buffer, e \in Index : mem'[q][b][e] = mem[q][b][e]
<1>1. /\ round \in [Rank -> 0 .. MaxRounds] /\ step \in [Rank -> Nat]
      /\ send_cq \in [Rank -> Seq(Completion)] /\ recv_cq \in [Rank -> Seq(Completion)]
      /\ pc \in [Rank -> {"idle", "post_recv", "post_send", "wait_send",
                          "wait_recv", "threw", "exited", "finished"}]
      /\ response \in [Rank -> [Rank -> {"none", "ack", "nak"}]]
      /\ qp \in [Rank -> [Rank -> {"RTS", "ERR", "GONE"}]]
  BY DEF Discipline, TypeOK, TransportTypeOK
<1>2. /\ pc'[q] = pc[q] /\ step'[q] = step[q] /\ round'[q] = round[q]
      /\ recv_cq'[q] = recv_cq[q] /\ send_cq'[q] = send_cq[q]
      /\ qp'[q] = qp[q] /\ response'[q] = response[q]
  BY <1>1 DEF RankStep, Work, Call, PostRecv, PostSend, WaitSend, WaitRecv, Throw, Exit,
              Finish, take, destroy, nic
<1>3. ASSUME NEW b \in Buffer, NEW e \in Index PROVE mem'[q][b][e] = mem[q][b][e]
  <2>1. CASE mem' = mem
    BY <2>1
  <2>2. CASE Call(r) \/ WaitRecv(r)
    BY <2>2 DEF Call, WaitRecv
  <2> QED
    BY <2>1, <2>2 DEF RankStep, Work, PostRecv, PostSend, WaitSend, Throw, Exit, Finish
<1> QED
  BY <1>2, <1>3

(***************************************************************************)
(* Rounds are only begun.                                                  *)
(***************************************************************************)
LEMMA RoundsGrow ==
  ASSUME Discipline, [Next]_vars, NEW q \in Rank
  PROVE  round[q] \in Nat /\ round'[q] \in Nat /\ round'[q] >= round[q]
<1>1. round \in [Rank -> 0 .. MaxRounds] /\ MaxRounds \in Nat
  BY MaxRoundsAssumption DEF Discipline, TypeOK
<1>2. CASE round' = round
  BY <1>1, <1>2
<1>3. ASSUME NEW r \in Rank, Call(r)
      PROVE  round[q] \in Nat /\ round'[q] \in Nat /\ round'[q] >= round[q]
  BY <1>1, <1>3 DEF Call
<1> QED
  BY <1>2, <1>3 DEF Next, RankStep, Work, Nic, Terminating, vars, ctl, PostRecv, PostSend,
                    WaitSend, WaitRecv, Throw, Exit, Finish

(***************************************************************************)
(* Who has entered a call stays entered.                                   *)
(***************************************************************************)
LEMMA EnteredKept ==
  ASSUME Discipline, [Next]_vars, NEW r \in Rank, NEW p \in Rank, NEW S \in SUBSET Rank,
         round'[r] = round[r], Entered(S, r, p)
  PROVE  Entered(S, r, p)'
<1>1. \A s \in Rank : round[s] \in Nat /\ round'[s] \in Nat /\ round'[s] >= round[s]
  BY RoundsGrow
<1>2. args' = args /\ \A s \in Rank : bad_arguments(s)' = bad_arguments(s)
  BY SameArguments
<1> QED
  BY <1>1, <1>2 DEF Entered

(***************************************************************************)
(* A rank that does not move has still heard what it has heard.            *)
(***************************************************************************)
LEMMA HeardFrame ==
  ASSUME Discipline, [Next]_vars, NEW q \in Rank, HeardOf(q), pc'[q] = pc[q],
         step'[q] = step[q], round'[q] = round[q], recv_cq'[q] = recv_cq[q]
  PROVE  HeardOf(q)'
<1>1. /\ args' = args /\ peer(q)' = peer(q) /\ InCall(q)' = InCall(q)
      /\ Landed(q)' = Landed(q) /\ Returned(q)' = Returned(q)
      /\ wc(recv_cq, q)' = wc(recv_cq, q)
  BY SameArguments DEF peer, InCall, Landed, RecvPending, Returned, Outside, wc
<1>2. InCall(q) => peer(q) \in Rank
  BY InTheCall DEF Discipline
<1>3. \A p, k : Block(p, k) \in SUBSET Rank
  BY DEF Block
<1>4. InCall(q) => Entered(Block(q, step[q]), q, q)'
  BY <1>3, EnteredKept DEF HeardOf
<1>5. InCall(q) /\ Landed(q) => Entered(Block(peer(q), step[q]), q, peer(q))'
  <2> SUFFICES ASSUME InCall(q), Landed(q)
               PROVE  Entered(Block(peer(q), step[q]), q, peer(q))'
    OBVIOUS
  <2> DEFINE p == peer(q)
             B == Block(p, step[q])
  <2>1. p \in Rank /\ B \in SUBSET Rank /\ Entered(B, q, p)
    BY <1>2, <1>3 DEF HeardOf
  <2>2. p' = p /\ B' = B
    BY <1>1 DEF Block
  <2> QED
    BY <1>1, <2>1, <2>2, RoundsGrow, SameArguments DEF Entered
<1>6. Returned(q) => Entered(Rank, q, q)'
  BY EnteredKept DEF HeardOf
<1> QED
  BY <1>1, <1>4, <1>5, <1>6 DEF HeardOf, Block

(***************************************************************************)
(* With the message of a step a rank has heard of the next larger block.   *)
(***************************************************************************)
LEMMA HeardWaitRecv ==
  ASSUME Discipline, [Next]_vars, LengthsTell, NEW q \in Rank, HeardOf(q), WaitRecv(q)
  PROVE  HeardOf(q)'
<1>1. /\ is_power_of_two /\ step[q] \in 0 .. steps - 1 /\ peer(q) \in Rank
      /\ args[q].count \in Nat /\ InCall(q)
  <2>1. InCall(q)
    BY DEF WaitRecv, InCall
  <2> QED BY <2>1, InTheCall DEF Discipline
<1>2. /\ Landed(q) /\ wc(recv_cq, q).byte_len = args[q].count
  BY DEF WaitRecv, received, completed, Landed, RecvPending
<1>3. /\ Entered(Block(q, step[q]), q, q)
      /\ Entered(Block(peer(q), step[q]), q, peer(q))
      /\ args[peer(q)].count % SgeLimit = args[q].count
  BY <1>1, <1>2 DEF HeardOf
<1>4. args[peer(q)].count = args[q].count
  <2>1. CASE SameCount
    BY <1>1, <2>1 DEF SameCount
  <2>2. CASE \A r \in Rank : args[r].count < SgeLimit
    <3>1. args[peer(q)].count \in Nat /\ args[peer(q)].count < SgeLimit
      BY <1>1, <2>2 DEF Discipline, TypeOK, Arg
    <3> QED BY <1>3, <3>1, SgeLimitAssumption
  <2> QED BY <2>1, <2>2 DEF LengthsTell
<1>5. Entered(Block(q, step[q] + 1), q, q)
  <2>1. Block(q, step[q] + 1) = Block(q, step[q]) \cup Block(peer(q), step[q])
    BY <1>1, Blocks DEF peer
  <2> QED BY <1>3, <1>4, <2>1 DEF Entered
<1>6. /\ round' = round /\ step'[q] = (IF last_step(q) THEN 0 ELSE step[q] + 1)
      /\ pc'[q] = IF last_step(q) THEN "idle" ELSE "post_recv"
  BY DEF WaitRecv, Discipline, TypeOK
<1>7. ~Landed(q)'
  BY <1>6 DEF Landed, RecvPending
<1>8. \A s \in Block(q, step[q] + 1) :
        round'[s] >= round'[q] /\ ~bad_arguments(s)' /\ args'[s].count = args'[q].count
  <2>1. args' = args /\ \A r \in Rank : bad_arguments(r)' = bad_arguments(r)
    BY SameArguments
  <2>2. Block(q, step[q] + 1) \subseteq Rank
    BY DEF Block
  <2> QED
    BY <1>5, <1>6, <2>1, <2>2 DEF Entered
<1>9. CASE last_step(q)
  <2>1. Block(q, step[q] + 1) = Rank
    BY <1>1, <1>9, Blocks DEF last_step
  <2>2. Entered(Rank, q, q)'
    BY <1>8, <2>1 DEF Entered
  <2> QED
    BY <1>6, <1>9, <2>2 DEF HeardOf, InCall
<1>10. CASE ~last_step(q)
  <2>1. Block(q, step[q])' = Block(q, step[q] + 1)
    BY <1>6, <1>10 DEF Block
  <2>2. Entered(Block(q, step[q]), q, q)'
    BY <1>8, <2>1 DEF Entered
  <2> QED
    BY <1>6, <1>7, <1>10, <2>2 DEF HeardOf, Returned, Outside
<1> QED
  BY <1>9, <1>10

(***************************************************************************)
(* With a delivery a rank hears of the block of its partner.               *)
(***************************************************************************)
LEMMA HeardDeliver ==
  ASSUME Discipline, Paired, [Next]_vars, NEW a \in Rank, NEW q \in Rank, Alive(q),
         HeardOf(a), HeardOf(q), Deliver(a, q), UNCHANGED ctl
  PROVE  HeardOf(q)'
<1>1. /\ is_power_of_two /\ step[a] = step[q] /\ round[a] = round[q]
      /\ peer(a) = q /\ peer(q) = a /\ InCall(a) /\ InCall(q)
      /\ Head(sq[a][q]) = send_request(a)
  BY Matched, Sending, Receiving DEF Deliver, Arrived
<1>2. /\ UNCHANGED <<pc, step, round, args>>
      /\ recv_cq' = [recv_cq EXCEPT ![q] = Append(@, cqe("SUCCESS", args[a].count % SgeLimit))]
  <2>1. send_request(a).len = args[a].count % SgeLimit
    BY DEF send_request, sge
  <2>2. recv_cq' = [recv_cq EXCEPT ![q] = Append(@, cqe("SUCCESS", Head(sq[a][q]).len))]
    BY DEF Deliver
  <2> QED BY <1>1, <2>1, <2>2 DEF ctl
<1>3. recv_cq'[q] = <<cqe("SUCCESS", args[a].count % SgeLimit)>>
  <2>1. recv_cq[q] = <<>> /\ recv_cq \in [Rank -> Seq(Completion)]
    BY Receiving DEF Deliver, Arrived, Discipline, TypeOK, TransportTypeOK
  <2> QED BY <1>2, <2>1, AppendToEmpty
<1>4. wc(recv_cq, q)'.byte_len = args'[peer(q)'].count % SgeLimit
  <2>1. wc(recv_cq, q)' = cqe("SUCCESS", args[a].count % SgeLimit) /\ peer(q)' = a
    BY <1>1, <1>2, <1>3 DEF wc, peer
  <2> QED BY <1>2, <2>1 DEF cqe
<1>5. Entered(Block(a, step[a]), a, a)
  BY <1>1 DEF HeardOf
<1>6. Entered(Block(peer(q), step[q]), q, peer(q))'
  <2>1. Block(peer(q), step[q])' = Block(a, step[a])
    BY <1>1, <1>2 DEF Block, peer
  <2>2. peer(q)' = a
    BY <1>1, <1>2 DEF peer
  <2> QED
    BY <1>1, <1>2, <1>5, <2>1, <2>2, SameArguments DEF Entered, Block
<1>7. Entered(Block(q, step[q]), q, q)'
  <2>1. Block(q, step[q])' = Block(q, step[q]) /\ Entered(Block(q, step[q]), q, q)
    BY <1>1, <1>2 DEF Block, HeardOf
  <2> QED
    BY <1>2, <2>1, SameArguments DEF Entered, Block
<1>8. ~Returned(q)'
  BY <1>1, <1>2 DEF Returned, Outside, InCall
<1> QED
  BY <1>4, <1>6, <1>7, <1>8 DEF HeardOf

(***************************************************************************)
(* A rank that reaches a step has heard of its block.                      *)
(***************************************************************************)
LEMMA HeardStep == Discipline /\ Paired /\ Heard /\ [Next]_vars => Heard'
<1> SUFFICES ASSUME Discipline, Paired, [Next]_vars, LengthsTell, Heard, NEW q \in Rank
             PROVE  HeardOf(q)'
  BY SameArguments DEF Heard
<1>1. /\ HeardOf(q) /\ args' = args /\ bad_arguments(q)' = bad_arguments(q)
      /\ round \in [Rank -> 0 .. MaxRounds] /\ step \in [Rank -> Nat]
      /\ recv_cq \in [Rank -> Seq(Completion)]
      /\ pc \in [Rank -> {"idle", "post_recv", "post_send", "wait_send",
                          "wait_recv", "threw", "exited", "finished"}]
  BY SameArguments DEF Heard, Discipline, TypeOK, TransportTypeOK
<1>2. CASE UNCHANGED <<pc, step, round, recv_cq>>
  BY <1>1, <1>2, HeardFrame
<1>3. ASSUME NEW r \in Rank, r # q, RankStep(r) PROVE HeardOf(q)'
  BY <1>1, <1>3, HeardFrame, OtherRanks
<1>4. CASE ~Alive(q)'
  <2>1. CASE pc'[q] = "finished"
    <3>1. Outside(q) /\ round'[q] = round[q] /\ ~InCall(q)'
      BY <1>1, <2>1
         DEF Next, RankStep, Work, Nic, Terminating, vars, ctl, Call, PostRecv, PostSend,
             WaitSend, WaitRecv, Throw, Exit, Finish, Outside, InCall
    <3>2. Returned(q)' => Entered(Rank, q, q)
      BY <1>1, <3>1 DEF HeardOf, Returned
    <3> QED
      BY <3>1, <3>2, EnteredKept DEF HeardOf
  <2>2. CASE pc'[q] # "finished"
    BY <1>4, <2>2 DEF HeardOf, Alive, Returned, Outside
  <2> QED BY <2>1, <2>2
<1>5. CASE RankStep(q) /\ Alive(q)'
  <2>1. CASE WaitRecv(q)
    BY <1>1, <2>1, HeardWaitRecv
  <2>2. CASE Call(q)
    <3>1. ~bad_arguments(q)
      BY <1>1, <1>5, <2>2 DEF Call, Alive, InCall
    <3>2. is_power_of_two
      BY <3>1 DEF bad_arguments
    <3>3. /\ pc'[q] = (IF P = 1 THEN "idle" ELSE "post_recv") /\ step'[q] = 0
      BY <1>1, <2>2, <3>1 DEF Call
    <3>4. Entered({q}, q, q)'
      BY <1>1, <3>1, RoundsGrow DEF Entered
    <3>5. CASE P = 1
      <4>1. Rank = {q}
        BY <3>5 DEF Rank
      <4> QED
        BY <3>3, <3>4, <3>5, <4>1 DEF HeardOf, InCall
    <3>6. CASE P # 1
      <4>1. Block(q, step[q])' = {q}
        BY <3>2, <3>3, Blocks DEF Block
      <4> QED
        BY <3>3, <3>4, <3>6, <4>1 DEF HeardOf, Landed, RecvPending, Returned, Outside
    <3> QED BY <3>5, <3>6
  <2>3. CASE PostRecv(q) \/ PostSend(q) \/ WaitSend(q)
    <3>1. /\ UNCHANGED <<step, round, recv_cq>> /\ InCall(q) /\ ~Returned(q)'
      BY <1>1, <2>3 DEF PostRecv, PostSend, WaitSend, InCall, Returned, Outside
    <3>2. Landed(q)' => Landed(q)
      <4>1. CASE PostRecv(q)
        <5>1. recv_cq[q] = <<>>
          BY <1>5, <4>1, AfterRankStep DEF PostRecv, PostSend, Call, WaitSend, WaitRecv
        <5> QED BY <3>1, <5>1 DEF Landed
      <4>2. CASE PostSend(q) \/ WaitSend(q)
        BY <3>1, <4>2 DEF PostSend, WaitSend, Landed, RecvPending, wc
      <4> QED BY <2>3, <4>1, <4>2
    <3>3. peer(q)' = peer(q) /\ wc(recv_cq, q)' = wc(recv_cq, q)
      BY <3>1 DEF peer, wc
    <3>4. Entered(Block(q, step[q]), q, q)'
      <4>1. Entered(Block(q, step[q]), q, q) /\ Block(q, step[q])' = Block(q, step[q])
        BY <1>1, <3>1 DEF HeardOf, Block
      <4> QED
        BY <3>1, <4>1, SameArguments DEF Entered, Block
    <3>5. Landed(q)' => /\ Entered(Block(peer(q), step[q]), q, peer(q))'
                        /\ wc(recv_cq, q)'.byte_len = args'[peer(q)'].count % SgeLimit
      <4> SUFFICES ASSUME Landed(q)'
                   PROVE  /\ Entered(Block(peer(q), step[q]), q, peer(q))'
                          /\ wc(recv_cq, q)'.byte_len = args'[peer(q)'].count % SgeLimit
        OBVIOUS
      <4>1. /\ Entered(Block(peer(q), step[q]), q, peer(q))
            /\ wc(recv_cq, q).byte_len = args[peer(q)].count % SgeLimit
        BY <1>1, <3>1, <3>2 DEF HeardOf
      <4>2. Block(peer(q), step[q])' = Block(peer(q), step[q])
        BY <3>1, <3>3 DEF Block
      <4> QED
        BY <1>1, <3>1, <3>3, <4>1, <4>2, SameArguments DEF Entered, Block
    <3> QED BY <3>1, <3>4, <3>5 DEF HeardOf
  <2> QED
    BY <1>1, <1>5, <2>1, <2>2, <2>3 DEF RankStep, Work, Throw, Exit, Finish, Alive, InCall
<1>6. ASSUME NEW a \in Rank, NEW b \in Rank, Deliver(a, b), UNCHANGED ctl PROVE HeardOf(q)'
  <2>1. CASE q # b
    <3>1. UNCHANGED <<pc, step, round>> /\ recv_cq'[q] = recv_cq[q]
      BY <1>1, <1>6, <2>1 DEF Deliver, ctl
    <3> QED BY <1>1, <3>1, HeardFrame
  <2>2. CASE q = b /\ Alive(q)
    BY <1>1, <1>6, <2>2, HeardDeliver DEF Heard
  <2>3. CASE ~Alive(q)
    BY <1>4, <1>6, <2>3 DEF Alive, InCall, ctl
  <2> QED BY <2>1, <2>2, <2>3
<1>7. ASSUME NEW a \in Rank, NEW b \in Rank, LengthError(a, b) \/ FlushRecv(b, a), UNCHANGED ctl
      PROVE  HeardOf(q)'
  <2>0. UNCHANGED <<pc, step, round>>
    BY <1>7 DEF ctl
  <2>1. CASE q # b
    <3>1. recv_cq'[q] = recv_cq[q]
      BY <1>1, <1>7, <2>1 DEF LengthError, FlushRecv
    <3> QED BY <1>1, <2>0, <3>1, HeardFrame
  <2>2. CASE q = b
    <3>1. PICK status \in Status \ {"SUCCESS"} :
            /\ rq[q][a] # <<>>
            /\ recv_cq' = [recv_cq EXCEPT ![q] = Append(@, cqe(status, 0))]
      BY <1>7, <2>2 DEF LengthError, FlushRecv, Arrived, Status
    <3>2. recv_cq'[q] = <<cqe(status, 0)>>
      BY <1>1, <3>1, Receiving, AppendToEmpty
    <3>3. ~Landed(q)'
      BY <3>2 DEF Landed, wc, cqe
    <3>4. InCall(q) => Entered(Block(q, step[q]), q, q)'
      <4>1. Block(q, step[q])' = Block(q, step[q])
        BY <2>0 DEF Block
      <4> QED
        BY <1>1, <2>0, <4>1, SameArguments DEF HeardOf, Entered, Block
    <3>5. Returned(q)' => Entered(Rank, q, q)'
      BY <1>1, <2>0, SameArguments DEF HeardOf, Entered, Returned, Outside
    <3> QED
      BY <2>0, <3>3, <3>4, <3>5 DEF HeardOf, InCall
  <2> QED BY <2>1, <2>2
<1>8. ASSUME NEW a \in Rank, NEW b \in Rank,
             Complete(a, b) \/ RetryExceeded(a, b) \/ FlushSend(a, b), UNCHANGED ctl
      PROVE  HeardOf(q)'
  BY <1>2, <1>8 DEF Complete, RetryExceeded, FlushSend, FinishSend, ctl
<1> QED
  BY <1>2, <1>3, <1>4, <1>5, <1>6, <1>7, <1>8
     DEF Next, Nic, AdapterStep, Terminating, vars, nic

(***************************************************************************)
(* A rank that does not move and whose memory is left alone holds what it  *)
(* held.                                                                   *)
(***************************************************************************)
LEMMA ValuesFrame ==
  ASSUME NEW q \in Rank, ValuesOf(q), args' = args, pc'[q] = pc[q], step'[q] = step[q],
         round'[q] = round[q],
         \A b \in Buffer, e \in Index : mem'[q][b][e] = mem[q][b][e],
         Landed(q)' => Landed(q) /\ wc(recv_cq, q)' = wc(recv_cq, q)
  PROVE  ValuesOf(q)'
<1>1. peer(q)' = peer(q) /\ InCall(q)' = InCall(q) /\ Returned(q)' = Returned(q)
  BY DEF peer, InCall, Returned, Outside
<1>2. \A e \in Index : /\ mem'[q]["data"][e] = mem[q]["data"][e]
                       /\ mem'[q]["scratch"][e] = mem[q]["scratch"][e]
  BY DEF Buffer
<1> QED
  BY <1>1, <1>2 DEF ValuesOf

(***************************************************************************)
(* The message of a step brings the tree of the partner's block.           *)
(***************************************************************************)
LEMMA ValuesDeliver ==
  ASSUME Discipline, Paired, NEW a \in Rank, NEW q \in Rank, Alive(q),
         ValuesOf(a), ValuesOf(q), Deliver(a, q), UNCHANGED ctl
  PROVE  ValuesOf(q)'
<1>1. /\ is_power_of_two /\ step[a] = step[q] /\ round[a] = round[q]
      /\ peer(a) = q /\ peer(q) = a /\ InCall(a) /\ InCall(q)
      /\ Head(sq[a][q]) = send_request(a) /\ Head(rq[q][a]) = recv_request(q)
  BY Matched, Sending, Receiving DEF Deliver, Arrived
<1>2. /\ send_request(a).len = args[a].count % SgeLimit /\ send_request(a).off = 0
      /\ send_request(a).buf = "data"
      /\ recv_request(q).off = 0 /\ recv_request(q).buf = "scratch"
  BY DEF send_request, recv_request, sge
<1>3. /\ args[a].count \in Nat /\ args[a].count % SgeLimit \in Nat
      /\ args[a].count % SgeLimit <= args[a].count
  BY <1>1, InTheCall, SgeLimitAssumption DEF Discipline
<1>4. /\ UNCHANGED <<pc, step, round, args>> /\ mem' = dma(a, send_request(a), q, recv_request(q))
      /\ recv_cq' = [recv_cq EXCEPT ![q] = Append(@, cqe("SUCCESS", send_request(a).len))]
  BY <1>1 DEF ctl, Deliver
<1>5. wc(recv_cq, q)'.byte_len = args[a].count % SgeLimit
  <2>1. recv_cq[q] = <<>> /\ recv_cq \in [Rank -> Seq(Completion)]
    BY Receiving DEF Deliver, Arrived, Discipline, TypeOK, TransportTypeOK
  <2>2. recv_cq'[q] = <<cqe("SUCCESS", send_request(a).len)>>
    BY <1>4, <2>1, AppendToEmpty
  <2> QED BY <1>2, <2>2 DEF wc, cqe
<1>6. ASSUME NEW e \in Index PROVE mem'[q]["data"][e] = mem[q]["data"][e]
  BY <1>2, <1>4 DEF dma, Buffer
<1>7. ASSUME NEW e \in Index, e < args[a].count % SgeLimit
      PROVE  mem'[q]["scratch"][e] = mem[a]["data"][e]
  <2>1. e \in Int /\ 0 <= e
    BY SpanAssumption DEF Index
  <2>2. e \in 0 .. (args[a].count % SgeLimit) - 1
    BY <1>3, <1>7, <2>1
  <2> DEFINE snd == send_request(a)
             rcv == recv_request(q)
  <2>3. /\ rcv.off .. rcv.off + snd.len - 1 = 0 .. (args[a].count % SgeLimit) - 1
        /\ snd.off + (e - rcv.off) = e /\ snd.buf = "data" /\ rcv.buf = "scratch"
    BY <1>2, <1>3, <2>1
  <2>4. mem' = dma(a, snd, q, rcv)
    BY <1>4
  <2> HIDE DEF snd, rcv
  <2>5. mem'[q]["scratch"][e] =
          IF "scratch" = rcv.buf /\ e \in rcv.off .. rcv.off + snd.len - 1
          THEN mem[a][snd.buf][snd.off + (e - rcv.off)] ELSE mem[q]["scratch"][e]
    BY <1>7, <2>4 DEF dma, Buffer
  <2> QED
    BY <2>2, <2>3, <2>5
<1>8. ASSUME NEW e \in Index, e < args[a].count % SgeLimit
      PROVE  mem'[q]["scratch"][e] = Tree(round[q], e)[step[q]][a]
  <2>1. e < args[a].count
    BY <1>3, <1>8, SpanAssumption DEF Index
  <2>2. mem[a]["data"][e] = Tree(round[a], e)[step[a]][a]
    BY <1>1, <2>1 DEF ValuesOf
  <2> QED BY <1>1, <1>7, <1>8, <2>2
<1>9. peer(q)' = a /\ InCall(q)' /\ ~Returned(q)'
  BY <1>1, <1>4 DEF peer, InCall, Returned, Outside
<1> QED
  BY <1>1, <1>4, <1>5, <1>6, <1>8, <1>9 DEF ValuesOf

(***************************************************************************)
(* reduce_inplace makes the tree of the next larger block.                 *)
(***************************************************************************)
LEMMA ValuesWaitRecv ==
  ASSUME Discipline, NEW q \in Rank, ValuesOf(q), WaitRecv(q)
  PROVE  ValuesOf(q)'
<1>1. InCall(q)
  BY DEF WaitRecv, InCall
<1>2. is_power_of_two /\ step[q] \in 0 .. steps - 1
  BY <1>1, InTheCall DEF Discipline
<1>3. Landed(q) /\ wc(recv_cq, q).byte_len = args[q].count
  BY DEF WaitRecv, received, completed, Landed, RecvPending
<1>4. /\ round' = round /\ args' = args /\ step'[q] = (IF last_step(q) THEN 0 ELSE step[q] + 1)
      /\ pc'[q] = IF last_step(q) THEN "idle" ELSE "post_recv"
  BY DEF WaitRecv, Discipline, TypeOK
<1>5. ASSUME NEW e \in Index, e < args[q].count
      PROVE  mem'[q]["data"][e] = Tree(round[q], e)[step[q] + 1][q]
  <2>1. /\ mem[q]["data"][e] = Tree(round[q], e)[step[q]][q]
        /\ mem[q]["scratch"][e] = Tree(round[q], e)[step[q]][partner(q, step[q])]
    BY <1>1, <1>3, <1>5 DEF ValuesOf, peer
  <2>2. mem'[q]["data"][e] = Op(mem[q]["data"][e], mem[q]["scratch"][e])
    BY <1>5 DEF WaitRecv, Buffer
  <2>3. Tree(round[q], e)[step[q] + 1][q] =
          Op(Tree(round[q], e)[step[q]][q], Tree(round[q], e)[step[q]][partner(q, step[q])])
    BY <1>2, TreeDef
  <2> QED BY <2>1, <2>2, <2>3
<1>6. ~Landed(q)'
  BY <1>4 DEF Landed, RecvPending
<1>7. CASE last_step(q)
  <2>1. step[q] + 1 = steps /\ ~InCall(q)'
    BY <1>4, <1>7 DEF last_step, InCall
  <2> QED
    BY <1>4, <1>5, <1>6, <2>1 DEF ValuesOf, TreeFold
<1>8. CASE ~last_step(q)
  <2>1. ~Returned(q)'
    BY <1>4, <1>8 DEF Returned, Outside
  <2> QED
    BY <1>4, <1>5, <1>6, <1>8, <2>1 DEF ValuesOf
<1> QED
  BY <1>7, <1>8

(***************************************************************************)
(* Every buffer holds the tree its rank's step says.                       *)
(***************************************************************************)
LEMMA ValuesStep == Discipline /\ Paired /\ Values /\ [Next]_vars => Values'
<1> SUFFICES ASSUME Discipline, Paired, [Next]_vars, Values, NEW q \in Rank
             PROVE  ValuesOf(q)'
  BY DEF Values
<1>1. /\ ValuesOf(q) /\ args' = args
      /\ round \in [Rank -> 0 .. MaxRounds] /\ step \in [Rank -> Nat]
      /\ recv_cq \in [Rank -> Seq(Completion)]
      /\ pc \in [Rank -> {"idle", "post_recv", "post_send", "wait_send",
                          "wait_recv", "threw", "exited", "finished"}]
  BY SameArguments DEF Values, Discipline, TypeOK, TransportTypeOK
<1>2. CASE UNCHANGED <<pc, step, round, recv_cq, mem>>
  BY <1>1, <1>2, ValuesFrame DEF Landed, RecvPending, wc
<1>3. ASSUME NEW r \in Rank, r # q, RankStep(r) PROVE ValuesOf(q)'
  <2>1. /\ pc'[q] = pc[q] /\ step'[q] = step[q] /\ round'[q] = round[q]
        /\ recv_cq'[q] = recv_cq[q]
        /\ \A b \in Buffer, e \in Index : mem'[q][b][e] = mem[q][b][e]
    BY <1>3, OtherRanks
  <2>2. Landed(q)' => Landed(q) /\ wc(recv_cq, q)' = wc(recv_cq, q)
    BY <2>1 DEF Landed, RecvPending, wc
  <2> QED BY <1>1, <2>1, <2>2, ValuesFrame
<1>4. CASE ~Alive(q)' /\ pc'[q] # "finished"
  BY <1>4 DEF ValuesOf, Alive, Returned, Outside
<1>5. CASE RankStep(q) /\ Alive(q)'
  <2>1. CASE WaitRecv(q)
    BY <1>1, <2>1, ValuesWaitRecv
  <2>2. CASE Call(q)
    <3>1. ~bad_arguments(q)
      BY <1>1, <1>5, <2>2 DEF Call, Alive, InCall
    <3>2. is_power_of_two /\ args[q].count \in Nat /\ args[q].mr \in Int
          /\ args[q].count <= args[q].mr
      BY <3>1, SpanAssumption DEF bad_arguments, Discipline, TypeOK, Arg
    <3>3. /\ pc'[q] = (IF P = 1 THEN "idle" ELSE "post_recv") /\ step'[q] = 0
          /\ round'[q] = round[q] + 1
      BY <1>1, <2>2, <3>1 DEF Call
    <3>4. ASSUME NEW e \in Index, e < args[q].count
          PROVE  mem'[q]["data"][e] = Tree(round'[q], e)[0][q]
      <4>1. e < args[q].mr
        BY <3>2, <3>4, SpanAssumption DEF Index
      <4>2. mem'[q]["data"][e] = Input(q, round[q] + 1, e)
        BY <2>2, <3>4, <4>1 DEF Call, Buffer
      <4>3. Tree(round'[q], e)[0][q] = Input(q, round'[q], e)
        BY <3>2, TreeDef
      <4> QED BY <3>3, <4>2, <4>3
    <3>5. ~Landed(q)'
      BY <3>3 DEF Landed, RecvPending
    <3>6. P = 1 => steps = 0
      BY <3>2, Steps
    <3> QED
      BY <1>1, <3>3, <3>4, <3>5, <3>6 DEF ValuesOf, TreeFold, Returned, Outside, InCall
  <2>3. CASE PostRecv(q) \/ PostSend(q) \/ WaitSend(q)
    <3>1. /\ UNCHANGED <<step, round, recv_cq, mem>> /\ InCall(q) /\ ~Returned(q)'
      BY <1>1, <2>3 DEF PostRecv, PostSend, WaitSend, InCall, Returned, Outside
    <3>2. Landed(q)' => Landed(q)
      <4>1. CASE PostRecv(q)
        <5>1. recv_cq[q] = <<>>
          BY <1>5, <4>1, AfterRankStep DEF PostRecv, PostSend, Call, WaitSend, WaitRecv
        <5> QED BY <3>1, <5>1 DEF Landed
      <4>2. CASE PostSend(q) \/ WaitSend(q)
        BY <3>1, <4>2 DEF PostSend, WaitSend, Landed, RecvPending, wc
      <4> QED BY <2>3, <4>1, <4>2
    <3>3. peer(q)' = peer(q) /\ wc(recv_cq, q)' = wc(recv_cq, q)
      BY <3>1 DEF peer, wc
    <3> QED
      BY <1>1, <3>1, <3>2, <3>3 DEF ValuesOf
  <2> QED
    BY <1>1, <1>5, <2>1, <2>2, <2>3 DEF RankStep, Work, Throw, Exit, Finish, Alive, InCall
<1>6. ASSUME NEW a \in Rank, NEW b \in Rank, Deliver(a, b), UNCHANGED ctl PROVE ValuesOf(q)'
  <2>1. CASE q # b
    <3>1. UNCHANGED <<pc, step, round>> /\ recv_cq'[q] = recv_cq[q]
      BY <1>1, <1>6, <2>1 DEF Deliver, ctl
    <3>2. \A c \in Buffer, e \in Index : mem'[q][c][e] = mem[q][c][e]
      BY <1>6, <2>1 DEF Deliver, dma
    <3>3. Landed(q)' => Landed(q) /\ wc(recv_cq, q)' = wc(recv_cq, q)
      BY <3>1 DEF Landed, RecvPending, wc
    <3> QED BY <1>1, <3>1, <3>2, <3>3, ValuesFrame
  <2>2. CASE q = b /\ Alive(q)
    BY <1>1, <1>6, <2>2, ValuesDeliver DEF Values
  <2>3. CASE q = b /\ ~Alive(q)
    <3>1. pc[q] = "threw"
      BY <1>6, <2>3, Receiving DEF Deliver, Arrived, Alive
    <3> QED BY <1>4, <1>6, <3>1 DEF Alive, InCall, ctl
  <2> QED BY <2>1, <2>2, <2>3
<1>7. ASSUME NEW a \in Rank, NEW b \in Rank, LengthError(a, b) \/ FlushRecv(b, a), UNCHANGED ctl
      PROVE  ValuesOf(q)'
  <2>0. UNCHANGED <<pc, step, round, mem>>
    BY <1>7 DEF ctl, LengthError, FlushRecv
  <2>1. Landed(q)' => Landed(q) /\ wc(recv_cq, q)' = wc(recv_cq, q)
    <3>1. CASE q # b
      <4>1. recv_cq'[q] = recv_cq[q]
        BY <1>1, <1>7, <3>1 DEF LengthError, FlushRecv
      <4> QED BY <2>0, <4>1 DEF Landed, RecvPending, wc
    <3>2. CASE q = b
      <4>1. PICK status \in Status \ {"SUCCESS"} :
              /\ rq[q][a] # <<>>
              /\ recv_cq' = [recv_cq EXCEPT ![q] = Append(@, cqe(status, 0))]
        BY <1>7, <3>2 DEF LengthError, FlushRecv, Arrived, Status
      <4>2. recv_cq'[q] = <<cqe(status, 0)>>
        BY <1>1, <4>1, Receiving, AppendToEmpty
      <4> QED BY <4>2 DEF Landed, wc, cqe
    <3> QED BY <3>1, <3>2
  <2> QED BY <1>1, <2>0, <2>1, ValuesFrame
<1>8. ASSUME NEW a \in Rank, NEW b \in Rank,
             Complete(a, b) \/ RetryExceeded(a, b) \/ FlushSend(a, b), UNCHANGED ctl
      PROVE  ValuesOf(q)'
  BY <1>2, <1>8 DEF Complete, RetryExceeded, FlushSend, FinishSend, ctl
<1>9. CASE Finish(q)
  <2>1. /\ pc[q] = "idle" /\ pc'[q] = "finished" /\ UNCHANGED <<round, mem>>
    BY <1>1, <1>9 DEF Finish
  <2> QED
    BY <1>1, <2>1 DEF ValuesOf, InCall, Returned, Outside
<1>10. CASE RankStep(q)
  <2>1. pc'[q] = "finished" => Finish(q)
    BY <1>1, <1>10 DEF RankStep, Work, Call, PostRecv, PostSend, WaitSend, WaitRecv, Throw,
                       Exit
  <2> QED BY <1>4, <1>5, <1>9, <1>10, <2>1
<1> QED
  BY <1>2, <1>3, <1>6, <1>7, <1>8, <1>10
     DEF Next, Nic, AdapterStep, Terminating, vars, nic

-----------------------------------------------------------------------------
(* The invariant, and what a caller is told.                               *)

(***************************************************************************)
(* Before the first call nothing has passed between any two ranks.         *)
(***************************************************************************)
LEMMA InitPassed == Init => Paired /\ Heard /\ Values
<1> SUFFICES ASSUME Init PROVE Paired /\ Heard /\ Values
  OBVIOUS
<1>1. \A r \in Rank : pc[r] = "idle" /\ round[r] = 0 /\ step[r] = 0
  BY DEF Init
<1>2. ASSUME NEW r \in Rank, NEW it \in 1 .. MaxRounds, NEW k \in 0 .. steps - 1
      PROVE  ~Sent(r, it, k) /\ ~Received(r, it, k)
  BY <1>1, MaxRoundsAssumption DEF Sent, Received
<1>3. Paired
  BY <1>2, Partners DEF Paired, PairedOf
<1>4. \A r \in Rank : ~InCall(r) /\ ~Returned(r)
  BY <1>1 DEF InCall, Returned, Outside
<1> QED
  BY <1>3, <1>4 DEF Heard, HeardOf, Values, ValuesOf

(***************************************************************************)
(* DoublingInv holds throughout, for every number of ranks and whatever    *)
(* they pass: what a rank holds at each step is the tree over the ranks it *)
(* has heard of, and those have all entered its call.                      *)
(***************************************************************************)
THEOREM DoublingInvariant == Spec => []DoublingInv
<1>1. Init => DoublingInv
  BY InitDiscipline, InitPassed DEF DoublingInv
<1>2. DoublingInv /\ [Next]_vars => DoublingInv'
  BY TypeStep, ControlStep, SendQueueStep, RecvQueueStep, PairedStep, HeardStep, ValuesStep
     DEF DoublingInv, Discipline
<1> QED
  BY <1>1, <1>2, PTL DEF Spec

(***************************************************************************)
(* FailsEverywhere: a count the ranks do not agree on, a buffer that is    *)
(* too small on one of them, or a number of ranks that is not a power of   *)
(* two makes the call succeed on no rank.                                  *)
(***************************************************************************)
THEOREM FailsEverywhereTheorem == Spec => []FailsEverywhere
<1>1. DoublingInv => FailsEverywhere
  <2> SUFFICES ASSUME DoublingInv, LengthsTell, NEW r \in Rank, Returned(r)
               PROVE  SameCount /\ \A s \in Rank : ~bad_arguments(s)
    BY DEF FailsEverywhere
  <2>1. Entered(Rank, r, r)
    BY DEF DoublingInv, Heard, HeardOf
  <2> QED
    BY <2>1 DEF Entered, SameCount
<1> QED
  BY <1>1, DoublingInvariant, PTL

(***************************************************************************)
(* A rank's block at one step: the same partners' block for all of it.     *)
(***************************************************************************)
LEMMA BlockPartners ==
  ASSUME is_power_of_two, NEW k \in 0 .. steps - 1, NEW r \in Rank, NEW s \in Rank
  PROVE  /\ s \in Block(r, k) => partner(s, k) \in Block(partner(r, k), k)
         /\ s \in Block(partner(r, k), k) => partner(s, k) \in Block(r, k)
<1>1. ASSUME NEW u \in Rank, NEW v \in Rank, u \in Block(v, k)
      PROVE  partner(u, k) \in Block(partner(v, k), k)
  <2>1. u \div bit[k] = v \div bit[k]
    BY <1>1 DEF Block
  <2>2. partner(u, k) \div bit[k] = partner(v, k) \div bit[k]
    BY <2>1, Partners
  <2> QED
    BY <2>2, Partners DEF Block
<1> QED
  BY <1>1, Partners

(***************************************************************************)
(* With such a reduction the ranks of a block hold the same tree: the two  *)
(* partners of an exchange combine the same two values, each its own one   *)
(* first.                                                                  *)
(***************************************************************************)
LEMMA TreeAgrees ==
  ASSUME is_power_of_two, NEW V, Commutes(V), NEW it \in 1 .. MaxRounds, NEW e \in Index,
         NEW k \in 0 .. steps
  PROVE  \A r \in Rank : /\ Tree(it, e)[k][r] \in V
                         /\ \A s \in Block(r, k) : Tree(it, e)[k][s] = Tree(it, e)[k][r]
<1> DEFINE T == Tree(it, e)
           Good(j) == \A r \in Rank : /\ T[j][r] \in V
                                      /\ \A s \in Block(r, j) : T[j][s] = T[j][r]
           Bad == {j \in 0 .. steps : ~Good(j)}
<1>1. steps \in Nat /\ Bad \subseteq Nat
  BY Steps, PAssumption
<1>2. Good(0)
  <2>1. \A r \in Rank : T[0][r] = Input(r, it, e)
    BY TreeDef
  <2> QED
    BY <2>1, Blocks DEF Commutes
<1>3. ASSUME NEW j \in 0 .. steps - 1, Good(j) PROVE Good(j + 1)
  <2> SUFFICES ASSUME NEW r \in Rank
               PROVE  /\ T[j + 1][r] \in V
                      /\ \A s \in Block(r, j + 1) : T[j + 1][s] = T[j + 1][r]
    OBVIOUS
  <2>1. \A s \in Rank : T[j + 1][s] = Op(T[j][s], T[j][partner(s, j)])
    BY TreeDef
  <2>2. partner(r, j) \in Rank /\ T[j][r] \in V /\ T[j][partner(r, j)] \in V
    BY <1>3, Partners
  <2>3. ASSUME NEW s \in Block(r, j) PROVE T[j + 1][s] = T[j + 1][r]
    <3>1. s \in Rank /\ partner(s, j) \in Block(partner(r, j), j)
      BY <2>3, BlockPartners DEF Block
    <3>2. T[j][s] = T[j][r] /\ T[j][partner(s, j)] = T[j][partner(r, j)]
      BY <1>3, <2>2, <2>3, <3>1
    <3> QED BY <2>1, <3>1, <3>2
  <2>4. ASSUME NEW s \in Block(partner(r, j), j) PROVE T[j + 1][s] = T[j + 1][r]
    <3>1. s \in Rank /\ partner(s, j) \in Block(r, j)
      BY <2>4, BlockPartners DEF Block
    <3>2. T[j][s] = T[j][partner(r, j)] /\ T[j][partner(s, j)] = T[j][r]
      BY <1>3, <2>2, <2>4, <3>1
    <3> QED BY <2>1, <2>2, <3>1, <3>2 DEF Commutes
  <2>5. Block(r, j + 1) = Block(r, j) \cup Block(partner(r, j), j)
    BY Blocks
  <2> QED
    BY <2>1, <2>2, <2>3, <2>4, <2>5 DEF Commutes
<1>4. Bad = {}
  <2> SUFFICES ASSUME Bad # {} PROVE FALSE
    OBVIOUS
  <2> HIDE DEF Good
  <2>1. PICK n \in Bad : \A m \in Bad : n <= m
    BY <1>1, Least
  <2>2. n # 0 /\ n \in 0 .. steps
    BY <1>2, <2>1
  <2>3. n - 1 \in 0 .. steps - 1 /\ n - 1 \in 0 .. steps /\ n - 1 < n /\ n - 1 + 1 = n
    BY <1>1, <2>2
  <2>4. Good(n - 1)
    BY <1>1, <2>1, <2>2, <2>3
  <2>5. Good(n - 1 + 1)
    BY <1>3, <2>3, <2>4
  <2> QED
    BY <2>1, <2>3, <2>5
<1> QED
  BY <1>4

(***************************************************************************)
(* SameAnswer, the "complete answer" of allreduce_recursive_doubling.hpp:  *)
(* ranks that have returned from the same call hold the same data,         *)
(* provided the reduction commutes on the values they bring.  (Integer     *)
(* reductions do; std::min and std::max on floats do not when a NaN is     *)
(* among them, as the run rec_doubling_nan shows.)                         *)
(***************************************************************************)
THEOREM SameAnswerTheorem ==
  ASSUME NEW V, Commutes(V)
  PROVE  Spec => []SameAnswer
<1>1. DoublingInv => SameAnswer
  <2> SUFFICES ASSUME DoublingInv, SameCount, NEW r \in Rank, NEW s \in Rank, Returned(r),
                      Returned(s), round[r] = round[s], NEW e \in Index, e < args[r].count
               PROVE  mem[r]["data"][e] = mem[s]["data"][e]
    BY DEF SameAnswer
  <2>1. is_power_of_two /\ round[r] \in 1 .. MaxRounds
    BY MaxRoundsAssumption
       DEF DoublingInv, Discipline, TypeOK, Control, ControlOf, bad_arguments, Returned, Outside
  <2>2. /\ mem[r]["data"][e] = TreeFold(round[r], e)[r]
        /\ mem[s]["data"][e] = TreeFold(round[r], e)[s]
    BY DEF DoublingInv, Values, ValuesOf, SameCount
  <2>3. s \in Block(r, steps) /\ steps \in 0 .. steps
    BY <2>1, Blocks, Steps, PAssumption
  <2>4. TreeFold(round[r], e)[r] = TreeFold(round[r], e)[s]
    BY <2>1, <2>3, TreeAgrees DEF TreeFold
  <2> QED
    BY <2>2, <2>4
<1> QED
  BY <1>1, DoublingInvariant, PTL

-----------------------------------------------------------------------------
(* Who throws where everybody agrees.                                      *)

(***************************************************************************)
(* The counts of a well-called collective fit a length.                    *)
(***************************************************************************)
LEMMA WellCalledLengths ==
  ASSUME TypeOK, WellCalled, NEW r \in Rank, NEW s \in Rank
  PROVE  /\ args[r].count \in Nat /\ args[r].count % SgeLimit = args[r].count
         /\ args[s].count = args[r].count /\ LengthsTell
<1>1. args[r].count \in Nat /\ args[r].count < SgeLimit
  BY DEF TypeOK, Arg, WellCalled
<1> QED
  BY <1>1, SgeLimitAssumption DEF WellCalled, SameCount, LengthsTell

(***************************************************************************)
(* A rank leaves main after everybody has entered the last call.           *)
(***************************************************************************)
LEMMA LeftLast ==
  ASSUME DoublingInv, LengthsTell, Left, NEW s \in Rank
  PROVE  round[s] = MaxRounds
<1>1. PICK r \in Rank : pc[r] = "finished"
  BY DEF Left
<1>2. round[r] = MaxRounds /\ round[s] \in 0 .. MaxRounds /\ MaxRounds \in Nat
  BY <1>1, MaxRoundsAssumption DEF DoublingInv, Discipline, Control, ControlOf, TypeOK
<1>3. CASE MaxRounds = 0
  BY <1>2, <1>3
<1>4. CASE MaxRounds > 0
  <2>1. Returned(r)
    BY <1>1, <1>2, <1>4 DEF Returned, Outside
  <2>2. round[s] >= round[r]
    BY <2>1 DEF DoublingInv, Heard, HeardOf, Entered
  <2> QED BY <1>2, <2>2
<1> QED BY <1>2, <1>3, <1>4

(***************************************************************************)
(* A receive of an agreeing rank that did not complete in error has the    *)
(* length it expects.                                                      *)
(***************************************************************************)
LEMMA GoodLength ==
  ASSUME DoublingInv, WellCalled, NEW r \in Rank, pc[r] = "wait_recv",
         completed(recv_cq, r)
  PROVE  received(r)
<1>1. InCall(r) /\ Landed(r) /\ TypeOK /\ peer(r) \in Rank
  BY InTheCall DEF InCall, Landed, RecvPending, completed, DoublingInv, Discipline
<1>2. HeardOf(r)
  BY <1>1, WellCalledLengths DEF DoublingInv, Heard
<1>3. wc(recv_cq, r).byte_len = args[r].count
  BY <1>1, <1>2, WellCalledLengths DEF HeardOf
<1> QED
  BY <1>3 DEF received

(***************************************************************************)
(* So a healthy rank has nothing to throw.                                 *)
(***************************************************************************)
LEMMA NothingToThrow ==
  ASSUME DoublingInv, WellCalled, NEW r \in Rank, HealthyOf(r)
  PROVE  ~Throw(r)
<1>1. ~completion_error(send_cq, r) /\ ~completion_error(recv_cq, r)
  BY DEF HealthyOf, completion_error
<1> QED
  BY <1>1, GoodLength DEF Throw

(***************************************************************************)
(* Between ranks that agree, a message is as long as the receive it meets. *)
(***************************************************************************)
LEMMA NoLengthError ==
  ASSUME Discipline, WellCalled, NEW s \in Rank, NEW d \in Rank
  PROVE  ~LengthError(s, d)
<1> SUFFICES ASSUME LengthError(s, d) PROVE FALSE
  OBVIOUS
<1>1. Head(sq[s][d]) = send_request(s) /\ Head(rq[d][s]) = recv_request(d)
  BY Sending, Receiving DEF LengthError, Arrived
<1>2. /\ send_request(s).len = args[s].count /\ recv_request(d).len = args[s].count
      /\ args[s].count \in Nat
  BY WellCalledLengths DEF Discipline, send_request, recv_request, sge
<1> QED
  BY <1>1, <1>2 DEF LengthError

(* What Sound says of one rank.                                            *)
SoundOf(r) ==
  /\ \A p \in Rank : response[r][p] # "nak"
  /\ Alive(r) => HealthyOf(r) \/ (SendFailed(r) /\ Left)
  /\ Alive(r) \/ Left

(***************************************************************************)
(* Who has left stays away.                                                *)
(***************************************************************************)
LEMMA LeftStays ==
  ASSUME TypeOK, [Next]_vars, Left
  PROVE  Left'
<1>1. PICK r \in Rank : pc[r] = "finished"
  BY DEF Left
<1>2. pc'[r] = "finished"
  BY <1>1 DEF TypeOK, Next, RankStep, Work, Nic, Terminating, vars, ctl, Call, PostRecv,
              PostSend, WaitSend, WaitRecv, Throw, Exit, Finish
<1> QED
  BY <1>1, <1>2 DEF Left

(***************************************************************************)
(* A step of a rank leaves every rank sound.                               *)
(***************************************************************************)
LEMMA SoundRank ==
  ASSUME DoublingInv, [Next]_vars, WellCalled, \A r \in Rank : SoundOf(r),
         NEW r \in Rank, RankStep(r), NEW q \in Rank
  PROVE  SoundOf(q)'
<1>1. /\ SoundOf(q) /\ SoundOf(r) /\ SendQueueOf(q) /\ RecvQueueOf(q) /\ Discipline
      /\ pc \in [Rank -> {"idle", "post_recv", "post_send", "wait_send",
                          "wait_recv", "threw", "exited", "finished"}]
      /\ qp \in [Rank -> [Rank -> {"RTS", "ERR", "GONE"}]]
      /\ response \in [Rank -> [Rank -> {"none", "ack", "nak"}]]
      /\ send_cq \in [Rank -> Seq(Completion)] /\ recv_cq \in [Rank -> Seq(Completion)]
      /\ Left => Left'
  BY LeftStays DEF DoublingInv, Discipline, SendQueue, RecvQueue, TypeOK, TransportTypeOK
<1>2. CASE q # r
  <2>1. /\ pc'[q] = pc[q] /\ qp'[q] = qp[q] /\ response'[q] = response[q]
        /\ send_cq'[q] = send_cq[q] /\ recv_cq'[q] = recv_cq[q]
    BY <1>1, <1>2 DEF RankStep, Work, Call, PostRecv, PostSend, WaitSend, WaitRecv, Throw, Exit,
                      Finish, take, destroy, nic
  <2> QED
    BY <1>1, <2>1
       DEF SoundOf, HealthyOf, SendFailed, completion_error, Alive, InCall, wc
<1>3. CASE q = r /\ (Call(r) \/ PostRecv(r) \/ PostSend(r))
  <2>1. /\ Alive(q) /\ Alive(q)' /\ pc[q] # "wait_send"
        /\ qp' = qp /\ response' = response /\ send_cq' = send_cq /\ recv_cq' = recv_cq
    BY <1>1, <1>3 DEF Call, PostRecv, PostSend, nic, WellCalled, Alive, InCall
  <2> QED
    BY <1>1, <2>1 DEF SoundOf, HealthyOf, SendFailed, wc
<1>4. CASE q = r /\ (WaitSend(r) \/ WaitRecv(r))
  <2>1. /\ Alive(q) /\ Alive(q)' /\ ~SendFailed(q) /\ qp' = qp /\ response' = response
        /\ send_cq' = send_cq \/ (send_cq[q] # <<>> /\ send_cq' = take(send_cq, q))
        /\ recv_cq' = recv_cq \/ (recv_cq[q] # <<>> /\ recv_cq' = take(recv_cq, q))
    BY <1>1, <1>4 DEF WaitSend, WaitRecv, received, completed, completion_error, SendFailed,
                      Alive, InCall
  <2>2. send_cq'[q] = send_cq[q] \/ send_cq'[q] = <<>>
    BY <1>1, <2>1, OneEntry, TailOfOne DEF take, SendQueueOf, Only
  <2>3. recv_cq'[q] = recv_cq[q] \/ recv_cq'[q] = <<>>
    BY <1>1, <2>1, OneEntry, TailOfOne DEF take, RecvQueueOf, Only
  <2> QED
    BY <1>1, <2>1, <2>2, <2>3 DEF SoundOf, HealthyOf, wc
<1>5. CASE q = r /\ Throw(r)
  <2>1. Alive(q) /\ ~Alive(q)' /\ response' = response
    BY <1>1, <1>5 DEF Throw, Alive, InCall
  <2>2. Left
    BY <1>1, <1>5, <2>1, NothingToThrow DEF SoundOf
  <2> QED
    BY <1>1, <2>1, <2>2 DEF SoundOf
<1>6. CASE q = r /\ (Exit(r) \/ Finish(r))
  <2>1. ~Alive(q)' /\ \A p \in Rank : response'[q][p] = "none"
    BY <1>1, <1>6 DEF Exit, Finish, destroy, Alive, InCall
  <2>2. Left'
    <3>1. CASE Exit(r)
      BY <1>1, <3>1 DEF Exit, SoundOf, Alive, InCall
    <3>2. CASE Finish(r)
      BY <1>1, <3>2 DEF Finish, Left
    <3> QED BY <1>6, <3>1, <3>2
  <2> QED
    BY <1>1, <2>1, <2>2 DEF SoundOf
<1> QED
  BY <1>2, <1>3, <1>4, <1>5, <1>6 DEF RankStep, Work

(***************************************************************************)
(* A step of an adapter leaves every rank sound: what can fail is a send   *)
(* to a rank that has gone, or that has seen a send of its own fail.       *)
(***************************************************************************)
LEMMA SoundAdapter ==
  ASSUME DoublingInv, WellCalled, \A r \in Rank : SoundOf(r),
         NEW s \in Rank, NEW d \in Rank, AdapterStep(s, d), UNCHANGED ctl, NEW q \in Rank
  PROVE  SoundOf(q)'
<1>1. /\ SoundOf(q) /\ SoundOf(s) /\ SoundOf(d) /\ Discipline
      /\ qp \in [Rank -> [Rank -> {"RTS", "ERR", "GONE"}]]
      /\ response \in [Rank -> [Rank -> {"none", "ack", "nak"}]]
      /\ send_cq \in [Rank -> Seq(Completion)] /\ recv_cq \in [Rank -> Seq(Completion)]
      /\ pc' = pc /\ (Alive(q)' <=> Alive(q)) /\ (Left' <=> Left)
  BY DEF DoublingInv, Discipline, TypeOK, TransportTypeOK, ctl, Alive, InCall, Left
<1>2. ASSUME sq[s][d] # <<>>
      PROVE  send_cq[s] = <<>> /\ pc[s] = "wait_send" /\ Alive(s) /\ HealthyOf(s)
  <2>1. send_cq[s] = <<>> /\ pc[s] = "wait_send" /\ InCall(s)
    BY <1>1, <1>2, Sending
  <2> QED
    BY <1>1, <2>1 DEF SoundOf, SendFailed, completion_error, Alive
<1>3. CASE Deliver(s, d)
  <2>1. /\ qp' = qp /\ send_cq' = send_cq /\ response' = [response EXCEPT ![s][d] = "ack"]
        /\ recv_cq' = [recv_cq EXCEPT ![d] = Append(@, cqe("SUCCESS", Head(sq[s][d]).len))]
    BY <1>3 DEF Deliver
  <2>2. \A p \in Rank : response'[q][p] # "nak"
    BY <1>1, <2>1 DEF SoundOf
  <2>3. \/ recv_cq'[q] = recv_cq[q]
        \/ recv_cq'[q] # <<>> /\ Head(recv_cq'[q]).status = "SUCCESS"
    <3>1. CASE q # d
      BY <1>1, <2>1, <3>1
    <3>2. CASE q = d
      <4>1. recv_cq[q] = <<>>
        BY <1>1, <1>3, <3>2, Receiving DEF Deliver, Arrived
      <4>2. recv_cq'[q] = Append(<<>>, cqe("SUCCESS", Head(sq[s][d]).len))
        BY <1>1, <2>1, <3>2, <4>1
      <4> QED
        BY <4>2, AppendToEmpty DEF cqe
    <3> QED BY <3>1, <3>2
  <2> QED
    BY <1>1, <2>1, <2>2, <2>3 DEF SoundOf, HealthyOf, SendFailed, completion_error, wc
<1>4. CASE Complete(s, d)
  <2>1. response[s][d] # "nak" /\ sq[s][d] # <<>>
    BY <1>1, <1>4 DEF SoundOf, Complete
  <2>2. /\ qp' = qp /\ recv_cq' = recv_cq /\ response' = [response EXCEPT ![s][d] = "none"]
        /\ send_cq' = [send_cq EXCEPT ![s] = Append(@, cqe("SUCCESS", 0))]
    BY <1>4, <2>1 DEF Complete, FinishSend
  <2>3. \A p \in Rank : response'[q][p] # "nak"
    BY <1>1, <2>2 DEF SoundOf
  <2>4. CASE q # s
    BY <1>1, <2>2, <2>3, <2>4 DEF SoundOf, HealthyOf, SendFailed, completion_error, wc
  <2>5. CASE q = s
    <3>1. send_cq'[q] = Append(<<>>, cqe("SUCCESS", 0))
      BY <1>1, <1>2, <2>1, <2>2, <2>5
    <3>2. Head(send_cq'[q]).status = "SUCCESS"
      BY <3>1, AppendToEmpty DEF cqe
    <3> QED
      BY <1>1, <1>2, <2>1, <2>2, <2>3, <2>5, <3>2 DEF SoundOf, HealthyOf, wc
  <2> QED BY <2>4, <2>5
<1>5. CASE RetryExceeded(s, d)
  <2>1. /\ qp' = [qp EXCEPT ![s][d] = "ERR"] /\ recv_cq' = recv_cq
        /\ response' = [response EXCEPT ![s][d] = "none"]
        /\ send_cq' = [send_cq EXCEPT ![s] = Append(@, cqe("RETRY_EXC_ERR", 0))]
        /\ sq[s][d] # <<>> /\ qp[d][s] # "RTS"
    BY <1>5 DEF RetryExceeded, FinishSend
  <2>2. \A p \in Rank : response'[q][p] # "nak"
    BY <1>1, <2>1 DEF SoundOf
  <2>3. Left
    BY <1>1, <2>1 DEF SoundOf, HealthyOf
  <2>4. CASE q # s
    BY <1>1, <2>1, <2>2, <2>4 DEF SoundOf, HealthyOf, SendFailed, completion_error, wc
  <2>5. CASE q = s
    <3>1. send_cq'[q] = Append(<<>>, cqe("RETRY_EXC_ERR", 0))
      BY <1>1, <1>2, <2>1, <2>5
    <3>2. send_cq'[q] # <<>> /\ Head(send_cq'[q]).status = "RETRY_EXC_ERR"
      BY <3>1, AppendToEmpty DEF cqe
    <3>3. SendFailed(q)'
      BY <1>1, <1>2, <2>1, <2>5, <3>2 DEF SendFailed, completion_error, wc
    <3> QED
      BY <1>1, <2>2, <2>3, <3>3 DEF SoundOf
  <2> QED BY <2>4, <2>5
<1>6. CASE FlushRecv(s, d)
  <2>1. /\ UNCHANGED <<qp, response, send_cq>> /\ qp[s][d] = "ERR"
        /\ recv_cq' = [recv_cq EXCEPT ![s] = Append(@, cqe("WR_FLUSH_ERR", 0))]
    BY <1>6 DEF FlushRecv
  <2>2. q = s => ~HealthyOf(q)
    BY <2>1 DEF HealthyOf
  <2>3. q # s => recv_cq'[q] = recv_cq[q]
    BY <1>1, <2>1
  <2> QED
    BY <1>1, <2>1, <2>2, <2>3 DEF SoundOf, HealthyOf, SendFailed, completion_error, wc
<1>7. ~FlushSend(s, d) /\ ~LengthError(s, d)
  <2>1. ~FlushSend(s, d)
    BY <1>2 DEF FlushSend, HealthyOf
  <2> QED
    BY <1>1, <2>1, NoLengthError
<1> QED
  BY <1>3, <1>4, <1>5, <1>6, <1>7 DEF AdapterStep

(***************************************************************************)
(* Soundness is kept by every step.                                        *)
(***************************************************************************)
LEMMA SoundStep == DoublingInv /\ Sound /\ [Next]_vars => Sound'
<1> SUFFICES ASSUME DoublingInv, Sound, [Next]_vars, WellCalled, NEW q \in Rank
             PROVE  SoundOf(q)'
  BY SameArguments DEF Sound, SoundOf
<1>1. \A r \in Rank : SoundOf(r)
  BY DEF Sound, SoundOf
<1>2. ASSUME NEW r \in Rank, RankStep(r) PROVE SoundOf(q)'
  BY <1>1, <1>2, SoundRank
<1>3. ASSUME NEW s \in Rank, NEW d \in Rank, Nic(s, d) PROVE SoundOf(q)'
  BY <1>1, <1>3, SoundAdapter DEF Nic
<1>4. CASE UNCHANGED vars
  BY <1>1, <1>4
     DEF vars, nic, SoundOf, HealthyOf, SendFailed, completion_error, Alive, InCall, Left, wc
<1> QED
  BY <1>2, <1>3, <1>4 DEF Next, Terminating

(***************************************************************************)
(* Agreeing ranks with legal buffers, a power of two of them, see no       *)
(* exception from allreduce_recursive_doubling before one of them has left *)
(* main, however far one is ahead of another; afterwards only in the last  *)
(* call, which all have entered, and only at the wait for a send.          *)
(***************************************************************************)
THEOREM OnlyLastCallThrowsTheorem == Spec => []OnlyLastCallThrows
<1>1. Init => Sound
  <2> SUFFICES ASSUME Init, NEW r \in Rank PROVE SoundOf(r)
    BY DEF Sound, SoundOf
  <2> QED
    BY DEF Init, TransportInit, SoundOf, HealthyOf, Alive
<1>2. DoublingInv /\ Sound => OnlyLastCallThrows
  <2> SUFFICES ASSUME DoublingInv, Sound, WellCalled, NEW r \in Rank
               PROVE  /\ pc[r] \in {"threw", "exited"} => Left /\ round[r] = MaxRounds
                      /\ pc[r] = "wait_recv" /\ recv_cq[r] # <<>> => received(r)
    BY DEF OnlyLastCallThrows
  <2>1. SoundOf(r) /\ LengthsTell
    BY WellCalledLengths DEF Sound, SoundOf, DoublingInv, Discipline
  <2>2. ASSUME pc[r] \in {"threw", "exited"} PROVE Left /\ round[r] = MaxRounds
    <3>1. Left
      BY <2>1, <2>2 DEF SoundOf, Alive, InCall
    <3> QED BY <2>1, <3>1, LeftLast
  <2>3. ASSUME pc[r] = "wait_recv", recv_cq[r] # <<>> PROVE received(r)
    <3>1. HealthyOf(r)
      BY <2>1, <2>3 DEF SoundOf, SendFailed, Alive, InCall
    <3>2. completed(recv_cq, r)
      BY <2>3, <3>1 DEF HealthyOf, completed
    <3> QED BY <2>3, <3>2, GoodLength
  <2> QED BY <2>2, <2>3
<1> QED
  BY <1>1, <1>2, SoundStep, DoublingInvariant, PTL DEF Spec

-----------------------------------------------------------------------------
(* What recursive doubling promises, without the exchanges.                *)

(***************************************************************************)
(* The elements of an accepted call lie in the buffer.                     *)
(***************************************************************************)
LEMMA ReturnedElements ==
  ASSUME Discipline, NEW r \in Rank, Returned(r)
  PROVE  /\ args[r].count \in Nat /\ \A e \in 0 .. args[r].count - 1 : e \in Index
         /\ is_power_of_two /\ round[r] \in 1 .. MaxRounds
<1>1. ~bad_arguments(r) /\ round[r] \in 1 .. MaxRounds
  BY MaxRoundsAssumption DEF Discipline, TypeOK, Control, ControlOf, Returned, Outside
<1>2. args[r].count \in Nat /\ args[r].mr \in 0 .. Span
  BY DEF Discipline, TypeOK, Arg
<1>3. args[r].count <= Span
  BY <1>1, <1>2, SpanAssumption DEF bad_arguments
<1> QED
  BY <1>1, <1>2, <1>3, SpanAssumption DEF bad_arguments, Index

(* A rank that has returned holds the reduction of everybody's             *)
(* contribution, and everybody has entered that call.                      *)
AnswersRight ==
  LengthsTell => \A r \in Rank : Returned(r) =>
    /\ handed(r) = [e \in 0 .. args[0].count - 1 |-> TreeFold(round[r], e)[0]]
    /\ \A s \in Rank : round[s] >= round[r]

(***************************************************************************)
(* A rank that has returned holds the tree over everybody's contribution,  *)
(* which is the same for all of them.                                      *)
(***************************************************************************)
LEMMA ReturnedAnswer ==
  ASSUME NEW V, Commutes(V)
  PROVE  DoublingInv => AnswersRight
<1> SUFFICES ASSUME DoublingInv, LengthsTell, NEW r \in Rank, Returned(r)
             PROVE  /\ handed(r) = [e \in 0 .. args[0].count - 1 |-> TreeFold(round[r], e)[0]]
                    /\ \A s \in Rank : round[s] >= round[r]
  BY DEF AnswersRight
<1>1. Entered(Rank, r, r) /\ 0 \in Rank
  BY PAssumption DEF DoublingInv, Heard, HeardOf, Rank
<1>2. args[0].count = args[r].count
  BY <1>1 DEF Entered
<1>3. /\ \A e \in 0 .. args[r].count - 1 : e \in Index
      /\ is_power_of_two /\ round[r] \in 1 .. MaxRounds /\ args[r].count \in Nat
  BY ReturnedElements DEF DoublingInv
<1>4. 0 \in Block(r, steps) /\ steps \in 0 .. steps
  BY <1>1, <1>3, Blocks, Steps, PAssumption
<1>5. ASSUME NEW e \in 0 .. args[r].count - 1
      PROVE  mem[r]["data"][e] = TreeFold(round[r], e)[0]
  <2>1. e \in Index /\ e < args[r].count
    BY <1>3, <1>5
  <2>2. mem[r]["data"][e] = TreeFold(round[r], e)[r]
    BY <2>1 DEF DoublingInv, Values, ValuesOf
  <2>3. TreeFold(round[r], e)[0] = TreeFold(round[r], e)[r]
    BY <1>3, <1>4, <2>1, TreeAgrees DEF TreeFold
  <2> QED BY <2>2, <2>3
<1> QED
  BY <1>1, <1>2, <1>5 DEF handed, Entered

(***************************************************************************)
(* A rank enters by a call and leaves by the end of its last step; nothing *)
(* else can be seen from outside.                                          *)
(***************************************************************************)
LEMMA Visible ==
  ASSUME Discipline, P > 1, [Next]_vars, NEW q \in Rank,
         ~Call(q), ~(WaitRecv(q) /\ pc'[q] = "idle")
  PROVE  round'[q] = round[q] /\ returns(q)' = returns(q) /\ handed(q)' = handed(q)
<1>1. /\ args' = args
      /\ pc \in [Rank -> {"idle", "post_recv", "post_send", "wait_send",
                          "wait_recv", "threw", "exited", "finished"}]
      /\ round \in [Rank -> 0 .. MaxRounds]
  BY SameArguments DEF Discipline, TypeOK
<1>2. ASSUME round'[q] = round[q], Outside(q)' <=> Outside(q),
             Returned(q) => \A e \in Index : mem'[q]["data"][e] = mem[q]["data"][e]
      PROVE  round'[q] = round[q] /\ returns(q)' = returns(q) /\ handed(q)' = handed(q)
  <2>1. returns(q)' = returns(q) /\ (Returned(q)' <=> Returned(q))
    BY <1>2 DEF returns, Returned
  <2>2. CASE ~Returned(q)
    BY <1>2, <2>1, <2>2 DEF handed
  <2>3. CASE Returned(q)
    <3>1. \A e \in 0 .. args[q].count - 1 : mem'[q]["data"][e] = mem[q]["data"][e]
      BY <1>2, <2>3, ReturnedElements
    <3> QED
      BY <1>1, <1>2, <2>1, <2>3, <3>1 DEF handed
  <2> QED BY <2>2, <2>3
<1>3. CASE UNCHANGED <<pc, round, mem>>
  BY <1>2, <1>3 DEF Outside
<1>4. ASSUME NEW r \in Rank, RankStep(r), r # q
      PROVE  round'[q] = round[q] /\ returns(q)' = returns(q) /\ handed(q)' = handed(q)
  <2>1. pc'[q] = pc[q] /\ round'[q] = round[q]
        /\ \A e \in Index : mem'[q]["data"][e] = mem[q]["data"][e]
    BY <1>4, OtherRanks DEF Buffer
  <2> QED BY <1>2, <2>1 DEF Outside
<1>5. CASE RankStep(q)
  <2>1. CASE WaitRecv(q)
    <3>1. pc[q] = "wait_recv" /\ pc'[q] = "post_recv" /\ round' = round
      BY <1>1, <2>1 DEF WaitRecv
    <3> QED BY <1>2, <3>1 DEF Returned, Outside
  <2>2. CASE PostRecv(q) \/ PostSend(q) \/ WaitSend(q) \/ Throw(q) \/ Exit(q)
    <3>1. ~Outside(q) /\ ~Outside(q)' /\ round' = round
      BY <1>1, <2>2 DEF PostRecv, PostSend, WaitSend, Throw, Exit, Outside
    <3> QED BY <1>2, <3>1 DEF Returned
  <2>3. CASE Finish(q)
    <3>1. Outside(q) /\ Outside(q)' /\ round' = round /\ mem' = mem
      BY <1>1, <2>3 DEF Finish, Outside
    <3> QED BY <1>2, <3>1
  <2> QED BY <1>5, <2>1, <2>2, <2>3 DEF RankStep, Work
<1>6. ASSUME NEW a \in Rank, NEW b \in Rank, Deliver(a, b), UNCHANGED ctl
      PROVE  round'[q] = round[q] /\ returns(q)' = returns(q) /\ handed(q)' = handed(q)
  <2>1. UNCHANGED <<pc, round>>
    BY <1>6 DEF ctl
  <2>2. Returned(q) => q # b
    BY <1>6, Receiving DEF Deliver, Arrived, Returned, Outside, InCall
  <2>3. q # b => \A e \in Index : mem'[q]["data"][e] = mem[q]["data"][e]
    BY <1>6 DEF Deliver, dma, Buffer
  <2> QED BY <1>2, <2>1, <2>2, <2>3 DEF Outside
<1>7. ASSUME NEW a \in Rank, NEW b \in Rank, AdapterStep(a, b), ~Deliver(a, b), UNCHANGED ctl
      PROVE  round'[q] = round[q] /\ returns(q)' = returns(q) /\ handed(q)' = handed(q)
  BY <1>3, <1>7 DEF AdapterStep, LengthError, Complete, RetryExceeded, FlushSend, FlushRecv,
                    FinishSend, ctl
<1> QED
  BY <1>3, <1>4, <1>5, <1>6, <1>7 DEF Next, Nic, Terminating, vars

(***************************************************************************)
(* One step of recursive doubling is one step of the allreduce it          *)
(* implements, or none.                                                    *)
(***************************************************************************)
LEMMA PromiseStep ==
  ASSUME P > 1, DoublingInv, DoublingInv', AnswersRight', LengthsTell, [Next]_vars
  PROVE  [Promise!Next]_(Promise!vars)
<1> DEFINE left == [r \in Rank |-> returns(r)]
           result == [r \in Rank |-> handed(r)]
<1>1. /\ args' = args /\ Discipline
      /\ round \in [Rank -> 0 .. MaxRounds]
      /\ pc \in [Rank -> {"idle", "post_recv", "post_send", "wait_send",
                          "wait_recv", "threw", "exited", "finished"}]
  BY SameArguments DEF DoublingInv, Discipline, TypeOK
<1>2. ASSUME NEW q \in Rank, Call(q) PROVE Promise!Enter(q)
  <2>1. /\ pc[q] = "idle" /\ round[q] < MaxRounds
        /\ round' = [round EXCEPT ![q] = @ + 1]
        /\ pc'[q] \in {"threw", "post_recv"} /\ round[q] \in Nat
    BY <1>1, <1>2, MaxRoundsAssumption DEF Call
  <2>2. ASSUME NEW r \in Rank, r # q
        PROVE  returns(r)' = returns(r) /\ handed(r)' = handed(r)
    <3>1. round'[r] = round[r] /\ round' # round
      BY <1>1, <2>1, <2>2
    <3>2. ~Call(r) /\ ~WaitRecv(r)
      BY <1>1, <3>1, MaxRoundsAssumption DEF Call, WaitRecv
    <3> QED
      BY <1>1, <2>2, <3>2, Visible
  <2>3. returns(q)' = returns(q) /\ returns(q) = round[q] /\ handed(q)' = <<>>
    <3>1. pc'[q] # "idle" /\ round'[q] = round[q] + 1
      BY <1>1, <2>1
    <3> QED
      BY <2>1, <3>1 DEF returns, Outside, handed, Returned
  <2>4. left' = left /\ result' = [result EXCEPT ![q] = <<>>]
    BY <2>2, <2>3
  <2> QED
    BY <1>1, <2>1, <2>3, <2>4 DEF Promise!Enter
<1>3. ASSUME NEW q \in Rank, WaitRecv(q), pc'[q] = "idle" PROVE Promise!Leave(q)
  <2>1. /\ pc[q] = "wait_recv" /\ round' = round /\ round[q] \in Nat /\ round[q] > 0
        /\ \A r \in Rank : r # q => pc'[r] = pc[r]
    <3>1. InCall(q)
      BY <1>3 DEF WaitRecv, InCall
    <3>2. round[q] \in 1 .. MaxRounds
      BY <1>1, <3>1, InTheCall DEF Discipline
    <3> QED
      BY <1>1, <1>3, <3>2, MaxRoundsAssumption DEF WaitRecv
  <2>2. ASSUME NEW r \in Rank, r # q
        PROVE  returns(r)' = returns(r) /\ handed(r)' = handed(r)
    <3>1. ~Call(r) /\ ~(WaitRecv(r) /\ pc'[r] = "idle")
      BY <1>1, <2>1, <2>2, MaxRoundsAssumption DEF Call, WaitRecv
    <3> QED
      BY <1>1, <2>2, <3>1, Visible
  <2>3. returns(q) = round[q] - 1 /\ returns(q)' = round[q]
    BY <1>3, <2>1 DEF returns, Outside
  <2>4. /\ handed(q)' = [e \in 0 .. args[0].count - 1 |-> TreeFold(round[q], e)[0]]
        /\ \A s \in Rank : round[s] >= round[q]
    <3>1. Returned(q)'
      BY <1>3, <2>1 DEF Returned, Outside
    <3>2. LengthsTell'
      BY SameArguments
    <3> QED
      BY <1>1, <2>1, <3>1, <3>2 DEF AnswersRight
  <2>5. left' = [left EXCEPT ![q] = round[q]] /\ result' = [result EXCEPT ![q] = handed(q)']
    BY <2>2, <2>3
  <2> QED
    BY <1>1, <2>1, <2>3, <2>4, <2>5
       DEF Promise!Leave, Promise!Reduced, TreeReduction
<1>4. CASE \A q \in Rank : ~Call(q) /\ ~(WaitRecv(q) /\ pc'[q] = "idle")
  <2>1. \A q \in Rank : /\ round'[q] = round[q] /\ returns(q)' = returns(q)
                        /\ handed(q)' = handed(q)
    BY <1>1, <1>4, Visible
  <2>2. round' \in [Rank -> 0 .. MaxRounds]
    BY DEF DoublingInv, Discipline, TypeOK
  <2>3. round' = round /\ left' = left /\ result' = result
    BY <1>1, <2>1, <2>2
  <2> QED
    BY <1>1, <2>3 DEF Promise!vars
<1> QED
  BY <1>2, <1>3, <1>4 DEF Promise!Next

(***************************************************************************)
(* allreduce_recursive_doubling implements the safety part of the          *)
(* allreduce its header promises, for every number of ranks greater than   *)
(* one, whatever they pass and whatever fails, unless their counts are     *)
(* 4 GiB apart: a rank leaves its k-th call only when every rank has       *)
(* entered that call, with the reduction of everybody's k-th contribution, *)
(* and owns it until it calls again.  The reduction commutes on the values *)
(* the ranks bring.  (One rank alone enters and leaves in one step.)       *)
(***************************************************************************)
THEOREM Refinement ==
  ASSUME P > 1, NEW V, Commutes(V)
  PROVE  Spec /\ LengthsTell => ImplementsAllreduce
<1>1. Init => Promise!Init
  <2> SUFFICES ASSUME Init PROVE Promise!Init
    OBVIOUS
  <2>1. 0 \in Rank /\ args \in [Rank -> Arg]
    BY PAssumption, InitDiscipline DEF Rank, Discipline, TypeOK
  <2>2. args[0].count \in Nat /\ round = [r \in Rank |-> 0]
    BY <2>1 DEF Arg, Init
  <2>3. \A r \in Rank : returns(r) = 0 /\ handed(r) = <<>>
    BY DEF Init, Returned, Outside, returns, handed
  <2> QED
    BY <2>2, <2>3 DEF Promise!Init
<1>2. LengthsTell /\ [Next]_vars => LengthsTell'
  BY SameArguments
<1>3. /\ DoublingInv /\ DoublingInv' /\ AnswersRight' /\ LengthsTell /\ [Next]_vars
      => [Promise!Next]_(Promise!vars)
  BY PromiseStep
<1>4. DoublingInv => AnswersRight
  BY ReturnedAnswer
<1> QED
  BY <1>1, <1>2, <1>3, <1>4, DoublingInvariant, PTL
     DEF Spec, ImplementsAllreduce, Promise!Safe

-----------------------------------------------------------------------------
(* The reductions of reduce_ops.cc, to which the theorems apply.           *)

(***************************************************************************)
(* wrap gives a value of the type that differs from its argument by a      *)
(* multiple of the modulus.                                                *)
(***************************************************************************)
LEMMA Wrapped ==
  ASSUME NEW n \in Int
  PROVE  wrap(n) \in Int32 /\ \E k \in Int : wrap(n) = n + (2 * Half) * k
<1> DEFINE m == 2 * Half
           q == (n + Half) \div m
           x == (n + Half) % m
<1>1. Half \in Int /\ m \in Int /\ m > 0 /\ m = 2 * Half
  BY HalfAssumption
<1>2. wrap(n) = x - Half
  BY DEF wrap
<1>3. Int32 = -Half .. Half - 1
  BY DEF Int32
<1> HIDE DEF m
<1>4. q \in Int /\ x \in Int /\ 0 <= x /\ x < m /\ n + Half = m * q + x
  BY <1>1
<1> HIDE DEF q, x
<1>5. wrap(n) = n + m * (-q)
  <2> DEFINE y == m * q
  <2>1. y \in Int /\ m * (-q) = -y
    BY <1>1, <1>4
  <2>2. n + Half = y + x
    BY <1>4
  <2> HIDE DEF y
  <2> QED BY <1>1, <1>2, <1>4, <2>1, <2>2
<1>6. -q \in Int
  BY <1>4
<1>7. wrap(n) \in Int32
  BY <1>1, <1>2, <1>3, <1>4
<1> QED
  BY <1>5, <1>6, <1>7 DEF m

(***************************************************************************)
(* Two values of the type that differ by a multiple of the modulus are     *)
(* equal.                                                                  *)
(***************************************************************************)
LEMMA SameResidue ==
  ASSUME NEW u \in Int32, NEW v \in Int32, NEW k \in Int, u = v + (2 * Half) * k
  PROVE  u = v
<1> DEFINE m == 2 * Half
<1>1. /\ m \in Int /\ m > 0 /\ u \in Int /\ v \in Int
      /\ u - v < m /\ v - u < m
  BY HalfAssumption DEF Int32
<1>2. u = v + m * k
  OBVIOUS
<1> HIDE DEF m
<1>3. ASSUME k >= 1 PROVE FALSE
  <2>1. m * k = m + m * (k - 1) /\ m * (k - 1) >= 0
    BY <1>1, <1>3
  <2> QED BY <1>1, <1>2, <2>1
<1>4. ASSUME k <= -1 PROVE FALSE
  <2>1. m * k = -m + m * (k + 1) /\ m * (k + 1) <= 0
    BY <1>1, <1>4
  <2> QED BY <1>1, <1>2, <2>1
<1>5. k = 0
  BY <1>3, <1>4
<1> QED
  BY <1>1, <1>2, <1>5

(***************************************************************************)
(* Sums that overflow in between do not depend on the grouping.            *)
(***************************************************************************)
LEMMA SumAssociates ==
  ASSUME NEW a \in Int32, NEW b \in Int32, NEW c \in Int32
  PROVE  int_sum(int_sum(a, b), c) = int_sum(a, int_sum(b, c))
<1> DEFINE m == 2 * Half
           x == wrap(a + b)
           y == wrap(b + c)
           u == wrap(x + c)
           v == wrap(a + y)
<1>1. a \in Int /\ b \in Int /\ c \in Int /\ m \in Int /\ \A z \in Int32 : z \in Int
  BY HalfAssumption DEF Int32
<1>2. x \in Int32 /\ \E k \in Int : x = (a + b) + m * k
  BY <1>1, Wrapped
<1>3. y \in Int32 /\ \E k \in Int : y = (b + c) + m * k
  BY <1>1, Wrapped
<1>4. u \in Int32 /\ \E k \in Int : u = (x + c) + m * k
  BY <1>1, <1>2, Wrapped
<1>5. v \in Int32 /\ \E k \in Int : v = (a + y) + m * k
  BY <1>1, <1>3, Wrapped
<1>6. u = int_sum(int_sum(a, b), c) /\ v = int_sum(a, int_sum(b, c))
  BY Zenon DEF int_sum
<1> HIDE DEF x, y, u, v
<1>7. PICK i \in Int : x = (a + b) + m * i
  BY <1>2
<1>8. PICK j \in Int : y = (b + c) + m * j
  BY <1>3
<1>9. PICK k \in Int : u = (x + c) + m * k
  BY <1>4
<1>10. PICK l \in Int : v = (a + y) + m * l
  BY <1>5
<1>11. (i + k) - (j + l) \in Int
  OBVIOUS
<1>12. u = v + (2 * Half) * ((i + k) - (j + l))
  <2> HIDE DEF m
  <2>1. m * ((i + k) - (j + l)) = (m * i + m * k) - (m * j + m * l)
    BY <1>1
  <2>2. m * i \in Int /\ m * j \in Int /\ m * k \in Int /\ m * l \in Int
    BY <1>1
  <2>3. u = v + m * ((i + k) - (j + l))
    BY <1>1, <1>2, <1>3, <1>7, <1>8, <1>9, <1>10, <2>1, <2>2
  <2> QED BY <2>3 DEF m
<1>13. u = v
  BY <1>4, <1>5, <1>11, <1>12, SameResidue
<1> QED
  BY <1>6, <1>13

(***************************************************************************)
(* The integer reductions of reduce_inplace are closed, commutative and    *)
(* associative for every width, although partial sums overflow on some     *)
(* ranks and not on others.                                                *)
(***************************************************************************)
THEOREM IntegersTheorem == IntOrderIrrelevant
<1> SUFFICES ASSUME NEW op \in {"Sum", "Min", "Max"},
                    NEW a \in Int32, NEW b \in Int32, NEW c \in Int32
             PROVE  /\ reduce_int(op, a, b) \in Int32
                    /\ reduce_int(op, a, b) = reduce_int(op, b, a)
                    /\ reduce_int(op, reduce_int(op, a, b), c) =
                         reduce_int(op, a, reduce_int(op, b, c))
  BY Zenon DEF IntOrderIrrelevant
<1>1. a \in Int /\ b \in Int /\ c \in Int
  BY HalfAssumption DEF Int32
<1>2. CASE op = "Sum"
  <2>1. \A x, y : reduce_int(op, x, y) = int_sum(x, y)
    BY <1>2 DEF reduce_int
  <2>2. a + b = b + a /\ a + b \in Int
    BY <1>1
  <2>3. int_sum(a, b) \in Int32 /\ int_sum(a, b) = int_sum(b, a)
    BY <2>2, Wrapped DEF int_sum
  <2> QED BY <2>1, <2>3, SumAssociates
<1>3. CASE op = "Min"
  <2>1. \A x, y : reduce_int(op, x, y) = int_min(x, y)
    BY <1>3 DEF reduce_int
  <2> QED BY <1>1, <2>1 DEF int_min
<1>4. CASE op = "Max"
  <2>1. \A x, y : reduce_int(op, x, y) = int_max(x, y)
    BY <1>4 DEF reduce_int
  <2> QED BY <1>1, <2>1 DEF int_max
<1> QED
  BY <1>2, <1>3, <1>4

(***************************************************************************)
(* So recursive doubling gives every rank the same int32_t answer, for     *)
(* Sum, Min and Max and whatever overflows.                                *)
(***************************************************************************)
THEOREM SameIntegerTheorem ==
  ASSUME NEW op \in {"Sum", "Min", "Max"},
         \A x, y \in Int32 : Op(x, y) = reduce_int(op, x, y),
         \A r \in Rank, it \in 1 .. MaxRounds, e \in Index : Input(r, it, e) \in Int32
  PROVE  Spec => []SameAnswer
<1>1. Commutes(Int32)
  BY IntegersTheorem DEF IntOrderIrrelevant, Commutes
<1> QED
  BY <1>1, SameAnswerTheorem

(***************************************************************************)
(* And the same float, for Min and Max, when no contribution is NaN and    *)
(* zeros do not come with both signs.                                      *)
(***************************************************************************)
THEOREM SameFloatTheorem ==
  ASSUME NEW op \in {"Min", "Max"}, NEW V, Comparable(V),
         \A x, y \in V : Op(x, y) = reduce_float(op, x, y),
         \A r \in Rank, it \in 1 .. MaxRounds, e \in Index : Input(r, it, e) \in V
  PROVE  Spec => []SameAnswer
<1>1. ASSUME NEW x \in V, NEW y \in V
      PROVE  reduce_float(op, x, y) \in V /\ reduce_float(op, x, y) = reduce_float(op, y, x)
  <2>1. /\ x.kind # "nan" /\ y.kind # "nan" /\ x.num \in Int /\ y.num \in Int
        /\ x.num = y.num => x = y
    BY DEF Comparable
  <2>2. \/ reduce_float(op, x, y) = float_min(x, y) /\ reduce_float(op, y, x) = float_min(y, x)
        \/ reduce_float(op, x, y) = float_max(x, y) /\ reduce_float(op, y, x) = float_max(y, x)
    BY DEF reduce_float
  <2> QED BY <2>1, <2>2 DEF float_min, float_max, less
<1>2. Commutes(V)
  BY <1>1 DEF Commutes
<1> QED
  BY <1>2, SameAnswerTheorem
=============================================================================
