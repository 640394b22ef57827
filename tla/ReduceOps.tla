----------------------------- MODULE ReduceOps ------------------------------
(***************************************************************************)
(* reduce_inplace (src/collectives/reduce_ops.cc) on one element, for the  *)
(* two element types and the three operations.                             *)
(*                                                                         *)
(* An int32_t is an integer in two's complement range.  Sum is plain       *)
(* signed +, whose overflow C++ leaves undefined and whose compiled form   *)
(* wraps.                                                                  *)
(*                                                                         *)
(* A float is abstracted to what std::min and std::max can tell apart, the *)
(* result of <: an ordered number is a record of its magnitude on the      *)
(* number line and the sign of its zero, and NaN is not ordered with       *)
(* anything.  +0 and -0 compare equal and are different bits.              *)
(***************************************************************************)
EXTENDS Integers

CONSTANT Half   \* 2^31, the number of int32_t values below zero
ASSUME HalfAssumption == Half \in Nat \ {0}

Int32 == -Half .. Half - 1

(* The low bits of n, as a signed integer.                                 *)
wrap(n) == ((n + Half) % (2 * Half)) - Half

NaN == [num |-> 0, kind |-> "nan"]
Float(n, kind) == [num |-> n, kind |-> kind]
less(x, y) == x.kind # "nan" /\ y.kind # "nan" /\ x.num < y.num

(* std::min(dst, src) is (src < dst) ? src : dst, std::max(dst, src) is    *)
(* (dst < src) ? src : dst.                                                *)
int_sum(dst, src) == wrap(dst + src)
int_min(dst, src) == IF src < dst THEN src ELSE dst
int_max(dst, src) == IF dst < src THEN src ELSE dst
float_min(dst, src) == IF less(src, dst) THEN src ELSE dst
float_max(dst, src) == IF less(dst, src) THEN src ELSE dst

reduce_int(op, dst, src) ==
  CASE op = "Sum" -> int_sum(dst, src)
    [] op = "Min" -> int_min(dst, src)
    [] op = "Max" -> int_max(dst, src)

reduce_float(op, dst, src) ==
  CASE op = "Min" -> float_min(dst, src)
    [] op = "Max" -> float_max(dst, src)

-----------------------------------------------------------------------------
(***************************************************************************)
(* The reductions of int32_t are closed, commutative and associative,      *)
(* overflow included, so that the order in which the two allreduce         *)
(* algorithms combine contributions does not show.                         *)
(***************************************************************************)
IntOrderIrrelevant ==
  \A op \in {"Sum", "Min", "Max"} : \A a, b, c \in Int32 :
    /\ reduce_int(op, a, b) \in Int32
    /\ reduce_int(op, a, b) = reduce_int(op, b, a)
    /\ reduce_int(op, reduce_int(op, a, b), c) =
         reduce_int(op, a, reduce_int(op, b, c))

(* Floats none of which is NaN and of which no two differ only in what <   *)
(* does not see, as +0 and -0 do.                                          *)
Comparable(V) ==
  \A x, y \in V : x.kind # "nan" /\ x.num \in Int /\ (x.num = y.num => x = y)
=============================================================================
