------------------------------ MODULE Exchange ------------------------------
(***************************************************************************)
(* What TcpBootstrap::exchange promises (bootstrap.hpp): it "blocks until  *)
(* every rank has submitted its full outgoing set, then returns everything *)
(* addressed to this rank, keyed by source rank".                          *)
(*                                                                         *)
(* The same exchange is made again and again: the first one carries the    *)
(* endpoint infos of a Communicator, the others are its barriers.  It is   *)
(* the abstract specification that Bootstrap implements and on which       *)
(* Communicator is built.                                                  *)
(***************************************************************************)
EXTENDS Integers, Sequences

CONSTANT P   \* world_size

Proc == 0 .. P - 1

VARIABLES
  rank_of,    \* rank_of[p]: the rank process p was launched with
  submitted,  \* submitted[p][k]: what p submitted to its k-th exchange, by destination
  left,       \* left[p]: exchanges p has returned from
  result      \* result[p]: what the last one returned, by source

exchange == <<rank_of, submitted, left, result>>

ExchangeInit(ranks) ==
  /\ rank_of = ranks
  /\ submitted = [p \in Proc |-> <<>>]
  /\ left = [p \in Proc |-> 0]
  /\ result = [p \in Proc |-> <<>>]

Enter(p, outgoing) ==
  /\ left[p] = Len(submitted[p])
  /\ submitted' = [submitted EXCEPT ![p] = Append(@, outgoing)]
  /\ UNCHANGED <<rank_of, left, result>>

(* Everything submitted to the k-th exchange for p, under its sender's     *)
(* rank.                                                                   *)
Addressed(p, k) ==
  LET to_p == {q \in Proc : rank_of[p] \in DOMAIN submitted[q][k]}
  IN  [src \in {rank_of[q] : q \in to_p} |->
         submitted[CHOOSE q \in to_p : rank_of[q] = src][k][rank_of[p]]]

Leave(p) ==
  /\ left[p] < Len(submitted[p])
  /\ \A q \in Proc : left[p] < Len(submitted[q])
  /\ \A q, s \in Proc : rank_of[q] = rank_of[s] => q = s
  /\ left' = [left EXCEPT ![p] = @ + 1]
  /\ result' = [result EXCEPT ![p] = Addressed(p, left[p] + 1)]
  /\ UNCHANGED <<rank_of, submitted>>

(* A process enters with whatever it likes.                                *)
EnterSome(p) ==
  /\ Len(submitted'[p]) = Len(submitted[p]) + 1
  /\ \E outgoing \in {submitted'[p][Len(submitted'[p])]} : Enter(p, outgoing)

ExchangeSpec ==
  /\ ExchangeInit(rank_of)
  /\ [][\E p \in Proc : EnterSome(p) \/ Leave(p)]_exchange
=============================================================================
