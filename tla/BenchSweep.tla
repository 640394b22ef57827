----------------------------- MODULE BenchSweep -----------------------------
(***************************************************************************)
(* The loop over message sizes of bench/bench_allreduce.cc on one rank,    *)
(* which bench/bench_mpi_allreduce.cc has word for word.  What a rank does *)
(* for one size is one step here: the calls of the collectives are the     *)
(* subject of AllreduceRing and RecursiveDoubling.  A size_t does not wrap *)
(* in this loop: buffers of max_size bytes have been allocated before it.  *)
(***************************************************************************)
EXTENDS Integers

CONSTANTS
  Args,        \* the possible values of args: min_size, max_size
  elem_size    \* bytes of an element

VARIABLES
  args,        \* the command line
  size_bytes,  \* the loop variable
  pc

vars == <<args, size_bytes, pc>>

count == size_bytes \div elem_size

Init ==
  /\ args \in Args
  /\ size_bytes = args.min_size
  /\ pc = "test"

Test ==
  /\ pc = "test"
  /\ pc' = IF size_bytes > args.max_size THEN "done"
           ELSE IF count = 0 THEN "increment" ELSE "body"
  /\ UNCHANGED <<args, size_bytes>>

Measure ==
  /\ pc = "body"
  /\ pc' = "increment"
  /\ UNCHANGED <<args, size_bytes>>

Increment ==
  /\ pc = "increment"
  /\ size_bytes' = size_bytes * 2
  /\ pc' = "test"
  /\ UNCHANGED args

Terminating == pc = "done" /\ UNCHANGED vars

Next == Test \/ Measure \/ Increment \/ Terminating

FairSpec == Init /\ [][Next]_vars /\ WF_vars(Next)

(***************************************************************************)
(* The sweep ends: "scaling iteration count down as message size grows     *)
(* keeps total sweep wall-clock time roughly bounded" (bench_allreduce.cc, *)
(* choose_iters), and a "size smaller than one element" is skipped.        *)
(***************************************************************************)
SweepEnds == <>(pc = "done")
=============================================================================
