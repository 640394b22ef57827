---------------------------- MODULE MCBenchSweep ----------------------------
(***************************************************************************)
(* BenchSweep for TLC: from sizes below and at the size of an element,     *)
(* with the default largest size.                                          *)
(***************************************************************************)
EXTENDS BenchSweep

CommandLines == [min_size : {0, 1, 8}, max_size : {2 ^ 28}]
=============================================================================
