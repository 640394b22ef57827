---------------------------- MODULE MCBootstrap -----------------------------
(***************************************************************************)
(* Bootstrap for TLC: a launch is right, or wrong in any way that keeps    *)
(* one process of rank 0.                                                  *)
(***************************************************************************)
EXTENDS BootstrapInv

AllLaunches == {f \in [Proc -> 0 .. P] : \A p \in Proc : f[p] = 0 <=> p = 0}

RightLaunches ==
  {f \in AllLaunches : /\ \A p \in Proc : f[p] # P
                       /\ \A p, q \in Proc : f[p] = f[q] => p = q}

WrongLaunches == AllLaunches \ RightLaunches
=============================================================================
