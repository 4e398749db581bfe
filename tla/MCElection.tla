----------------------------- MODULE MCElection -----------------------------
(***************************************************************************)
(* Instances of LeaderElection for TLC: one or two nodes, faults on one of *)
(* them.                                                                   *)
(***************************************************************************)
EXTENDS LeaderElection

CONSTANTS n1, n2

TwoNodes == {n1, n2}
OnlyFirst == {n1}
Nobody == {}
=============================================================================
