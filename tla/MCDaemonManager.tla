-------------------------- MODULE MCDaemonManager --------------------------
(***************************************************************************)
(* A small instance of DaemonManager for TLC.                              *)
(***************************************************************************)
EXTENDS DaemonManager, TLC

\* Bound: how many different things have gone wrong so far.
CONSTANT MaxRaces

Bounds == Cardinality(races) <= MaxRaces

Identities == Permutations(Flows) \cup Permutations(Users)
=============================================================================
