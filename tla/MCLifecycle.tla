---------------------------- MODULE MCLifecycle ----------------------------
(***************************************************************************)
(* Every dependency graph over at most N components: with N = 3 the graphs *)
(* include a chain, a fork, a join and independent components, so a level  *)
(* of two, three levels, and a component that skips a level all occur.     *)
(***************************************************************************)
EXTENDS Lifecycle
=============================================================================
