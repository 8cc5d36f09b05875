-------------------------- MODULE MCNotifications --------------------------
(***************************************************************************)
(* A queue of one and three requests: a handler can be blocked while the   *)
(* queue is full and the worker waits for the provider.                    *)
(***************************************************************************)
EXTENDS Notifications, TLC

CONSTANTS q1, q2, q3
MCRequests == {q1, q2, q3}
Symmetry == Permutations(MCRequests)
=============================================================================
