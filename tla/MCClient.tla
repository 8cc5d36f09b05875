----------------------------- MODULE MCClient ------------------------------
(***************************************************************************)
(* Two goroutines that call again and again: with two failures to a trip,  *)
(* one is a straggler, admitted before the circuit opened, while the other *)
(* is a probe or is refused.  Two attempts to a call.                      *)
(***************************************************************************)
EXTENDS Client

CONSTANTS r1, r2
MCTwo == {r1, r2}
=============================================================================
