------------------------------ MODULE MCOrders ------------------------------
(***************************************************************************)
(* Two calls of Start and two of Shutdown, so that each may run before,    *)
(* after and between the steps of the others, and two requests.            *)
(***************************************************************************)
EXTENDS Orders

CONSTANTS s1, s2, c1, c2, q1, q2
MCStarts == {s1, s2}
MCStops == {c1, c2}
MCRequests == {q1, q2}
=============================================================================
