------------------------------ MODULE MCWorker ------------------------------
(***************************************************************************)
(* Two probes and two checks: a check may be registered, fail and recover  *)
(* before, between and after the ones a probe runs.  Probes do not meet    *)
(* one another, except through what they read.  Two Starts and two Stops:  *)
(* one pair may overlap the other, or come after its Stop has expired.     *)
(***************************************************************************)
EXTENDS Worker, TLC

CONSTANTS p1, p2, a, b, s1, s2, c1, c2
MCProbes == {p1, p2}
MCChecks == {a, b}
MCStarts == {s1, s2}
MCStops == {c1, c2}
Symmetry == Permutations(MCProbes) \cup Permutations(MCChecks)
            \cup Permutations(MCStarts) \cup Permutations(MCStops)
=============================================================================
