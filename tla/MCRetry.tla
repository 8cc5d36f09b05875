------------------------------ MODULE MCRetry ------------------------------
(***************************************************************************)
(* A second is four ticks and a Duration has seven bits, so that the delay *)
(* a header asks for can be within the cap of eight ticks, above it, and   *)
(* so far above that it wraps, to less than nothing and to one second.     *)
(***************************************************************************)
EXTENDS Retry

MCHeaders ==
    {[kind |-> "none", v |-> 0], [kind |-> "date", v |-> 0], [kind |-> "date", v |-> 9]}
        \cup {[kind |-> "seconds", v |-> n] : n \in {2, 3, 20, 33}}
MCDeadlines == {0, 2, 9, NoDeadline}
=============================================================================
