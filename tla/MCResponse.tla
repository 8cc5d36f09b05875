---------------------------- MODULE MCResponse -----------------------------
(***************************************************************************)
(* Four loggers, so that two can be derived from one that was derived and  *)
(* has room for a call more; an attribute and a group.  The stacks are all *)
(* there are of the three layers.                                          *)
(***************************************************************************)
EXTENDS Response
=============================================================================
