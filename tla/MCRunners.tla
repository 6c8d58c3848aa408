------------------------------ MODULE MCRunners ------------------------------
(* Bounds for TLC: the configurations give the number of runners, the size *)
(* of the queue and whether fork may fail.                                 *)
EXTENDS Runners
=============================================================================
