-------------------------------- MODULE MCThreads --------------------------------
(* Threads for TLC: up to three threads and seven ones, so that shares are *)
(* zero, one and two, with and without a remainder.                        *)
EXTENDS Threads
=============================================================================
